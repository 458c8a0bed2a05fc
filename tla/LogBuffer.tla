------------------------------ MODULE LogBuffer ------------------------------
(***************************************************************************)
(* The log (main/log_buffer.c): a ring in external memory that keeps its   *)
(* contents over a restart, written under a mutex by every task that logs, *)
(* and read by stdout_flush_task and by readers with positions of their    *)
(* own (a download, the WebSocket log task).                               *)
(*                                                                         *)
(* Positions count everything ever written since the ring was last wiped.  *)
(* A cell stands for a run of characters: the line it belongs to, its      *)
(* place in it and whether the line ends there.  A restart finds in memory *)
(* what was flushed from the cache: ring_write flushes the data, then the  *)
(* header with its counter and checksum, and a header that was evicted     *)
(* between the two has a checksum that does not fit.                       *)
(***************************************************************************)
EXTENDS Integers, FiniteSetsExt, Functions

CONSTANTS LOG_BUFFER_SIZE, \* cells of the ring
          CHUNK,           \* flush_buf: cells copied to stdout at a time
          MAX_LEN,         \* cells a reader's buffer has
          SCAN,            \* 4096: how far a reader looks for the next line
          LineLengths, MaxLines, MaxRestarts \* bounds

MARKER == 0 \* "--- SYSTEM RESTART ---", a line of one cell
Cell(line, i, n) == [line |-> line, at |-> i, ends |-> i = n]
Blank == [line |-> -1, at |-> 1, ends |-> FALSE]

VARIABLES ring,     \* s_buffer
          total,    \* s_header.total_written
          valid,    \* the header's checksum fits
          writing,  \* ring_write: [pc, line, len]; the mutex is held unless "idle"
          stdout,   \* [pos, dropped], with where it began and what it printed
          reader,   \* a reader: [pos, last, fits]: its position, the cell it got last
          booted, lines, restarts,
          text,     \* what was written at each position since the wipe
          torn      \* below it lie cells that a line lost in a restart replaced
vars == <<ring, total, valid, writing, stdout, reader, booted, lines, restarts, text, torn>>

Idle == [pc |-> "idle", line |-> 0, len |-> 0]
NewReader == [pos |-> 0, last |-> Blank, fits |-> TRUE]
NewStdout == [pos |-> 0, start |-> 0, dropped |-> 0, printed |-> 0, right |-> TRUE]

Init == /\ ring = [c \in 0 .. LOG_BUFFER_SIZE - 1 |-> Blank]
        /\ total = 0 /\ valid = FALSE /\ writing = Idle
        /\ stdout = NewStdout /\ reader = NewReader
        /\ booted = FALSE /\ lines = 0 /\ restarts = 0 /\ text = <<>> /\ torn = 0
-----------------------------------------------------------------------------
(* ring_write, in the steps that a restart can separate. *)

Readers == <<stdout, reader>>
At(p) == ring[p % LOG_BUFFER_SIZE]

\* The ring with a line of n cells written from the counter's position on.
WithLine(line, n) ==
  [c \in DOMAIN ring |->
     LET i == ((c - total) % LOG_BUFFER_SIZE) + 1 IN IF i <= n THEN Cell(line, i, n) ELSE ring[c]]
TextWithLine(line, n) ==
  [p \in DOMAIN text \cup (total .. total + n - 1) |->
     IF p < total THEN text[p] ELSE Cell(line, p - total + 1, n)]

\* log_buffer_vprintf takes the mutex and copies the line.
WriteData(n) ==
  /\ booted /\ writing.pc = "idle" /\ lines < MaxLines
  /\ lines' = lines + 1 /\ ring' = WithLine(lines', n)
  /\ writing' = [pc |-> "counter", line |-> lines', len |-> n]
  /\ UNCHANGED <<total, valid, Readers, booted, restarts, text, torn>>

WriteCounter ==
  /\ writing.pc = "counter" /\ writing' = [writing EXCEPT !.pc = "checksum"]
  /\ text' = TextWithLine(writing.line, writing.len)
  /\ total' = total + writing.len
  /\ UNCHANGED <<ring, valid, Readers, booted, lines, restarts, torn>>

WriteChecksum ==
  /\ writing.pc = "checksum" /\ writing' = Idle
  /\ UNCHANGED <<ring, total, valid, Readers, booted, lines, restarts, text, torn>>
-----------------------------------------------------------------------------
Oldest == Max({0, total - LOG_BUFFER_SIZE})

\* stdout_flush_task copies one chunk under the mutex and counts what it missed.
Flush ==
  /\ booted /\ writing.pc = "idle"
  /\ LET pos == Max({stdout.pos, Oldest})
         n == Min({CHUNK, total - pos})
     IN stdout' = [stdout EXCEPT
                     !.pos = pos + n, !.printed = @ + n, !.dropped = @ + pos - stdout.pos,
                     !.right = @ /\ \A p \in Max({pos, torn}) .. pos + n - 1 : At(p) = text[p]]
  /\ UNCHANGED <<ring, total, valid, writing, reader, booted, lines, restarts, text, torn>>

\* A mutant: the reader goes on in the middle of a line.
Resynced_Not(pos) == Max({pos, Oldest})

\* After an overrun a reader starts behind the next end of a line, if one is near.
Resynced(pos) ==
  LET near == {p \in Oldest .. Min({Oldest + SCAN, total}) - 1 : At(p).ends}
  IN IF pos >= Oldest THEN pos ELSE IF near = {} THEN Oldest ELSE Min(near) + 1

Follows(last, next) == next.at = IF last.ends THEN 1 ELSE last.at + 1

\* log_buffer_read_absolute: at most one line, and no more than the buffer takes.
ReadAbsolute ==
  /\ booted /\ writing.pc = "idle"
  /\ LET pos == Resynced(Min({reader.pos, total}))
         ends == {p \in pos .. Min({pos + MAX_LEN, total}) - 1 : At(p).ends}
         upto == IF ends = {} THEN Min({pos + MAX_LEN, total}) ELSE Min(ends) + 1
         skipped == pos # reader.pos
     IN /\ reader' = [pos |-> upto,
                      last |-> IF torn > Oldest \/ (skipped /\ upto = pos) THEN Blank
                               ELSE IF upto = pos THEN reader.last ELSE At(upto - 1),
                      fits |-> torn > Oldest \/ upto = pos \/
                         IF skipped THEN At(pos).at = 1
                         ELSE reader.last = Blank \/ Follows(reader.last, At(pos))]
  /\ UNCHANGED <<ring, total, valid, writing, stdout, booted, lines, restarts, text, torn>>
-----------------------------------------------------------------------------
\* A restart: tasks and positions are gone; the header in memory is the one last
\* flushed, or a torn one.
Restart ==
  /\ booted /\ restarts < MaxRestarts /\ restarts' = restarts + 1
  /\ booted' = FALSE /\ writing' = Idle /\ stdout' = NewStdout /\ reader' = NewReader
  /\ IF writing.pc = "checksum"
       THEN \/ valid' = FALSE /\ UNCHANGED <<total, text>>
            \/ /\ total' = total - writing.len /\ text' = Restrict(text, 0 .. total' - 1)
               /\ UNCHANGED valid
       ELSE UNCHANGED <<valid, total, text>>
  /\ torn' = Max({torn, total' + writing.len - LOG_BUFFER_SIZE})
  /\ UNCHANGED <<ring, lines>>

\* log_buffer_init: a header that does not fit wipes the ring, a good one is
\* followed by the marker.  stdout goes on from here, other readers from the start.
Boot ==
  /\ ~booted /\ booted' = TRUE
  /\ IF valid
       THEN /\ ring' = WithLine(MARKER, 1) /\ text' = TextWithLine(MARKER, 1)
            /\ total' = total + 1
       ELSE /\ ring' = [c \in DOMAIN ring |-> Blank] /\ text' = <<>> /\ total' = 0
  /\ torn' = IF valid THEN torn ELSE 0
  /\ valid' = TRUE
  /\ stdout' = [NewStdout EXCEPT !.pos = total', !.start = total']
  /\ UNCHANGED <<writing, reader, lines, restarts>>

Next == \/ \E n \in LineLengths : WriteData(n)
        \/ WriteCounter \/ WriteChecksum \/ Flush \/ ReadAbsolute \/ Restart \/ Boot
Spec == Init /\ [][Next]_vars
-----------------------------------------------------------------------------
LongestText == MaxRestarts + MaxLines * Max(LineLengths)
Cells == [line : -1 .. MaxLines, at : 1 .. Max(LineLengths), ends : BOOLEAN]

\* Every variable has its type.
TypeOK ==
  /\ ring \in [0 .. LOG_BUFFER_SIZE - 1 -> Cells] /\ total \in 0 .. LongestText /\ valid \in BOOLEAN
  /\ writing \in [pc : {"idle", "counter", "checksum"}, line : 0 .. MaxLines, len : {0} \cup LineLengths]
  /\ stdout.pos \in 0 .. LongestText /\ reader.pos \in 0 .. LongestText /\ reader.last \in Cells
  /\ booted \in BOOLEAN /\ lines \in 0 .. MaxLines /\ restarts \in 0 .. MaxRestarts
  /\ DOMAIN text = 0 .. total - 1

\* log_buffer.h: stdout prints what was written, once and in order, and
\* "dropped" counts exactly what it could not.
StdoutAccounts ==
  /\ stdout.right
  /\ stdout.pos - stdout.start = stdout.printed + stdout.dropped
  /\ stdout.pos <= total

\* A reader that falls behind goes on at the start of a line: what it is given
\* continues the line it has a part of or begins a new one.
WholeLines == reader.fits

\* Over restarts the ring holds the last LOG_BUFFER_SIZE cells written, but for
\* those that the line being written, or one a restart lost, has replaced already.
RingHoldsLog ==
  booted =>
    \A p \in Max({torn, Oldest + IF writing.pc = "counter" THEN writing.len ELSE 0}) .. total - 1 :
      At(p) = text[p]

LogKept == StdoutAccounts /\ WholeLines /\ RingHoldsLog

\* The first lines after a restart are whole as well: false, what the lost line
\* replaced still counts as the oldest text (README).
NothingTorn == booted => torn <= Oldest
\* log_buffer.c:197: what was logged before a restart can be read after it.  False
\* when the header was on its way (README).
RestartKeepsLog == booted /\ restarts > 0 => total > 0
=============================================================================

----------------------------- MODULE Scoreboard -----------------------------
(***************************************************************************)
(* The best shares (main/tasks/scoreboard.c) and the best difficulty       *)
(* (SYSTEM_notify_found_nonce in system.c).  ASIC_result_task alone adds   *)
(* entries; requests read them under the same mutex.  An insertion saves   *)
(* every entry it moves under its new index, the lowest place first; the   *)
(* writes wait in the queue of the settings store, so a restart keeps a    *)
(* prefix of them.                                                         *)
(*                                                                         *)
(* An entry is a difficulty and whether its extranonce2 is empty, as it is *)
(* in the jobs of a standard Stratum V2 channel: sscanf cannot read such   *)
(* an entry back.                                                          *)
(***************************************************************************)
EXTENDS Integers, Sequences, SequencesExt, FiniteSetsExt

CONSTANTS MAX_SCOREBOARD, Difficulties, MaxFinds, MaxRestarts

VARIABLES entries,         \* scoreboard->entries, up to count
          best_nonce_diff,
          flash,           \* the stored entries and the stored best difficulty
          queue,           \* the writes on their way there
          kept,            \* the entries when no write was on its way
          unreadable,      \* an entry that cannot be read back has been added
          finds, restarts
vars == <<entries, best_nonce_diff, flash, queue, kept, unreadable, finds, restarts>>

NONE == [difficulty |-> 0, empty |-> FALSE]
Entries == [difficulty : Difficulties, empty : BOOLEAN]
Slots == 1 .. MAX_SCOREBOARD

TypeOK == /\ entries \in Seq(Entries) /\ Len(entries) <= MAX_SCOREBOARD
          /\ best_nonce_diff \in Difficulties \cup {0}
          /\ flash \in [slot : [Slots -> Entries \cup {NONE}], best : Difficulties \cup {0}]
          /\ queue \in Seq([key : {0} \cup Slots, value : Entries])
          /\ kept \subseteq Entries /\ unreadable \in BOOLEAN
          /\ finds \in 0 .. MaxFinds /\ restarts \in 0 .. MaxRestarts
-----------------------------------------------------------------------------
Init == /\ entries = <<>> /\ best_nonce_diff = 0 /\ queue = <<>> /\ kept = {}
        /\ flash = [slot |-> [i \in Slots |-> NONE], best |-> 0]
        /\ unreadable = FALSE /\ finds = 0 /\ restarts = 0

Save(key, value) == [key |-> key, value |-> value]

\* SYSTEM_notify_found_nonce: the best difficulty of all is stored.
BestWrites(e) == IF e.difficulty <= best_nonce_diff THEN <<>> ELSE <<Save(0, e)>>

\* scoreboard_add: a full board takes only what beats its last entry.
Refused(e) == /\ Len(entries) = MAX_SCOREBOARD
              /\ e.difficulty <= entries[MAX_SCOREBOARD].difficulty
PlaceOf(e) == 1 + Len(SelectSeq(entries, LAMBDA x : x.difficulty >= e.difficulty))
Inserted(e) == LET all == InsertAt(entries, PlaceOf(e), e)
               IN  SubSeq(all, 1, IF Len(all) > MAX_SCOREBOARD THEN MAX_SCOREBOARD ELSE Len(all))
Moved(e) == Len(Inserted(e)) - PlaceOf(e) + 1

\* A mutant: the new entry is saved first.
Saves_Down(e) == [k \in 1 .. Moved(e) |-> Save(PlaceOf(e) + k - 1, Inserted(e)[PlaceOf(e) + k - 1])]

Saves(e) == LET last == Len(Inserted(e))
            IN  [k \in 1 .. Moved(e) |-> Save(last - k + 1, Inserted(e)[last - k + 1])]

FoundNonce(e) ==
  /\ finds < MaxFinds /\ finds' = finds + 1
  /\ unreadable' = (unreadable \/ e.empty)
  /\ best_nonce_diff' = Max({best_nonce_diff, e.difficulty})
  /\ IF Refused(e) THEN queue' = queue \o BestWrites(e) /\ UNCHANGED entries
     ELSE queue' = queue \o BestWrites(e) \o Saves(e) /\ entries' = Inserted(e)
  /\ UNCHANGED <<flash, kept, restarts>>

\* nvs_task.
Write == /\ queue # <<>> /\ queue' = Tail(queue)
         /\ LET w == Head(queue)
            IN  flash' = IF w.key = 0 THEN [flash EXCEPT !.best = w.value.difficulty]
                         ELSE [flash EXCEPT !.slot[w.key] = w.value]
         /\ kept' = IF queue' = <<>> THEN ToSet(entries) ELSE kept
         /\ UNCHANGED <<entries, best_nonce_diff, unreadable, finds, restarts>>

\* scoreboard_init: up to the first free slot, without what cannot be read.
Stored == SelectSeq(flash.slot, LAMBDA x : x # NONE)
Loaded == SelectSeq(Stored, LAMBDA x : ~x.empty)
Restart == /\ restarts < MaxRestarts /\ restarts' = restarts + 1
           /\ entries' = Loaded /\ best_nonce_diff' = flash.best /\ queue' = <<>>
           /\ UNCHANGED <<flash, kept, unreadable, finds>>

\* The answer to a request, taken under the mutex.
GET_scoreboard == [i \in 1 .. Len(entries) |-> entries[i].difficulty]

Next == Write \/ Restart \/ \E e \in Entries : FoundNonce(e)
Spec == Init /\ [][Next]_vars
-----------------------------------------------------------------------------
\* scoreboard.c:79: the board is in descending order, and no entry beats the best
\* difficulty, whichever writes a restart has cut off.
BoardInOrder ==
  /\ \A i \in 1 .. Len(GET_scoreboard) - 1 : GET_scoreboard[i] >= GET_scoreboard[i + 1]
  /\ GET_scoreboard # <<>> => GET_scoreboard[1] <= best_nonce_diff

\* scoreboard.c:80: once the board has been stored, a restart in the middle of an
\* insertion costs none of its entries but the last of a full board, as long as every
\* entry can be read back.
ScoresSurvive ==
  ~unreadable =>
    \A e \in kept : \/ e \in ToSet(entries)
                    \/ /\ Len(entries) = MAX_SCOREBOARD
                       /\ \A x \in ToSet(entries) : x.difficulty >= e.difficulty

ScoresHold == BoardInOrder /\ ScoresSurvive
=============================================================================

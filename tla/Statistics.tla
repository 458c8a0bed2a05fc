----------------------------- MODULE Statistics -----------------------------
(***************************************************************************)
(* The history of measurements (main/tasks/statistics_task.c) and the      *)
(* request that reads it (GET_system_statistics in http_server.c).  The    *)
(* task samples once a period; the buffer has a fixed number of places,    *)
(* and a full buffer is thinned: while the recorded span is shorter than   *)
(* the configured window one sample is taken out of the middle of the      *)
(* densest half, otherwise the oldest goes.  A request reads the rows one  *)
(* by one, the lock held for a row at a time, while the task goes on.      *)
(*                                                                         *)
(* A sample is its timestamp, counted in polls of the task, so that the    *)
(* test that a second has passed holds; the measured values are left out.  *)
(* The clock stops at MaxTime and the frequency changes at most MaxChanges *)
(* times: bounds of the exploration.                                       *)
(***************************************************************************)
EXTENDS Integers, Sequences, SequencesExt

CONSTANTS MAX_STATISTICS_COUNT, Frequencies, MaxTime, MaxChanges

VARIABLES
  buffer,     \* statisticsBuffer: the timestamps, <<>> too when it is not allocated
  frequency,  \* the setting statsFrequency; 0 turns the history off
  now,        \* esp_timer_get_time, in polls
  last,       \* statsData.timestamp
  httpd,      \* the request being answered: the index of the next row, the last row taken
  changes
vars == <<buffer, frequency, now, last, httpd, changes>>

TypeOK == /\ buffer \in Seq(1 .. MaxTime) /\ Len(buffer) <= MAX_STATISTICS_COUNT
          /\ frequency \in Frequencies /\ now \in 0 .. MaxTime /\ last \in 0 .. MaxTime
          /\ httpd \in [busy : BOOLEAN, index : 0 .. MAX_STATISTICS_COUNT, row : 0 .. MaxTime]
          /\ changes \in 0 .. MaxChanges
-----------------------------------------------------------------------------
At(i) == buffer[i + 1]
Late(low, high) == {i \in low .. high : At(i) >= (At(low) + At(high)) \div 2}
First(S, default) == IF S = {} THEN default ELSE CHOOSE i \in S : \A j \in S : i <= j
Split(low, high) ==
  LET first == First(Late(low, high), low)
      moved == IF first = low THEN low + 1 ELSE first
  IN  IF moved > high THEN high ELSE moved

\* A mutant: the sample after the oldest goes.
Densest_First == 1

\* Halve the interval by time and keep the half with more samples in it.
Densest ==
  LET half[p \in (1 .. MAX_STATISTICS_COUNT) \X (1 .. MAX_STATISTICS_COUNT)] ==
        LET low == p[1]  high == p[2]  split == Split(low, high)
        IN  IF high - low <= 1 THEN low
            ELSE IF split - low > high - split + 1 THEN half[<<low, split - 1>>]
            ELSE half[<<split, high>>]
  IN  half[<<1, MAX_STATISTICS_COUNT - 1>>]

Target == MAX_STATISTICS_COUNT * frequency
IndexToRemove(time) == IF time - At(0) >= Target THEN 0 ELSE Densest
addStatisticData(time) ==
  IF Len(buffer) < MAX_STATISTICS_COUNT THEN Append(buffer, time)
  ELSE Append(RemoveAt(buffer, IndexToRemove(time) + 1), time)

Init == /\ buffer = <<>> /\ frequency \in Frequencies /\ now = 0 /\ last = 0
        /\ httpd = [busy |-> FALSE, index |-> 0, row |-> 0] /\ changes = 0

\* One turn of statistics_task.
Sample ==
  /\ now < MaxTime /\ now' = now + 1
  /\ IF frequency # 0 THEN last' = now' /\ buffer' = addStatisticData(now')
     ELSE buffer' = <<>> /\ UNCHANGED last
  /\ UNCHANGED <<frequency, httpd, changes>>

SetFrequency(f) == /\ changes < MaxChanges /\ f # frequency
                   /\ frequency' = f /\ changes' = changes + 1
                   /\ UNCHANGED <<buffer, now, last, httpd>>

Request == /\ ~httpd.busy /\ httpd' = [busy |-> TRUE, index |-> 0, row |-> 0]
           /\ UNCHANGED <<buffer, frequency, now, last, changes>>

\* getStatisticData: the next row, or the end of the answer.
Row == /\ httpd.busy
       /\ httpd' = IF httpd.index < Len(buffer)
                   THEN [httpd EXCEPT !.index = @ + 1, !.row = At(httpd.index)]
                   ELSE [busy |-> FALSE, index |-> 0, row |-> 0]
       /\ UNCHANGED <<buffer, frequency, now, last, changes>>

Next == \/ Sample \/ Request \/ Row
        \/ \E f \in Frequencies : SetFrequency(f)
Spec == Init /\ [][Next]_vars
-----------------------------------------------------------------------------
\* http_server.c:1570: samples are in the order of time, and the row an answer takes
\* next is later than the one before, though the task may shift the buffer between.
RowsInOrder ==
  /\ \A i \in 1 .. Len(buffer) - 1 : buffer[i] < buffer[i + 1]
  /\ httpd.busy /\ httpd.index < Len(buffer) => httpd.row < At(httpd.index)

\* statistics_task.c:57: the newest sample is always there, and thinning spreads
\* over the whole history: a hole is never more than four times the mean distance.
EvenlyThinned ==
  Len(buffer) = MAX_STATISTICS_COUNT =>
    LET span == buffer[Len(buffer)] - buffer[1]
    IN  /\ buffer[Len(buffer)] = last
        /\ \A i \in 1 .. Len(buffer) - 1 :
             (MAX_STATISTICS_COUNT - 1) * (buffer[i + 1] - buffer[i]) <= 4 * span

StatisticsHold == RowsInOrder /\ EvenlyThinned
=============================================================================

---------------------------- MODULE BoundedFifo ----------------------------
(***************************************************************************)
(* What main/work_queue.c promises to its callers: a first-in first-out    *)
(* buffer of at most Size work items, in which a put waits for room, a     *)
(* get waits for an item, and a flush drops everything at once.  There is  *)
(* no ring, no lock and no condition variable here; WorkQueue.tla shows    *)
(* that the code's ring and its two condition variables implement this.    *)
(***************************************************************************)
EXTENDS Naturals, Sequences

CONSTANTS Size,     \* the capacity of the buffer
          Items     \* the work items that may be put into it

VARIABLE contents   \* the buffered items, oldest first

Init == contents = <<>>

\* A caller adds an item at the young end; there has to be room.
Put(i) == /\ Len(contents) < Size
          /\ contents' = Append(contents, i)

\* A caller takes the oldest item.
Get == /\ contents # <<>>
       /\ contents' = Tail(contents)

\* A caller drops every buffered item in one indivisible step.
Flush == contents' = <<>>

Next == \/ \E i \in Items : Put(i)
        \/ Get
        \/ Flush

Spec == Init /\ [][Next]_contents
=============================================================================

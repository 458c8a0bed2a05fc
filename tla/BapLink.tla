-------------------------------- MODULE BapLink --------------------------------
(***************************************************************************)
(* The accessory port (main/bap): uart_receive_task, which frames and      *)
(* handles commands; subscription_update_task, which sends the subscribed  *)
(* values that changed; uart_send_task, behind a queue; and                *)
(* mode_management_task, which starts the updates at the first connection. *)
(*                                                                         *)
(* The subscriptions are behind a mutex that both tasks try for 100 ms.    *)
(* Times are unsigned and wrap; one is a tick of the update task's         *)
(* period.  What the accessory knows is its view.                          *)
(***************************************************************************)
EXTENDS Integers, Sequences

CONSTANTS PARAMS,    \* number of parameters
          QUEUE_SIZE, WIDTH, SUBSCRIPTION_TIMEOUT,
          Intervals, \* of subscriptions
          MaxCommands, MaxChanges, MaxDrops, MaxLag \* bounds

Params == 1 .. PARAMS
NONE == -1 \* no valid last value, an accessory that was told nothing

VARIABLES clock,
          subs,    \* [active, last_subscribe, last_response, interval]
          last,    \* last_values, NONE if not valid
          mutex,   \* bap_subscription_mutex: "free" or who holds it
          rx,      \* uart_receive_task: [pc, cmd, param, interval, again, fresh]
          up,      \* subscription_update_task: [pc, now, at, lag]
          queue,   \* bap_uart_send_queue: <<parameter, value>>, NONE for an expiry
          sender,  \* uart_send_task: the message in its hands, or <<>>
          value,   \* the system's values
          view,    \* the accessory's
          lostFor, \* parameters about which a message was lost since they were subscribed
          connected, commands, changes, drops
vars == <<clock, subs, last, mutex, rx, up, queue, sender, value, view, lostFor,
          connected, commands, changes, drops>>
env == <<value, connected, commands, changes>>

IdleRx == [pc |-> "idle", cmd |-> "SUB", param |-> 1, interval |-> 0, again |-> FALSE, fresh |-> FALSE]
Init == /\ clock = 0 /\ mutex = "free" /\ rx = IdleRx
        /\ subs = [p \in Params |-> [active |-> FALSE, last_subscribe |-> 0, last_response |-> 0,
                                     interval |-> 0]]
        /\ last = [p \in Params |-> NONE] /\ view = [p \in Params |-> NONE]
        /\ up = [pc |-> "none", now |-> 0, at |-> 1, lag |-> 0]
        /\ queue = <<>> /\ sender = <<>> /\ value = [p \in Params |-> 0]
        /\ lostFor = {} /\ connected \in BOOLEAN
        /\ commands = 0 /\ changes = 0 /\ drops = 0

\* An unsigned difference.
Since(now, then) == (now - then) % WIDTH
-----------------------------------------------------------------------------
(* The receive task.  A line feed ends a command; a carriage return does so  *)
(* too and keeps it, and the line feed that follows ends it once more.  The  *)
(* two texts differ, so that the filter of duplicates passes both.           *)

others == <<clock, up, queue, sender, drops>>

\* A fresh accessory knows nothing yet. MaxCommands bounds the readings.
Command(cmd, p, interval, again, fresh) ==
  /\ rx = IdleRx
  /\ commands' = commands + (IF again THEN 2 ELSE 1) /\ commands' <= MaxCommands
  /\ rx' = [pc |-> "handle", cmd |-> cmd, param |-> p, interval |-> interval, again |-> again, fresh |-> fresh]
  /\ UNCHANGED <<subs, last, mutex, view, lostFor, value, connected, changes, others>>

\* The next reading of the command, if there is one.
Next_Reading == IF rx.again THEN [rx EXCEPT !.pc = "handle", !.again = FALSE] ELSE IdleRx

\* Without a connection a subscription is refused; else the mutex is taken, or
\* not in time, and then the command is lost.
Handle ==
  /\ rx.pc = "handle"
  /\ \/ /\ rx.cmd = "UNSUB" \/ connected
        /\ mutex = "free" /\ mutex' = "rx" /\ rx' = [rx EXCEPT !.pc = "change"]
        /\ UNCHANGED lostFor
     \/ /\ rx.cmd = "SUB" /\ ~connected
        /\ rx' = Next_Reading /\ UNCHANGED <<mutex, lostFor>>
     \/ /\ mutex # "free" /\ (rx.cmd = "UNSUB" \/ connected)
        /\ rx' = Next_Reading /\ lostFor' = lostFor \cup {rx.param} /\ UNCHANGED mutex
  /\ UNCHANGED <<subs, last, view, env, others>>

\* A mutant: the last value stays valid.
Forgotten_Not(p) == last
\* What the subscriber knows of the parameter does not count any more.
Forgotten(p) == [last EXCEPT ![p] = NONE]

Change ==
  /\ rx.pc = "change" /\ rx' = [rx EXCEPT !.pc = "acknowledge"]
  /\ IF rx.cmd = "SUB"
       THEN /\ subs' = [subs EXCEPT ![rx.param] = [active |-> TRUE, last_subscribe |-> clock, last_response |-> 0,
                                                   interval |-> rx.interval]]
            /\ last' = Forgotten(rx.param) /\ lostFor' = lostFor \ {rx.param}
            /\ view' = IF rx.fresh THEN [view EXCEPT ![rx.param] = NONE] ELSE view
       ELSE /\ subs' = [subs EXCEPT ![rx.param].active = FALSE]
            /\ UNCHANGED <<last, lostFor, view>>
  /\ UNCHANGED <<mutex, env, others>>

\* The acknowledgement is written at once, under the mutex.
Acknowledge ==
  /\ rx.pc = "acknowledge" /\ mutex' = "free"
  /\ rx' = [Next_Reading EXCEPT !.fresh = FALSE]
  /\ UNCHANGED <<subs, last, view, lostFor, env, others>>
-----------------------------------------------------------------------------
(* The update task. *)

rxVars == <<clock, rx, view, sender, drops>>

\* mode_management_task
StartUpdates ==
  /\ up.pc = "none" /\ connected /\ up' = [up EXCEPT !.pc = "time"]
  /\ UNCHANGED <<subs, last, mutex, queue, lostFor, env, rxVars>>

\* The time is read before the mutex is asked for.
ReadTime ==
  /\ up.pc = "time" /\ up' = [up EXCEPT !.pc = "lock", !.now = clock, !.lag = 0]
  /\ UNCHANGED <<subs, last, mutex, queue, lostFor, env, rxVars>>

LockUpdates ==
  /\ up.pc = "lock"
  /\ \/ mutex = "free" /\ mutex' = "up" /\ up' = [up EXCEPT !.pc = "scan", !.at = 1]
     \/ mutex # "free" /\ up' = [up EXCEPT !.pc = "time"] /\ UNCHANGED mutex
  /\ UNCHANGED <<subs, last, queue, lostFor, env, rxVars>>

Expired(p) == subs[p].active /\ Since(up.now, subs[p].last_subscribe) > SUBSCRIPTION_TIMEOUT
Due(p) == subs[p].active /\ Since(up.now, subs[p].last_response) >= subs[p].interval

Advance == IF up.at = PARAMS THEN up' = [up EXCEPT !.pc = "done"]
           ELSE up' = [up EXCEPT !.pc = "scan", !.at = @ + 1]

\* BAP_send_if_changed remembers the value before it is sent.
Scan ==
  /\ up.pc = "scan"
  /\ LET p == up.at IN
       \/ /\ Expired(p) /\ subs' = [subs EXCEPT ![p].active = FALSE]
          /\ up' = [up EXCEPT !.pc = "send expiry"] /\ UNCHANGED last
       \/ /\ ~Expired(p) /\ Due(p) /\ subs' = [subs EXCEPT ![p].last_response = up.now]
          /\ IF last[p] = value[p] THEN Advance /\ UNCHANGED last
             ELSE last' = [last EXCEPT ![p] = value[p]] /\ up' = [up EXCEPT !.pc = "send value"]
       \/ ~Expired(p) /\ ~Due(p) /\ Advance /\ UNCHANGED <<subs, last>>
  /\ UNCHANGED <<mutex, queue, lostFor, env, rxVars>>

\* xQueueSend waits for a second, under the mutex, and then drops the message.
SendUpdate ==
  /\ up.pc \in {"send value", "send expiry"} /\ Advance
  /\ \/ /\ Len(queue) < QUEUE_SIZE
        /\ queue' = Append(queue, <<up.at, IF up.pc = "send value" THEN last[up.at] ELSE NONE>>)
        /\ UNCHANGED lostFor
     \/ /\ Len(queue) = QUEUE_SIZE /\ UNCHANGED queue
        /\ lostFor' = lostFor \cup {up.at}
  /\ UNCHANGED <<subs, last, mutex, env, rxVars>>

\* A mutant: the end of the scan leaves the mutex to the next round.
UnlockUpdates_Not ==
  /\ up.pc = "done" /\ up' = [up EXCEPT !.pc = "time"]
  /\ UNCHANGED <<subs, last, mutex, queue, lostFor, env, rxVars>>
UnlockUpdates ==
  /\ up.pc = "done" /\ up' = [up EXCEPT !.pc = "time"] /\ mutex' = "free"
  /\ UNCHANGED <<subs, last, queue, lostFor, env, rxVars>>
-----------------------------------------------------------------------------
(* The send task, and the rest. *)

Take ==
  /\ sender = <<>> /\ queue # <<>>
  /\ sender' = Head(queue) /\ queue' = Tail(queue)
  /\ UNCHANGED <<clock, subs, last, mutex, rx, up, view, lostFor, drops, env>>

\* Written to the port, or dropped because the port or its mutex is busy.
Write ==
  /\ sender # <<>> /\ sender' = <<>>
  /\ \/ /\ view' = IF sender[2] = NONE THEN view ELSE [view EXCEPT ![sender[1]] = sender[2]]
        /\ UNCHANGED <<lostFor, drops>>
     \/ /\ drops < MaxDrops /\ drops' = drops + 1
        /\ lostFor' = lostFor \cup {sender[1]} /\ UNCHANGED view
  /\ UNCHANGED <<clock, subs, last, mutex, rx, up, queue, env>>

\* A tick; the update task is never held up for long.
Tick ==
  /\ up.lag < MaxLag /\ clock' = (clock + 1) % WIDTH
  /\ up' = IF up.pc = "none" THEN up ELSE [up EXCEPT !.lag = @ + 1]
  /\ UNCHANGED <<subs, last, mutex, rx, queue, sender, view, lostFor, drops, env>>

World ==
  /\ changes < MaxChanges /\ changes' = changes + 1
  /\ \/ ~connected /\ connected' = TRUE /\ UNCHANGED value
     \/ \E p \in Params : value' = [value EXCEPT ![p] = changes + 1] /\ UNCHANGED connected
  /\ UNCHANGED <<clock, subs, last, mutex, rx, up, queue, sender, view, lostFor, commands, drops>>

Commands == \E p \in Params :
              \/ Command("UNSUB", p, 0, FALSE, FALSE)
              \/ \E i \in Intervals, again, fresh \in BOOLEAN : Command("SUB", p, i, again, fresh)
Rx == Handle \/ Change \/ Acknowledge
Updates == StartUpdates \/ ReadTime \/ LockUpdates \/ Scan \/ SendUpdate \/ UnlockUpdates
Sender == Take \/ Write
Next == Commands \/ Rx \/ Updates \/ Sender \/ Tick \/ World

\* The tasks run and time passes.
Fairness == WF_vars(Rx) /\ WF_vars(Updates) /\ WF_vars(Sender) /\ WF_vars(Tick)
Spec == Init /\ [][Next]_vars /\ Fairness
-----------------------------------------------------------------------------
Times == 0 .. WIDTH - 1
Values == NONE .. MaxChanges

\* Every variable has its type.
TypeOK ==
  /\ clock \in Times /\ mutex \in {"free", "rx", "up"} /\ connected \in BOOLEAN
  /\ subs \in [Params -> [active : BOOLEAN, last_subscribe : Times, last_response : Times,
                          interval : Intervals \cup {0}]]
  /\ last \in [Params -> Values] /\ view \in [Params -> Values] /\ value \in [Params -> Values]
  /\ rx.pc \in {"idle", "handle", "change", "acknowledge"} /\ rx.param \in Params
  /\ up.pc \in {"none", "time", "lock", "scan", "send value", "send expiry", "done"}
  /\ up.now \in Times /\ up.at \in Params /\ up.lag \in 0 .. MaxLag
  /\ queue \in Seq(Params \X Values) /\ Len(queue) <= QUEUE_SIZE
  /\ sender \in {<<>>} \cup (Params \X Values) /\ lostFor \subseteq Params
  /\ commands \in 0 .. MaxCommands /\ changes \in 0 .. MaxChanges /\ drops \in 0 .. MaxDrops

\* The values on their way to the accessory, the last one first.
OnTheWay(p) ==
  {i \in DOMAIN queue : queue[i][1] = p /\ queue[i][2] # NONE}
NewestValue(p) ==
  IF up.pc = "send value" /\ up.at = p THEN last[p]
  ELSE IF OnTheWay(p) # {} THEN queue[CHOOSE i \in OnTheWay(p) : \A j \in OnTheWay(p) : j <= i][2]
  ELSE IF sender # <<>> /\ sender[1] = p /\ sender[2] # NONE THEN sender[2]
  ELSE view[p]

\* bap_subscription.c:70: a value is skipped as sent only if the accessory has it
\* or will get it, unless a message about it was lost.
SkippedIsKnown == \A p \in Params : last[p] # NONE /\ p \notin lostFor => NewestValue(p) = last[p]

Waits(p) == up.pc # "none" /\ subs[p].active /\ view[p] # value[p]
Served(p) == view[p] = value[p] \/ ~subs[p].active \/ p \in lostFor

\* bap_subscription.c:362: while the updates run, a subscriber learns the value,
\* unless its subscription ends or a message about it is lost.
SubscriptionServed == \A p \in Params : Waits(p) ~> Served(p)

\* bap_readme.md:180: "Subscription expired after 5 minutes": never before.
ExpiresInTime ==
  [][\A p \in Params : subs[p].active /\ ~subs'[p].active /\ up.pc = "scan" /\ up' # up =>
       Since(clock, subs[p].last_subscribe) >= SUBSCRIPTION_TIMEOUT]_vars
=============================================================================

--------------------------- MODULE WebSocketClients ---------------------------
(***************************************************************************)
(* The WebSocket clients (main/http_server/websocket.c): a table of        *)
(* descriptors behind a mutex; the HTTP server's task, which adds and      *)
(* closes; websocket_api_task, which sends what changed of the system      *)
(* state; and websocket_log_task, which sends new log lines.               *)
(*                                                                         *)
(* A broadcast copies the descriptors, releases the mutex and then sends,  *)
(* so a descriptor may be closed, and reused by a later connection, in     *)
(* between.  The mutex is never held long enough for its 100 ms timeout.   *)
(* The system state is one value and the log a count of its lines.         *)
(***************************************************************************)
EXTENDS Integers, FiniteSets, FiniteSetsExt

CONSTANTS FDs, MAX_WEBSOCKET_CLIENTS,
          MaxConns, MaxState, MaxLines \* bounds: connections, changes, log lines

Types == {"API", "LOGS"}
NONE == -1 \* no state yet: a client that was sent nothing, a baseline of NULL
Slots == 1 .. MAX_WEBSOCKET_CLIENTS
Free == [fd |-> "none", type |-> "API"]

VARIABLES conn,    \* the connection on each descriptor: [id, kind, view, broken, late, gap, stray]
          table,   \* clients
          counts,  \* type_counts, read without the mutex
          httpd,   \* the server's task: [pc, fd, value] of an on-connect update
          api,     \* websocket_api_task: [pc, base, value, fds, fd]
          logs,    \* websocket_log_task: [pc, pos, fds, fd]
          state, lines, opened
vars == <<conn, table, counts, httpd, api, logs, state, lines, opened>>
world == <<state, lines, opened>>

Closed == [id |-> 0, kind |-> "closed", view |-> NONE, broken |-> FALSE, late |-> FALSE,
           gap |-> FALSE, stray |-> FALSE]
Init == /\ conn = [fd \in FDs |-> Closed]
        /\ table = [s \in Slots |-> Free] /\ counts = [t \in Types |-> 0]
        /\ httpd = [pc |-> "idle", fd |-> "none", value |-> NONE]
        /\ api = [pc |-> "sleep", base |-> 0, value |-> 0, fds |-> {}, fd |-> "none"]
        /\ logs = [pc |-> "wait", pos |-> 0, fds |-> {}, fd |-> "none"]
        /\ state = 0 /\ lines = 0 /\ opened = 0
-----------------------------------------------------------------------------
(* The table. *)

Clients(type) == {table[s].fd : s \in {x \in Slots : table[x] # Free /\ table[x].type = type}}

\* A mutant: the first entry's type is not looked at when it is removed.
RemoveClient_CountsApi(fd) ==
  IF \E s \in Slots : table[s].fd = fd
    THEN LET s == Min({x \in Slots : table[x].fd = fd})
         IN /\ table' = [table EXCEPT ![s] = Free]
            /\ counts' = [counts EXCEPT !["API"] = @ - 1]
    ELSE UNCHANGED <<table, counts>>

\* The first slot with this descriptor, if there is one.
RemoveClient(fd) ==
  IF \E s \in Slots : table[s].fd = fd
    THEN LET s == Min({x \in Slots : table[x].fd = fd})
         IN /\ table' = [table EXCEPT ![s] = Free]
            /\ counts' = [counts EXCEPT ![table[s].type] = @ - 1]
    ELSE UNCHANGED <<table, counts>>

\* What the client on a descriptor knows after a frame; a frame that skips log
\* lines, and one of the other type, are remembered.
Delivered(fd, type, value) ==
  conn' = [conn EXCEPT ![fd] =
    IF @.kind = type
      THEN [@ EXCEPT !.view = value,
                     !.gap = @ \/ (type = "LOGS" /\ conn[fd].view \notin {NONE, value - 1})]
      ELSE [@ EXCEPT !.stray = TRUE]]

\* httpd_ws_send_frame_async to whatever the descriptor is by now.
Sent(fd, type, value) ==
  /\ conn[fd].kind # "closed"
  /\ IF conn[fd].broken THEN UNCHANGED conn ELSE Delivered(fd, type, value)
Fails(fd) == conn[fd].kind = "closed" \/ conn[fd].broken

\* websocket_send_to_client after an error: out of the table, and the session on
\* that descriptor, if there is one, is told to close.
DropClient(fd) ==
  /\ RemoveClient(fd)
  /\ conn' = IF conn[fd].kind = "closed" THEN conn ELSE [conn EXCEPT ![fd].broken = TRUE]
-----------------------------------------------------------------------------
(* The server's task. *)

tasks == <<api, logs, world>>

Accept(fd) ==
  /\ httpd.pc = "idle" /\ conn[fd] = Closed /\ opened < MaxConns
  /\ opened' = opened + 1
  /\ conn' = [conn EXCEPT ![fd] = [Closed EXCEPT !.id = opened + 1, !.kind = "HTTP"]]
  /\ UNCHANGED <<table, counts, httpd, api, logs, state, lines>>

\* websocket_pre_handshake refuses by the counts; then the client is added.  A
\* connection that meets a running broadcast, or a task without a baseline, is late.
Handshake(fd, type) ==
  /\ httpd.pc = "idle" /\ conn[fd].kind = "HTTP" /\ ~conn[fd].broken
  /\ counts["API"] + counts["LOGS"] < MAX_WEBSOCKET_CLIENTS
  /\ \E s \in Slots :
       /\ table[s] = Free /\ \A x \in Slots : x < s => table[x] # Free
       /\ table' = [table EXCEPT ![s] = [fd |-> fd, type |-> type]]
  /\ counts' = [counts EXCEPT ![type] = @ + 1]
  /\ conn' = [conn EXCEPT ![fd].kind = type,
                          ![fd].late = type = "API" /\ (api.pc # "sleep" \/ api.base = NONE)]
  /\ httpd' = IF type = "API" THEN [httpd EXCEPT !.pc = "snapshot", !.fd = fd] ELSE httpd
  /\ UNCHANGED tasks

\* websocket_api_on_connect: the full state, then its frame.  A client that was
\* sent a newer broadcast in between goes back: it is late too.
Snapshot ==
  /\ httpd.pc = "snapshot"
  /\ httpd' = [httpd EXCEPT !.pc = "send", !.value = state]
  /\ UNCHANGED <<conn, table, counts, tasks>>

SendSnapshot ==
  /\ httpd.pc = "send" /\ httpd' = [httpd EXCEPT !.pc = "idle"]
  /\ \/ /\ ~Fails(httpd.fd) /\ UNCHANGED <<table, counts>>
        /\ conn' = [conn EXCEPT ![httpd.fd].view = httpd.value,
                                ![httpd.fd].late = @ \/ conn[httpd.fd].view # NONE]
     \/ Fails(httpd.fd) /\ DropClient(httpd.fd)
  /\ UNCHANGED tasks

\* The peer is gone.
Breaks(fd) ==
  /\ conn[fd].kind # "closed" /\ ~conn[fd].broken
  /\ conn' = [conn EXCEPT ![fd].broken = TRUE]
  /\ UNCHANGED <<table, counts, httpd, tasks>>

\* websocket_close_fn: out of the table first, then the descriptor is free.
Close(fd) ==
  /\ httpd.pc = "idle" /\ conn[fd].broken
  /\ RemoveClient(fd) /\ conn' = [conn EXCEPT ![fd] = Closed]
  /\ UNCHANGED <<httpd, tasks>>
-----------------------------------------------------------------------------
(* websocket_api_task. *)

server == <<httpd, logs, world>>

\* Without clients the baseline is forgotten; with the first client it is taken
\* anew, and nothing is sent for what changed in between.
ApiWakes ==
  /\ api.pc = "sleep"
  /\ api' = IF counts["API"] = 0 THEN [api EXCEPT !.base = NONE]
            ELSE [api EXCEPT !.pc = "compute", !.base = IF @ = NONE THEN state ELSE @]
  /\ UNCHANGED <<conn, table, counts, server>>

ApiComputes ==
  /\ api.pc = "compute"
  /\ api' = IF state = api.base THEN [api EXCEPT !.pc = "sleep"]
            ELSE [api EXCEPT !.pc = "copy", !.value = state]
  /\ UNCHANGED <<conn, table, counts, server>>

ApiCopies ==
  /\ api.pc = "copy"
  /\ api' = [api EXCEPT !.pc = "send", !.fds = Clients("API")]
  /\ UNCHANGED <<conn, table, counts, server>>

ApiSends ==
  /\ api.pc = "send" /\ UNCHANGED <<table, counts, server>>
  /\ \/ /\ api.fds = {} /\ UNCHANGED conn
        /\ api' = [api EXCEPT !.pc = "sleep", !.base = api.value]
     \/ \E fd \in api.fds :
          \/ /\ Sent(fd, "API", api.value)
             /\ api' = [api EXCEPT !.fds = @ \ {fd}]
          \/ /\ Fails(fd) /\ UNCHANGED conn
             /\ api' = [api EXCEPT !.fds = @ \ {fd}, !.pc = "failed", !.fd = fd]

ApiDrops ==
  /\ api.pc = "failed" /\ api' = [api EXCEPT !.pc = "send"]
  /\ DropClient(api.fd) /\ UNCHANGED server
-----------------------------------------------------------------------------
(* websocket_log_task. *)

others == <<httpd, api, world>>

\* Without clients the position keeps up with the log.
LogWakes ==
  /\ logs.pc = "wait"
  /\ logs' = IF counts["LOGS"] = 0 THEN [logs EXCEPT !.pos = lines] ELSE [logs EXCEPT !.pc = "read"]
  /\ UNCHANGED <<conn, table, counts, others>>

\* One line at a time, to the clients of the moment.
LogReads ==
  /\ logs.pc = "read"
  /\ logs' = IF logs.pos = lines THEN [logs EXCEPT !.pc = "wait"]
             ELSE [logs EXCEPT !.pc = "send", !.pos = @ + 1, !.fds = Clients("LOGS")]
  /\ UNCHANGED <<conn, table, counts, others>>

LogSends ==
  /\ logs.pc = "send" /\ UNCHANGED <<table, counts, others>>
  /\ \/ /\ logs.fds = {} /\ UNCHANGED conn
        /\ logs' = [logs EXCEPT !.pc = "read"]
     \/ \E fd \in logs.fds :
          \/ /\ Sent(fd, "LOGS", logs.pos)
             /\ logs' = [logs EXCEPT !.fds = @ \ {fd}]
          \/ /\ Fails(fd) /\ UNCHANGED conn
             /\ logs' = [logs EXCEPT !.fds = @ \ {fd}, !.pc = "failed", !.fd = fd]

LogDrops ==
  /\ logs.pc = "failed" /\ logs' = [logs EXCEPT !.pc = "send"]
  /\ DropClient(logs.fd) /\ UNCHANGED others
-----------------------------------------------------------------------------
StateChanges ==
  /\ \/ state < MaxState /\ state' = state + 1 /\ UNCHANGED lines
     \/ lines < MaxLines /\ lines' = lines + 1 /\ UNCHANGED state
  /\ UNCHANGED <<conn, table, counts, httpd, api, logs, opened>>

Httpd == \/ \E fd \in FDs : Accept(fd) \/ Close(fd) \/ \E t \in Types : Handshake(fd, t)
         \/ Snapshot \/ SendSnapshot
ApiTask == ApiWakes \/ ApiComputes \/ ApiCopies \/ ApiSends \/ ApiDrops
LogTask == LogWakes \/ LogReads \/ LogSends \/ LogDrops
Next == Httpd \/ ApiTask \/ LogTask \/ StateChanges \/ \E fd \in FDs : Breaks(fd)

Spec == Init /\ [][Next]_vars
-----------------------------------------------------------------------------
\* Every variable has its type.
TypeOK ==
  /\ conn \in [FDs -> [id : 0 .. MaxConns, kind : Types \cup {"HTTP", "closed"}, view : NONE .. MaxState + MaxLines,
                       broken : BOOLEAN, late : BOOLEAN,
                       gap : BOOLEAN, stray : BOOLEAN]]
  /\ table \in [Slots -> [fd : FDs \cup {"none"}, type : Types]]
  /\ counts \in [Types -> 0 .. MAX_WEBSOCKET_CLIENTS]
  /\ httpd \in [pc : {"idle", "snapshot", "send"}, fd : FDs \cup {"none"}, value : NONE .. MaxState]
  /\ api \in [pc : {"sleep", "compute", "copy", "send", "failed"}, base : NONE .. MaxState,
              value : 0 .. MaxState, fds : SUBSET FDs, fd : FDs \cup {"none"}]
  /\ logs \in [pc : {"wait", "read", "send", "failed"}, pos : 0 .. MaxLines,
               fds : SUBSET FDs, fd : FDs \cup {"none"}]
  /\ state \in 0 .. MaxState /\ lines \in 0 .. MaxLines /\ opened \in 0 .. MaxConns

\* websocket.c:219 trusts the counts to keep a slot free: through failed sends,
\* closes and reused descriptors they count the table, and the table holds only
\* open connections of its type, each once.
TableConsistent ==
  /\ \A t \in Types : counts[t] = Cardinality({s \in Slots : table[s] # Free /\ table[s].type = t})
  /\ \A s \in Slots : table[s] # Free => conn[table[s].fd].kind = table[s].type
  /\ \A s, x \in Slots : table[s].fd = table[x].fd /\ table[s] # Free => s = x

\* A connection that no broadcast caught after its descriptor was reused.
Untouched(c) == c.kind \in Types /\ ~c.broken /\ ~c.late

\* websocket_api.c:29: what the task has "should track current reality", and so
\* should the clients: when it sleeps, a client that connected while it slept
\* with a baseline knows what the task sent last, or something newer.
ViewsFollow ==
  api.pc = "sleep" /\ api.base # NONE =>
    \A fd \in FDs : LET c == conn[fd] IN
      c.kind = "API" /\ Untouched(c) /\ (httpd.pc = "idle" \/ httpd.fd # fd) => c.view >= api.base

\* A log client misses no line after its first, whoever else fails meanwhile.
LogsWhole == \A fd \in FDs : ~conn[fd].gap

\* websocket.c:146: a frame reaches the connection its descriptor was copied for,
\* or none.  The code does not keep this when the descriptor is reused (README).
NotMisdelivered == \A fd \in FDs : ~conn[fd].stray

ClientsServed == TableConsistent /\ ViewsFollow /\ LogsWhole

\* The same without the exception of late connections: false (README).
EveryViewFollows ==
  api.pc = "sleep" /\ api.base # NONE =>
    \A fd \in FDs : LET c == conn[fd] IN
      c.kind = "API" /\ ~c.broken /\ (httpd.pc = "idle" \/ httpd.fd # fd) => c.view >= api.base

=============================================================================

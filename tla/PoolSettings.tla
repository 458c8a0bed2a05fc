----------------------------- MODULE PoolSettings -----------------------------
(***************************************************************************)
(* The pools and their selection (main/http_server/http_server.c,          *)
(* main/system.c): PATCH of the settings, PUT and DELETE of one pool, and  *)
(* the copy in memory that the protocol tasks read.                        *)
(*                                                                         *)
(* A pool's other fields are checked and copied as its address is.  The    *)
(* password is shown as MASK, and a client that sends MASK back keeps the  *)
(* one that is stored.  Handlers run one at a time; the settings cache     *)
(* changes at once (SettingsStore has its way to flash), the pool in       *)
(* memory after it.  The selection in use is read at boot only.            *)
(***************************************************************************)
EXTENDS Integers, Sequences

CONSTANTS MAX_POOLS,
          Urls, Passwords, \* what clients send
          Sent,            \* the selections that clients send
          MaxItems,        \* pools in one PATCH
          MaxRequests      \* bound

Indices == 0 .. MAX_POOLS - 1
MASK == "*****"
EMPTY == [url |-> "", pass |-> "x"]
COMPILED == [url |-> "compiled", pass |-> "x"] \* CONFIG_STRATUM_URL, CONFIG_STRATUM_PW
NULL == [url |-> "null", pass |-> "x"]         \* freed, not yet parsed

\* One pool in a request: its index and what to store, or something that
\* validate_pool_json does not accept, as it never does an empty address.
Item(i, url, pass) == [id |-> i, url |-> url, pass |-> pass]
BAD == Item(0, "", "x")
Items == [id : Indices, url : Urls, pass : Passwords \cup {MASK}] \cup {BAD}

VARIABLES pools,    \* settings cache, NVS_CONFIG_POOL
          selected, \* settings cache: [primary, secondary]
          memory,   \* SYSTEM_MODULE.pools
          inUse,    \* SYSTEM_MODULE: [primary, secondary]
          httpd,    \* [pc, items, choice]: what is left of the request
          before,   \* pools and selection when it began, and what it asked for
          outcome,  \* of the last request: "accepted" or "refused"
          requests
vars == <<pools, selected, memory, inUse, httpd, before, outcome, requests>>

Selections == [primary : Indices, secondary : Indices]
Idle == [pc |-> "idle", items |-> <<>>, choice |-> <<>>]

\* parse_pool_config_json: an empty pool has the compiled values, if it is the first.
Parsed(i, pool) == IF pool = EMPTY /\ i = 0 THEN COMPILED ELSE pool

Boots(p, s) == /\ memory = [i \in Indices |-> Parsed(i, p[i])] /\ inUse = s
Init == /\ pools = [i \in Indices |-> EMPTY]
        /\ selected = [primary |-> 0, secondary |-> 1]
        /\ Boots(pools, selected)
        /\ httpd = Idle /\ before = [pools |-> pools, selected |-> selected, items |-> <<>>]
        /\ outcome = "accepted" /\ requests = 0
-----------------------------------------------------------------------------
Arrives(request) ==
  /\ httpd = Idle /\ requests < MaxRequests /\ requests' = requests + 1
  /\ before' = [pools |-> pools, selected |-> selected, items |-> request.items]
  /\ httpd' = request
  /\ UNCHANGED <<pools, selected, memory, inUse, outcome>>

\* PATCH: a selection, pools, or both.  PUT: one pool.
Patch(items, choice) == Arrives([pc |-> "check", items |-> items, choice |-> choice])
Put(item) == Patch(<<item>>, <<>>)
Delete(i) == Arrives([pc |-> "delete", items |-> <<Item(i, "", MASK)>>, choice |-> <<>>])

\* A mutant: only the first pool is checked.
Acceptable_First(items) == items # <<>> => items[1] # BAD
\* check_settings_and_update looks at everything before it changes anything.
Acceptable(items) == \A n \in DOMAIN items : items[n] # BAD

Check ==
  /\ httpd.pc = "check"
  /\ IF Acceptable(httpd.items)
       THEN httpd' = [httpd EXCEPT !.pc = "select"] /\ outcome' = "accepted"
       ELSE httpd' = Idle /\ outcome' = "refused"
  /\ UNCHANGED <<pools, selected, memory, inUse, before, requests>>

\* The selection changes in the settings, not in memory.
Select ==
  /\ httpd.pc = "select" /\ httpd' = [httpd EXCEPT !.pc = "store"]
  /\ selected' = IF httpd.choice = <<>> THEN selected ELSE httpd.choice[1]
  /\ UNCHANGED <<pools, memory, inUse, before, outcome, requests>>

\* A mutant: the stored password of the first pool.
PasswordOf_First(item) == IF item.pass = MASK THEN pools[0].pass ELSE item.pass
\* MASK stands for the password stored in the same place.
PasswordOf(item) == IF item.pass = MASK THEN pools[item.id].pass ELSE item.pass

\* update_pool_nvs, one pool after the other; each is stored, then loaded.
Store ==
  /\ httpd.pc = "store" /\ httpd.items # <<>>
  /\ LET item == Head(httpd.items)
     IN pools' = [pools EXCEPT ![item.id] = [url |-> item.url, pass |-> PasswordOf(item)]]
  /\ httpd' = [httpd EXCEPT !.pc = "free"]
  /\ UNCHANGED <<selected, memory, inUse, before, outcome, requests>>
Done ==
  /\ httpd.pc = "store" /\ httpd.items = <<>> /\ httpd' = Idle
  /\ UNCHANGED <<pools, selected, memory, inUse, before, outcome, requests>>

\* A mutant: only the primary pool is looked at.
Deletable_Primary(i) == i # selected.primary
Deletable(i) == i \notin {selected.primary, selected.secondary}

\* DELETE: the selection of the settings counts, not that in use.
DeleteStores ==
  /\ httpd.pc = "delete"
  /\ LET i == httpd.items[1].id IN
       IF Deletable(i)
         THEN /\ pools' = [pools EXCEPT ![i] = EMPTY] /\ outcome' = "accepted"
              /\ httpd' = [httpd EXCEPT !.pc = "free"]
         ELSE httpd' = Idle /\ outcome' = "refused" /\ UNCHANGED pools
  /\ UNCHANGED <<selected, memory, inUse, before, requests>>

\* SYSTEM_load_pool_from_nvs frees the strings, whoever reads them, and parses.
FreePool ==
  /\ httpd.pc = "free" /\ httpd' = [httpd EXCEPT !.pc = "load"]
  /\ memory' = [memory EXCEPT ![httpd.items[1].id] = NULL]
  /\ UNCHANGED <<pools, selected, inUse, before, outcome, requests>>
Load ==
  /\ httpd.pc = "load" /\ httpd' = [httpd EXCEPT !.pc = "store", !.items = Tail(@)]
  /\ LET i == httpd.items[1].id IN memory' = [memory EXCEPT ![i] = Parsed(i, pools[i])]
  /\ UNCHANGED <<pools, selected, inUse, before, outcome, requests>>

\* SYSTEM_init_system after a restart between requests.
Reboot ==
  /\ httpd = Idle /\ memory' = [i \in Indices |-> Parsed(i, pools[i])] /\ inUse' = selected
  /\ UNCHANGED <<pools, selected, httpd, before, outcome, requests>>

Choices == {<<>>} \cup {<<s>> : s \in Sent}
Lists == UNION {[1 .. n -> Items] : n \in 0 .. MaxItems}
Next == \/ \E items \in Lists, choice \in Choices : Patch(items, choice)
        \/ (\E item \in Items : Put(item)) \/ (\E i \in Indices : Delete(i))
        \/ Check \/ Select \/ Store \/ Done \/ DeleteStores \/ FreePool \/ Load \/ Reboot
Spec == Init /\ [][Next]_vars
-----------------------------------------------------------------------------
Pools == [url : Urls \cup {"", "compiled", "null"}, pass : Passwords \cup {"x"}]

\* Every variable has its type.
TypeOK ==
  /\ pools \in [Indices -> Pools] /\ memory \in [Indices -> Pools]
  /\ selected \in Selections /\ inUse \in Selections
  /\ httpd.pc \in {"idle", "check", "select", "store", "delete", "free", "load"}
  /\ requests \in 0 .. MaxRequests /\ outcome \in {"accepted", "refused"}

\* system.c:708: between requests, what the tasks mine with is what is stored.
MemoryFollows == httpd = Idle => \A i \in Indices : memory[i] = Parsed(i, pools[i])

\* http_server.c:788: a password reaches a pool from a client that sent it for
\* that pool and from nowhere else, and no MASK is stored: what a request that
\* only masks leaves is what was there before.
PasswordsStay ==
  \A i \in Indices :
    pools[i].pass # before.pools[i].pass =>
      pools[i] = EMPTY \/ \E n \in DOMAIN before.items : before.items[n].id = i /\ before.items[n].pass = pools[i].pass

\* http_server.c:966: "if result is okay": a request with anything wrong in it,
\* wherever it is, has changed nothing.
AllOrNothing ==
  httpd = Idle /\ (outcome = "refused" \/ \E n \in DOMAIN before.items : before.items[n] = BAD) =>
    pools = before.pools /\ selected = before.selected

\* http_server.c:1311: "Cannot delete a pool that is currently selected as
\* primary or fallback": no request empties a pool that was selected before it.
SelectedStays ==
  httpd = Idle => \A i \in {before.selected.primary, before.selected.secondary} :
                    before.pools[i] # EMPTY => pools[i] # EMPTY

PoolsHold == MemoryFollows /\ PasswordsStay /\ AllOrNothing /\ SelectedStays

\* The same of the pool in use: false after a new selection and before the restart (README).
UsedPoolStays ==
  \A i \in {inUse.primary, inUse.secondary} : before.pools[i] # EMPTY => pools[i] # EMPTY
\* A selected fallback or primary pool is configured: false, the selection is not
\* compared with the pools (README).
SelectedIsConfigured == httpd = Idle => memory[selected.primary].url # ""
=============================================================================

-------------------------- MODULE InstanceRegistry ---------------------------
(***************************************************************************)
(* Where an instance exists: as a row of the database, as a client in the  *)
(* engine's map, and as a device store on disk.  Requests create and       *)
(* delete instances in steps that other requests, failures and crashes may *)
(* come between, and the start-up code fills the map from the rows.        *)
(* (internal/domain/instance/service.go, internal/engine/whatsmeow)        *)
(***************************************************************************)
EXTENDS Naturals, FiniteSets

CONSTANTS
  Ids,           \* the ids the database gives to rows, each once
  Workspaces,
  Requests,      \* HTTP requests, one operation at a time each
  MaxInstances,  \* ENGINE_MAX_INSTANCES; 0 is no limit to the engine
  DefaultLimit,  \* what NewService makes of MaxInstances = 0 (200)
  MaxFaults,     \* bound: failed steps and crashes, together
  NoRow,         \* an id that has no row
  NoCall         \* a request that is doing nothing

ASSUME RegistryAssumption ==
  /\ MaxInstances \in Nat
  /\ DefaultLimit \in Nat \ {0}
  /\ IsFiniteSet(Requests)
  /\ MaxFaults \in Nat
  /\ NoRow \notin Workspaces

\* What a request has still to do, first of all step.
Call == [step : {"insert", "register", "rollback", "unregister", "erase"},
         id : Ids, workspace : Workspaces]

ASSUME NoCallAssumption == NoCall \notin Call

VARIABLES
  process,    \* "up" or "down"
  rows,       \* the workspace of each id that has a row
  clients,    \* the ids in the engine's map
  stores,     \* the ids whose device store is on disk
  toRestore,  \* what RestoreFromDB has still to register
  calls,      \* what each request is doing
  used,       \* the ids given to a row so far
  deleted,    \* history: the ids whose Delete has succeeded
  faults      \* how many faults have happened

vars == <<process, rows, clients, stores, toRestore, calls, used, deleted, faults>>

Init ==
  /\ process = "up"
  /\ rows = [i \in Ids |-> NoRow]
  /\ clients = {} /\ stores = {} /\ toRestore = {}
  /\ calls = [r \in Requests |-> NoCall]
  /\ used = {} /\ deleted = {}
  /\ faults = 0

Fault == faults < MaxFaults /\ faults' = faults + 1

Persisted == {i \in Ids : rows[i] # NoRow}

\* NewService takes 0 for an argument that was not given and keeps its default, and
\* so never reaches the unlimited workspaces of its comments, of the configuration's
\* and of maxInstancesPerWorkspace: here the code and what is said of it differ.
WorkspaceLimit == IF MaxInstances > 0 THEN MaxInstances ELSE DefaultLimit

Full == MaxInstances > 0 /\ Cardinality(clients) >= MaxInstances

\* The HTTP server starts after the restoration.
Serving == process = "up" /\ toRestore = {}

Doing(r, step) == Serving /\ calls[r] # NoCall /\ calls[r].step = step

Goes(r, step) == calls' = [calls EXCEPT ![r].step = step]

Ends(r) == calls' = [calls EXCEPT ![r] = NoCall]

-----------------------------------------------------------------------------
(* Create.                                                                 *)

\* Faulty variant: the engine's limit is trusted to bound the rows.
CreateUncounted(r, i, ws) ==
  /\ Serving /\ calls[r] = NoCall /\ i \notin used
  /\ calls' = [calls EXCEPT ![r] = [step |-> "insert", id |-> i, workspace |-> ws]]
  /\ used' = used \cup {i}
  /\ UNCHANGED <<process, rows, clients, stores, toRestore, deleted, faults>>

\* The workspace's rows are counted; a count that fails is not looked at.
Create(r, i, ws) ==
  /\ Serving /\ calls[r] = NoCall /\ i \notin used
  /\ IF Cardinality({j \in Ids : rows[j] = ws}) < WorkspaceLimit THEN UNCHANGED faults ELSE Fault
  /\ calls' = [calls EXCEPT ![r] = [step |-> "insert", id |-> i, workspace |-> ws]]
  /\ used' = used \cup {i}
  /\ UNCHANGED <<process, rows, clients, stores, toRestore, deleted>>

Insert(r) ==
  /\ Doing(r, "insert")
  /\ rows' = [rows EXCEPT ![calls[r].id] = calls[r].workspace]
  /\ Goes(r, "register")
  /\ UNCHANGED <<process, clients, stores, toRestore, used, deleted, faults>>

\* Engine.CreateInstance, under the engine's lock: the limit, the device store,
\* the client.
Register(r) ==
  /\ Doing(r, "register") /\ ~Full /\ calls[r].id \notin clients
  /\ clients' = clients \cup {calls[r].id}
  /\ stores' = stores \cup {calls[r].id}
  /\ Ends(r)
  /\ UNCHANGED <<process, rows, toRestore, used, deleted, faults>>

\* Faulty variant: the limit is looked at when the client is already in the map.
RegisterThenRefused(r) ==
  /\ Doing(r, "register") /\ Full
  /\ clients' = clients \cup {calls[r].id} /\ stores' = stores \cup {calls[r].id}
  /\ Goes(r, "rollback")
  /\ UNCHANGED <<process, rows, toRestore, used, deleted, faults>>

RegisterRefused(r) ==
  /\ Doing(r, "register") /\ (Full \/ calls[r].id \in clients)
  /\ Goes(r, "rollback")
  /\ UNCHANGED <<process, rows, clients, stores, toRestore, used, deleted, faults>>

\* The store cannot be opened; its directory stays if it was made.
RegisterFails(r) ==
  /\ Doing(r, "register") /\ ~Full
  /\ Fault
  /\ stores' \in {stores, stores \cup {calls[r].id}}
  /\ Goes(r, "rollback")
  /\ UNCHANGED <<process, rows, clients, toRestore, used, deleted>>

\* Faulty variant: a refused instance keeps its row.
RollbackNothing(r) ==
  /\ Doing(r, "rollback")
  /\ Ends(r)
  /\ UNCHANGED <<process, rows, clients, stores, toRestore, used, deleted, faults>>

Rollback(r) ==
  /\ Doing(r, "rollback")
  /\ rows' = [rows EXCEPT ![calls[r].id] = NoRow]
  /\ Ends(r)
  /\ UNCHANGED <<process, clients, stores, toRestore, used, deleted, faults>>

-----------------------------------------------------------------------------
(* Delete.                                                                 *)

\* Get finds the row.
Delete(r, i) ==
  /\ Serving /\ calls[r] = NoCall /\ rows[i] # NoRow
  /\ calls' = [calls EXCEPT ![r] = [step |-> "unregister", id |-> i, workspace |-> rows[i]]]
  /\ UNCHANGED <<process, rows, clients, stores, toRestore, used, deleted, faults>>

\* Faulty variant: the store is removed and the client left in the map.
UnregisterStoreOnly(r) ==
  /\ Doing(r, "unregister")
  /\ stores' = stores \ {calls[r].id}
  /\ Goes(r, "erase")
  /\ UNCHANGED <<process, rows, clients, toRestore, used, deleted, faults>>

\* Engine.DeleteInstance: an id that has no client is left alone, store and all.
\* A store that cannot be removed is logged.
Unregister(r) ==
  /\ Doing(r, "unregister")
  /\ clients' = clients \ {calls[r].id}
  /\ \/ /\ stores' = stores \ (clients \cap {calls[r].id})
        /\ UNCHANGED faults
     \/ calls[r].id \in clients /\ Fault /\ UNCHANGED stores
  /\ Goes(r, "erase")
  /\ UNCHANGED <<process, rows, toRestore, used, deleted>>

Erase(r) ==
  /\ Doing(r, "erase")
  /\ rows' = [rows EXCEPT ![calls[r].id] = NoRow]
  /\ deleted' = deleted \cup {calls[r].id}
  /\ Ends(r)
  /\ UNCHANGED <<process, clients, stores, toRestore, used, faults>>

\* Faulty variant: a failed statement is left for a retry that never comes.
StatementFailsForRetry(r) ==
  /\ Doing(r, "insert") \/ Doing(r, "rollback") \/ Doing(r, "erase")
  /\ Fault
  /\ Goes(r, "retry")
  /\ UNCHANGED <<process, rows, clients, stores, toRestore, used, deleted>>

\* The insert, the rollback or the final delete fails: the request ends there.
StatementFails(r) ==
  /\ Doing(r, "insert") \/ Doing(r, "rollback") \/ Doing(r, "erase")
  /\ Fault
  /\ Ends(r)
  /\ UNCHANGED <<process, rows, clients, stores, toRestore, used, deleted>>

-----------------------------------------------------------------------------
(* The process.                                                            *)

GoesDown ==
  /\ process = "up" /\ process' = "down"
  /\ clients' = {} /\ toRestore' = {}
  /\ calls' = [r \in Requests |-> NoCall]
  /\ UNCHANGED <<rows, stores, used, deleted>>

\* A shutdown waits for the requests...
Shutdown == Serving /\ (\A r \in Requests : calls[r] = NoCall) /\ GoesDown /\ UNCHANGED faults

\* ...a crash, or a shutdown whose patience ends, cuts them short.
Crash == Fault /\ GoesDown

\* RestoreFromDB lists the rows; if that fails the process goes on without.
Start ==
  /\ process = "down"
  /\ process' = "up"
  /\ \/ toRestore' = Persisted /\ UNCHANGED faults
     \/ toRestore' = {} /\ Fault
  /\ UNCHANGED <<rows, clients, stores, calls, used, deleted>>

\* Each row is registered, oldest first in the code and in any order here, or
\* skipped if the engine is full or cannot open its store.
Restore(i) ==
  /\ i \in toRestore
  /\ toRestore' = toRestore \ {i}
  /\ \/ Full /\ UNCHANGED <<clients, stores, faults>>
     \/ ~Full /\ clients' = clients \cup {i} /\ stores' = stores \cup {i} /\ UNCHANGED faults
     \/ ~Full /\ Fault /\ UNCHANGED clients /\ stores' \in {stores, stores \cup {i}}
  /\ UNCHANGED <<process, rows, calls, used, deleted>>

Next ==
  \/ \E r \in Requests, i \in Ids : Delete(r, i) \/ \E ws \in Workspaces : Create(r, i, ws)
  \/ \E r \in Requests :
       \/ Insert(r) \/ Register(r) \/ RegisterRefused(r) \/ RegisterFails(r) \/ Rollback(r)
       \/ Unregister(r) \/ Erase(r) \/ StatementFails(r)
  \/ \E i \in Ids : Restore(i)
  \/ Shutdown \/ Crash \/ Start

Spec == Init /\ [][Next]_vars

-----------------------------------------------------------------------------
(* Properties.                                                             *)

\* Every variable keeps its type.
TypeOK ==
  /\ process \in {"up", "down"}
  /\ rows \in [Ids -> Workspaces \cup {NoRow}]
  /\ clients \subseteq Ids /\ stores \subseteq Ids /\ toRestore \subseteq Ids
  /\ calls \in [Requests -> Call \cup {NoCall}]
  /\ used \subseteq Ids /\ deleted \subseteq Ids
  /\ faults \in 0 .. MaxFaults

\* A request is creating or deleting i.
Busy(i) == \E r \in Requests : calls[r] # NoCall /\ calls[r].id = i

\* Unless something has failed, an instance whose row no request is working on
\* has its client: refused creates, and deletes that overtake creates or one
\* another, leave no row that cannot be used.
ServedUnlessFault ==
  Serving /\ faults = 0 => \A i \in Persisted : i \in clients \/ Busy(i)

\* A client never loses the store its session lives in: no delete removes the
\* directory of an instance that is in the map.
ClientsKeepTheirStore == clients \subseteq stores

\* A client that has no row is one whose Delete came between the two steps of
\* its Create: nothing else leaves a client nobody can see or remove.
OrphansWereOvertaken ==
  \A i \in clients : rows[i] # NoRow \/ i \in deleted

\* A limit that is configured (service.go:43) gives way to creates that were counted
\* before one another's insert, one for each request, and to counts that failed, no
\* more.  Nothing is said of MaxInstances = 0, which the code takes for DefaultLimit
\* and the documents for no limit.
LimitGivesWayToOverlaps ==
  MaxInstances > 0 =>
    \A ws \in Workspaces :
      Cardinality({i \in Ids : rows[i] = ws}) < MaxInstances + Cardinality(Requests) + faults

\* "DeleteInstance disconnects and permanently removes an instance": once an
\* instance is deleted and no request works on it, nothing of it is left.
DeleteLeavesNothing ==
  \A i \in deleted : ~Busy(i) => i \notin clients /\ i \notin stores
=============================================================================

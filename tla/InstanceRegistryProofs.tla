------------------------ MODULE InstanceRegistryProofs ------------------------
(***************************************************************************)
(* Proofs about InstanceRegistry for any ids and workspaces, finitely many *)
(* requests, any limits and any number of faults: its type, that no client *)
(* loses its store, that only an overtaken create leaves a client without  *)
(* a row, by how much a workspace's limit gives way, and that a row no     *)
(* request is at work on has its client unless something has failed.       *)
(***************************************************************************)
EXTENDS InstanceRegistry, FiniteSetTheorems, TLAPS

\* The request is somewhere in Create.
Creating(r) == calls[r] # NoCall /\ calls[r].step \in {"insert", "register", "rollback"}

\* The ids of creates are theirs alone and have no client yet; a row or a client
\* has an id that was given out; a create about to register has its row, unless a
\* delete has taken it.
CreateInv ==
  /\ \A r, s \in Requests : Creating(r) /\ Creating(s) /\ r # s => calls[r].id # calls[s].id
  /\ \A r \in Requests : Creating(r) => calls[r].id \in used /\ calls[r].id \notin clients
  /\ clients \subseteq used
  /\ \A r \in Requests : Creating(r) /\ calls[r].step = "register"
                           => rows[calls[r].id] # NoRow \/ calls[r].id \in deleted
  /\ \A i \in Ids : rows[i] # NoRow => i \in used

\* The restoration works on rows, alone; a process that is down has nothing.
RestoreInv ==
  /\ toRestore \subseteq Persisted
  /\ toRestore # {} \/ process = "down" => \A r \in Requests : calls[r] = NoCall
  /\ process = "down" => clients = {} /\ toRestore = {}

IInv == TypeOK /\ CreateInv /\ RestoreInv /\ ClientsKeepTheirStore /\ OrphansWereOvertaken

-----------------------------------------------------------------------------

\* What a request is doing has an id and a workspace.
LEMMA CallFields ==
  ASSUME TypeOK, NEW r \in Requests, calls[r] # NoCall
  PROVE  calls[r].id \in Ids /\ calls[r].workspace \in Workspaces
BY DEF TypeOK, Call

\* A request that goes to another step keeps the rest of what it is doing.
LEMMA GoesKeepsCall ==
  ASSUME TypeOK, NEW r \in Requests, calls[r] # NoCall, NEW step, Goes(r, step),
         step \in {"insert", "register", "rollback", "unregister", "erase"}
  PROVE  /\ calls' \in [Requests -> Call \cup {NoCall}]
         /\ calls'[r].step = step /\ calls'[r].id = calls[r].id
         /\ \A s \in Requests : s # r => calls'[s] = calls[s]
BY DEF TypeOK, Call, Goes

\* Every variable keeps its type.
LEMMA TypeStep ==
  ASSUME TypeOK, [Next]_vars
  PROVE  TypeOK'
<1> USE RegistryAssumption, NoCallAssumption DEF TypeOK, Fault
<1>1. ASSUME NEW r \in Requests, NEW i \in Ids, NEW ws \in Workspaces, Create(r, i, ws) PROVE TypeOK'
  BY <1>1 DEF Create, Call
<1>2. ASSUME NEW r \in Requests, NEW i \in Ids, Delete(r, i) PROVE TypeOK'
  <2>1. rows[i] \in Workspaces
    BY <1>2 DEF Delete
  <2>2. QED BY <1>2, <2>1 DEF Delete, Call
<1>3. ASSUME NEW r \in Requests, Insert(r) PROVE TypeOK'
  BY <1>3, CallFields, GoesKeepsCall DEF Insert, Doing
<1>4. ASSUME NEW r \in Requests, Register(r) \/ Rollback(r) \/ Erase(r) PROVE TypeOK'
  BY <1>4, CallFields DEF Register, Rollback, Erase, Doing, Ends
<1>5. ASSUME NEW r \in Requests, RegisterRefused(r) PROVE TypeOK'
  BY <1>5, GoesKeepsCall DEF RegisterRefused, Doing
<1>6. ASSUME NEW r \in Requests, RegisterFails(r) PROVE TypeOK'
  BY <1>6, CallFields, GoesKeepsCall DEF RegisterFails, Doing
<1>7. ASSUME NEW r \in Requests, Unregister(r) PROVE TypeOK'
  BY <1>7, GoesKeepsCall DEF Unregister, Doing
<1>8. ASSUME NEW r \in Requests, StatementFails(r) PROVE TypeOK'
  BY <1>8 DEF StatementFails, Ends
<1>9. ASSUME NEW i \in Ids, Restore(i) PROVE TypeOK'
  BY <1>9 DEF Restore
<1>10. CASE Shutdown \/ Crash
  BY <1>10 DEF Shutdown, Crash, GoesDown
<1>11. CASE Start
  BY <1>11 DEF Start, Persisted
<1>12. CASE UNCHANGED vars
  BY <1>12 DEF vars
<1>13. QED
  BY <1>1, <1>2, <1>3, <1>4, <1>5, <1>6, <1>7, <1>8, <1>9, <1>10, <1>11, <1>12 DEF Next

\* The other parts of the invariant are kept too.
LEMMA InvStep ==
  ASSUME IInv, TypeOK', [Next]_vars
  PROVE  IInv'
<1> USE RegistryAssumption, NoCallAssumption DEF IInv, TypeOK
<1> USE DEF CreateInv, RestoreInv, ClientsKeepTheirStore, OrphansWereOvertaken, Creating, Persisted
<1>1. ASSUME NEW r \in Requests, NEW i \in Ids, NEW ws \in Workspaces, Create(r, i, ws) PROVE IInv'
  BY <1>1 DEF Create, Serving
<1>2. ASSUME NEW r \in Requests, NEW i \in Ids, Delete(r, i) PROVE IInv'
  BY <1>2 DEF Delete, Serving
<1>3. ASSUME NEW r \in Requests, Insert(r) PROVE IInv'
  BY <1>3, CallFields, GoesKeepsCall DEF Insert, Doing, Serving
<1>4. ASSUME NEW r \in Requests, Register(r) PROVE IInv'
  BY <1>4, CallFields DEF Register, Doing, Serving, Ends
<1>5. ASSUME NEW r \in Requests, Rollback(r) PROVE IInv'
  BY <1>5, CallFields DEF Rollback, Doing, Serving, Ends
<1>6. ASSUME NEW r \in Requests, Erase(r) PROVE IInv'
  BY <1>6, CallFields DEF Erase, Doing, Serving, Ends
<1>7. ASSUME NEW r \in Requests, RegisterRefused(r) PROVE IInv'
  BY <1>7, CallFields, GoesKeepsCall DEF RegisterRefused, Doing, Serving
<1>8. ASSUME NEW r \in Requests, RegisterFails(r) PROVE IInv'
  BY <1>8, CallFields, GoesKeepsCall DEF RegisterFails, Doing, Serving
<1>9. ASSUME NEW r \in Requests, Unregister(r) PROVE IInv'
  BY <1>9, CallFields, GoesKeepsCall DEF Unregister, Doing, Serving
<1>10. ASSUME NEW r \in Requests, StatementFails(r) PROVE IInv'
  BY <1>10 DEF StatementFails, Doing, Serving, Ends
<1>11. ASSUME NEW i \in Ids, Restore(i) PROVE IInv'
  BY <1>11 DEF Restore
<1>12. CASE Shutdown \/ Crash
  BY <1>12 DEF Shutdown, Crash, GoesDown
<1>13. CASE Start
  BY <1>13 DEF Start
<1>14. CASE UNCHANGED vars
  BY <1>14 DEF vars
<1>15. QED
  BY <1>1, <1>2, <1>3, <1>4, <1>5, <1>6, <1>7, <1>8, <1>9, <1>10, <1>11, <1>12, <1>13, <1>14 DEF Next

\* The strengthened invariant holds in every behaviour.
THEOREM InductiveInvariant == Spec => []IInv
<1>1. Init => IInv
  BY RegistryAssumption
     DEF Init, IInv, TypeOK, CreateInv, RestoreInv, ClientsKeepTheirStore, OrphansWereOvertaken,
         Creating, Persisted
<1>2. IInv /\ [Next]_vars => IInv'
  BY TypeStep, InvStep DEF IInv
<1>3. QED BY <1>1, <1>2, PTL DEF Spec

\* Every variable keeps its type.
THEOREM TypeCorrect == Spec => []TypeOK
<1>1. IInv => TypeOK
  BY DEF IInv
<1>2. QED BY <1>1, InductiveInvariant, PTL

\* No step removes the device store of an instance that is in the map.
THEOREM StoresAreKept == Spec => []ClientsKeepTheirStore
<1>1. IInv => ClientsKeepTheirStore
  BY DEF IInv
<1>2. QED BY <1>1, InductiveInvariant, PTL

\* A client without a row has been deleted: rollbacks, failed statements, crashes
\* and restarts leave none.
THEOREM OrphansAreDeleted == Spec => []OrphansWereOvertaken
<1>1. IInv => OrphansWereOvertaken
  BY DEF IInv
<1>2. QED BY <1>1, InductiveInvariant, PTL

-----------------------------------------------------------------------------
(* Counting rows and clients.  Only finitely many ids have been given out. *)

RowsOf(ws) == {i \in Ids : rows[i] = ws}

\* The creates for ws whose rows were counted and that have still to insert their own.
Counted(ws) ==
  {r \in Requests : calls[r] # NoCall /\ calls[r].step = "insert" /\ calls[r].workspace = ws}

\* What is in use is finite, and so are the parts of it that are counted.
LEMMA FiniteInUse ==
  ASSUME IInv, IsFiniteSet(used)
  PROVE  /\ IsFiniteSet(Persisted) /\ IsFiniteSet(clients) /\ IsFiniteSet(toRestore)
         /\ \A ws \in Workspaces : IsFiniteSet(RowsOf(ws)) /\ IsFiniteSet(Counted(ws))
<1>1. Persisted \in SUBSET used /\ clients \in SUBSET used /\ toRestore \in SUBSET used
  BY DEF IInv, CreateInv, RestoreInv, Persisted
<1>2. ASSUME NEW ws \in Workspaces
      PROVE  RowsOf(ws) \in SUBSET used /\ Counted(ws) \in SUBSET Requests
  BY RegistryAssumption DEF IInv, CreateInv, RowsOf, Counted
<1>3. QED BY <1>1, <1>2, FS_Subset, RegistryAssumption

\* A step gives out one id at most.
LEMMA UsedStep ==
  ASSUME IsFiniteSet(used), [Next]_vars
  PROVE  IsFiniteSet(used')
<1>1. ASSUME NEW r \in Requests, NEW i \in Ids, NEW ws \in Workspaces, Create(r, i, ws)
      PROVE  IsFiniteSet(used')
  <2>1. used' = used \cup {i}
    BY <1>1 DEF Create
  <2>2. QED BY <2>1, FS_AddElement
<1>2. CASE ~\E r \in Requests, i \in Ids, ws \in Workspaces : Create(r, i, ws)
  <2>1. used' = used
    BY <1>2 DEF Next, vars, Delete, Insert, Register, RegisterRefused, RegisterFails, Rollback, Unregister,
       Erase, StatementFails, Restore, Shutdown, Crash, GoesDown, Start
  <2>2. QED BY <2>1
<1>3. QED BY <1>1, <1>2

\* The rows of a workspace and the creates that will add to them are fewer than its
\* limit, the requests that may have counted at once, and the counts that failed.
LimitInv ==
  \A ws \in Workspaces :
    Cardinality(RowsOf(ws)) + Cardinality(Counted(ws)) < WorkspaceLimit + Cardinality(Requests) + faults

\* The numbers LimitInv adds up.
LEMMA Numbers ==
  ASSUME IInv, IsFiniteSet(used)
  PROVE  /\ WorkspaceLimit \in Nat \ {0} /\ Cardinality(Requests) \in Nat /\ faults \in Nat
         /\ \A ws \in Workspaces : Cardinality(RowsOf(ws)) \in Nat /\ Cardinality(Counted(ws)) \in Nat
BY RegistryAssumption, FiniteInUse, FS_CardinalityType DEF IInv, TypeOK, WorkspaceLimit

\* No row and no counted create is added.
LEMMA NoneAdded ==
  ASSUME IInv, IsFiniteSet(used), IInv', IsFiniteSet(used)', LimitInv, faults' >= faults,
         \A ws \in Workspaces : RowsOf(ws)' \subseteq RowsOf(ws) /\ Counted(ws)' \subseteq Counted(ws)
  PROVE  LimitInv'
<1>1. SUFFICES ASSUME NEW ws \in Workspaces
               PROVE  Cardinality(RowsOf(ws)') + Cardinality(Counted(ws)')
                        < WorkspaceLimit + Cardinality(Requests) + faults'
  BY DEF LimitInv, WorkspaceLimit
<1>2. Cardinality(RowsOf(ws)') <= Cardinality(RowsOf(ws))
      /\ Cardinality(Counted(ws)') <= Cardinality(Counted(ws))
  BY FiniteInUse, FS_Subset
<1>3. /\ Cardinality(RowsOf(ws)) + Cardinality(Counted(ws)) < WorkspaceLimit + Cardinality(Requests) + faults
      /\ Cardinality(RowsOf(ws)) \in Nat /\ Cardinality(Counted(ws)) \in Nat
      /\ WorkspaceLimit \in Nat /\ Cardinality(Requests) \in Nat /\ faults \in Nat
  BY Numbers DEF LimitInv
<1>4. Cardinality(RowsOf(ws)') \in Nat /\ Cardinality(Counted(ws)') \in Nat /\ faults' \in Nat
  <2>1. IsFiniteSet(RowsOf(ws)') /\ IsFiniteSet(Counted(ws)')
    BY FiniteInUse, FS_Subset
  <2>2. QED BY <2>1, FS_CardinalityType, RegistryAssumption DEF IInv, TypeOK
<1>5. QED BY <1>2, <1>3, <1>4

\* A create counts the rows of its workspace, or the count fails.
LEMMA CreateInLimit ==
  ASSUME IInv, IsFiniteSet(used), LimitInv,
         NEW r \in Requests, NEW i \in Ids, NEW w \in Workspaces, Create(r, i, w)
  PROVE  LimitInv'
<1>1. SUFFICES ASSUME NEW ws \in Workspaces
               PROVE  Cardinality(RowsOf(ws)') + Cardinality(Counted(ws)')
                        < WorkspaceLimit + Cardinality(Requests) + faults'
  BY DEF LimitInv, WorkspaceLimit
<1>2. RowsOf(ws)' = RowsOf(ws)
  BY DEF Create, RowsOf
<1>3. Counted(ws)' = IF ws = w THEN Counted(ws) \cup {r} ELSE Counted(ws)
  BY NoCallAssumption DEF Create, Counted, IInv, TypeOK, Call
<1> DEFINE B == Cardinality(RowsOf(ws))
           C == Cardinality(Counted(ws))
           L == WorkspaceLimit
           R == Cardinality(Requests)
<1>4. B + C < L + R + faults /\ B \in Nat /\ C \in Nat /\ L \in Nat \ {0} /\ R \in Nat /\ faults \in Nat
  BY Numbers DEF LimitInv
<1>5. IF B < L \/ ws # w THEN faults' >= faults ELSE faults' = faults + 1
  BY <1>4 DEF Create, Fault, RowsOf
<1>6. Cardinality(Counted(ws)') <= C + 1 /\ Cardinality(Counted(ws)') <= R /\ Cardinality(Counted(ws)') \in Nat
      /\ (ws # w => Cardinality(Counted(ws)') = C)
  <2>1. IsFiniteSet(Counted(ws)) /\ Counted(ws)' \in SUBSET Requests
    BY FiniteInUse DEF Counted
  <2>2. Cardinality(Counted(ws)') <= C + 1
    <3>1. Cardinality(Counted(ws) \cup {r}) = IF r \in Counted(ws) THEN C ELSE C + 1
      BY <2>1, FS_AddElement
    <3>2. QED BY <1>3, <1>4, <3>1
  <2>3. Cardinality(Counted(ws)') <= R /\ IsFiniteSet(Counted(ws)')
    BY <2>1, FS_Subset, RegistryAssumption
  <2>4. QED BY <1>3, <2>2, <2>3, FS_CardinalityType
<1>7. faults' \in Nat
  BY <1>4, RegistryAssumption DEF Create, Fault
<1> HIDE DEF B, C, L, R
<1>8. B + Cardinality(Counted(ws)') < L + R + faults'
  BY <1>4, <1>5, <1>6, <1>7
<1>9. QED BY <1>2, <1>8 DEF B, L, R

\* An insert turns a counted create into a row.
LEMMA InsertInLimit ==
  ASSUME IInv, IsFiniteSet(used), LimitInv, NEW r \in Requests, Insert(r)
  PROVE  LimitInv'
<1>1. SUFFICES ASSUME NEW ws \in Workspaces
               PROVE  Cardinality(RowsOf(ws)') + Cardinality(Counted(ws)')
                        < WorkspaceLimit + Cardinality(Requests) + faults
  BY DEF LimitInv, WorkspaceLimit, Insert
<1> DEFINE c == calls[r]
           B == Cardinality(RowsOf(ws))
           C == Cardinality(Counted(ws))
<1>2. /\ c # NoCall /\ c.step = "insert" /\ c.id \in Ids /\ c.workspace \in Workspaces
      /\ calls'[r].step = "register" /\ \A s \in Requests : s # r => calls'[s] = calls[s]
      /\ rows \in [Ids -> Workspaces \cup {NoRow}]
      /\ rows' = [rows EXCEPT ![c.id] = c.workspace]
  BY CallFields, GoesKeepsCall DEF Insert, Doing, IInv, TypeOK
<1>3. B + C < WorkspaceLimit + Cardinality(Requests) + faults /\ B \in Nat /\ C \in Nat
  BY Numbers DEF LimitInv
<1>4. IsFiniteSet(RowsOf(ws)) /\ IsFiniteSet(Counted(ws))
  BY FiniteInUse
<1>5. CASE ws = c.workspace
  <2>1. RowsOf(ws)' = RowsOf(ws) \cup {c.id}
    BY <1>2, <1>5 DEF RowsOf
  <2>2. r \in Counted(ws) /\ Counted(ws)' = Counted(ws) \ {r}
    BY <1>2, <1>5 DEF Counted
  <2>3. Cardinality(RowsOf(ws)') \in {B, B + 1} /\ Cardinality(Counted(ws)') = C - 1
    <3>1. Cardinality(RowsOf(ws) \cup {c.id}) = IF c.id \in RowsOf(ws) THEN B ELSE B + 1
      BY <1>4, FS_AddElement
    <3>2. Cardinality(Counted(ws) \ {r}) = IF r \in Counted(ws) THEN C - 1 ELSE C
      BY <1>4, FS_RemoveElement
    <3>3. QED BY <2>1, <2>2, <3>1, <3>2
  <2>4. QED BY <1>3, <2>3, Numbers
<1>6. CASE ws # c.workspace
  <2>1. RowsOf(ws)' = RowsOf(ws) \ {c.id}
    BY <1>2, <1>6 DEF RowsOf
  <2>2. Counted(ws)' = Counted(ws)
    BY <1>2, <1>6 DEF Counted
  <2>3. Cardinality(RowsOf(ws)') \in {B, B - 1}
    BY <1>4, <2>1, FS_RemoveElement
  <2>4. QED BY <1>3, <2>2, <2>3, Numbers
<1>7. QED BY <1>5, <1>6

\* Every step keeps LimitInv: creates and inserts are the two that matter.
LEMMA LimitStep ==
  ASSUME IInv, IInv', IsFiniteSet(used), IsFiniteSet(used)', LimitInv, [Next]_vars
  PROVE  LimitInv'
<1>0. faults \in Nat /\ faults' \in Nat
  BY RegistryAssumption DEF IInv, TypeOK
<1> USE NoCallAssumption DEF RowsOf, Counted
<1>1. ASSUME NEW r \in Requests, NEW i \in Ids, NEW ws \in Workspaces, Create(r, i, ws) PROVE LimitInv'
  BY <1>1, CreateInLimit
<1>2. ASSUME NEW r \in Requests, Insert(r) PROVE LimitInv'
  BY <1>2, InsertInLimit
<1>3. ASSUME NEW r \in Requests, NEW i \in Ids, Delete(r, i) PROVE LimitInv'
  BY <1>0, <1>3, NoneAdded DEF Delete, IInv, TypeOK, Call
<1>4. ASSUME NEW r \in Requests, RegisterRefused(r) \/ RegisterFails(r) \/ Unregister(r) PROVE LimitInv'
  <2>1. faults' >= faults /\ UNCHANGED rows
    BY <1>0, <1>4 DEF RegisterRefused, RegisterFails, Unregister, Fault
  <2>2. calls'[r].step # "insert" /\ \A s \in Requests : s # r => calls'[s] = calls[s]
    BY <1>4, GoesKeepsCall DEF RegisterRefused, RegisterFails, Unregister, Doing, IInv
  <2>3. QED BY <2>1, <2>2, NoneAdded
<1>5. ASSUME NEW r \in Requests, Register(r) \/ Rollback(r) \/ Erase(r) \/ StatementFails(r) PROVE LimitInv'
  <2>1. faults' >= faults
    BY <1>0, <1>5 DEF Register, Rollback, Erase, StatementFails, Fault
  <2>2. calls' = [calls EXCEPT ![r] = NoCall]
    BY <1>5 DEF Register, Rollback, Erase, StatementFails, Ends
  <2>3. \A i \in Ids : rows'[i] \in {rows[i], NoRow}
    BY <1>5 DEF Register, Rollback, Erase, StatementFails, IInv, TypeOK
  <2>4. QED BY <2>1, <2>2, <2>3, NoneAdded, RegistryAssumption DEF IInv, TypeOK
<1>6. CASE \/ \E i \in Ids : Restore(i)
           \/ Shutdown \/ Crash \/ Start \/ UNCHANGED vars
  <2>1. faults' >= faults
    BY <1>0, <1>6 DEF Restore, Shutdown, Crash, Start, vars, Fault
  <2>2. UNCHANGED rows /\ \A r \in Requests : calls'[r] \in {calls[r], NoCall}
    BY <1>6 DEF Restore, Shutdown, Crash, GoesDown, Start, vars
  <2>3. QED BY <2>1, <2>2, NoneAdded
<1>7. QED BY <1>1, <1>2, <1>3, <1>4, <1>5, <1>6 DEF Next

\* For any requests, any number of faults and any limit that is configured, the limit
\* of a workspace gives way to creates that overlap and to failed counts, to each
\* once, and to nothing else.
THEOREM LimitsGiveWayToOverlaps == Spec => []LimitGivesWayToOverlaps
<1> DEFINE Inv == IInv /\ IsFiniteSet(used) /\ LimitInv
<1>1. Init => IsFiniteSet(used) /\ LimitInv
  <2>1. SUFFICES ASSUME Init, NEW ws \in Workspaces
                 PROVE  0 < WorkspaceLimit + Cardinality(Requests) + faults
                        /\ RowsOf(ws) = {} /\ Counted(ws) = {} /\ used = {}
    BY FS_EmptySet DEF LimitInv, Init
  <2>2. WorkspaceLimit \in Nat \ {0} /\ Cardinality(Requests) \in Nat /\ faults = 0
    BY <2>1, RegistryAssumption, FS_CardinalityType DEF Init, WorkspaceLimit
  <2>3. QED BY <2>1, <2>2, RegistryAssumption DEF Init, RowsOf, Counted
<1>2. Inv /\ IInv' /\ [Next]_vars => Inv'
  BY UsedStep, LimitStep
<1>3. Inv => LimitGivesWayToOverlaps
  <2>1. SUFFICES ASSUME Inv, MaxInstances > 0, NEW ws \in Workspaces
                 PROVE  Cardinality(RowsOf(ws)) < WorkspaceLimit + Cardinality(Requests) + faults
    BY DEF LimitGivesWayToOverlaps, RowsOf, WorkspaceLimit
  <2>2. QED BY <2>1, Numbers DEF LimitInv
<1>4. QED BY <1>1, <1>2, <1>3, InductiveInvariant, PTL DEF Spec

-----------------------------------------------------------------------------
(* Room for every row: as long as nothing fails, a restoration finds no     *)
(* more rows than the engine had clients.                                   *)

\* What the engine has to make room for.
Wanting == IF process = "down" THEN Persisted ELSE clients \cup toRestore

\* The engine keeps to its limit and, unless something has failed, so does what it
\* has to make room for.
RoomInv ==
  MaxInstances > 0 =>
    /\ Cardinality(clients) <= MaxInstances
    /\ faults = 0 => Cardinality(Wanting) <= MaxInstances

\* A row has its client, or will have it, or a request is at work on it.
ServedInv ==
  /\ clients \cap toRestore = {}
  /\ process = "up" /\ faults = 0 => \A i \in Persisted : i \in clients \cup toRestore \/ Busy(i)

Room == IInv /\ IsFiniteSet(used) /\ RoomInv /\ ServedInv

\* What needs room can be counted.
LEMMA FiniteWanting ==
  ASSUME IInv, IsFiniteSet(used)
  PROVE  /\ IsFiniteSet(Wanting) /\ Cardinality(Wanting) \in Nat
         /\ IsFiniteSet(clients) /\ Cardinality(clients) \in Nat
BY FiniteInUse, FS_Union, FS_CardinalityType DEF Wanting

\* Nothing that needs room is added.
LEMMA NoneWanting ==
  ASSUME Room, clients' \subseteq clients, Wanting' \subseteq Wanting,
         faults' = 0 => faults = 0
  PROVE  RoomInv'
<1>1. Cardinality(clients') <= Cardinality(clients) /\ Cardinality(clients') \in Nat
      /\ Cardinality(Wanting') <= Cardinality(Wanting) /\ Cardinality(Wanting') \in Nat
  BY FiniteWanting, FS_Subset, FS_CardinalityType DEF Room
<1>2. Cardinality(clients) \in Nat /\ Cardinality(Wanting) \in Nat
  BY FiniteWanting DEF Room
<1>3. QED BY <1>1, <1>2, RegistryAssumption DEF Room, RoomInv

\* A client is added only where there is room.
LEMMA ClientAdded ==
  ASSUME Room, NEW i \in Ids, i \notin clients, ~Full, clients' = clients \cup {i}
  PROVE  MaxInstances > 0 => Cardinality(clients') <= MaxInstances
<1>1. Cardinality(clients') = Cardinality(clients) + 1
  BY FiniteWanting, FS_AddElement DEF Room
<1>2. QED BY <1>1, FiniteWanting, RegistryAssumption DEF Room, Full

\* The steps of a request keep the room there is: only a register adds a client.
LEMMA RequestRoom ==
  ASSUME Room, NEW r \in Requests,
         \/ Insert(r) \/ Register(r) \/ RegisterRefused(r) \/ RegisterFails(r) \/ Rollback(r)
         \/ Unregister(r) \/ Erase(r) \/ StatementFails(r)
  PROVE  RoomInv'
<1>1. process = "up" /\ process' = "up" /\ toRestore = {} /\ toRestore' = {} /\ calls[r].id \in Ids
      /\ (faults' = 0 => faults = 0)
  BY CallFields, RegistryAssumption
     DEF Room, IInv, TypeOK, Insert, Register, RegisterRefused, RegisterFails, Rollback, Unregister, Erase,
         StatementFails, Doing, Serving, Fault
<1>2. Wanting = clients /\ Wanting' = clients'
  BY <1>1 DEF Wanting
<1>3. CASE Register(r)
  BY <1>1, <1>2, <1>3, ClientAdded DEF Register, RoomInv
<1>4. CASE ~Register(r)
  <2>1. clients' \subseteq clients
    BY <1>4 DEF Insert, RegisterRefused, RegisterFails, Rollback, Unregister, Erase, StatementFails
  <2>2. QED BY <1>1, <1>2, <2>1, NoneWanting
<1>5. QED BY <1>3, <1>4

\* A step of a request leaves no row unserved that it does not itself go on with.
LEMMA RequestServed ==
  ASSUME Room, NEW r \in Requests,
         \/ Insert(r) \/ Register(r) \/ RegisterRefused(r) \/ RegisterFails(r) \/ Rollback(r)
         \/ Unregister(r) \/ Erase(r) \/ StatementFails(r)
  PROVE  ServedInv'
<1> DEFINE j == calls[r].id
<1> USE NoCallAssumption
<1>1. process = "up" /\ toRestore = {} /\ toRestore' = {} /\ calls[r] # NoCall /\ j \in Ids
  BY CallFields
     DEF Room, IInv, Insert, Register, RegisterRefused, RegisterFails, Rollback, Unregister, Erase,
         StatementFails, Doing, Serving
<1>2. SUFFICES ASSUME faults' = 0, NEW i \in Ids, rows'[i] # NoRow
               PROVE  i \in clients' \/ Busy(i)'
  BY <1>1 DEF ServedInv, Persisted
<1>3. faults = 0 /\ ~RegisterFails(r) /\ ~StatementFails(r)
  BY <1>2, RegistryAssumption
     DEF Room, IInv, TypeOK, Insert, Register, RegisterRefused, RegisterFails, Rollback, Unregister, Erase,
         StatementFails, Fault
<1>4. \A s \in Requests \ {r} : calls'[s] = calls[s]
  BY <1>1, <1>3
     DEF Room, IInv, TypeOK, Insert, Register, RegisterRefused, Rollback, Unregister, Erase, Goes, Ends
<1>5. CASE i # j
  <2>1. rows[i] # NoRow /\ (i \in clients => i \in clients')
    BY <1>1, <1>2, <1>3, <1>5
       DEF Room, IInv, TypeOK, Insert, Register, RegisterRefused, Rollback, Unregister, Erase
  <2>2. i \in clients \/ Busy(i)
    BY <1>1, <1>3, <2>1 DEF Room, ServedInv, Persisted
  <2>3. Busy(i) => Busy(i)'
    BY <1>4, <1>5 DEF Busy
  <2>4. QED BY <2>1, <2>2, <2>3
<1>6. CASE i = j
  <2>1. CASE Insert(r) \/ RegisterRefused(r) \/ Unregister(r)
    <3>1. calls'[r].id = i /\ calls'[r] # NoCall
      <4>1. /\ calls' \in [Requests -> Call \cup {NoCall}] /\ calls'[r].id = i
            /\ calls' = [calls EXCEPT ![r] = [calls[r] EXCEPT !.step = calls'[r].step]]
        BY <1>1, <1>6, <2>1, GoesKeepsCall DEF Insert, RegisterRefused, Unregister, Goes, Room, IInv, TypeOK
      <4>2. calls'[r] \in Call
        BY <1>1, <2>1 DEF Room, IInv, TypeOK, Call, Insert, RegisterRefused, Unregister, Goes
      <4>3. QED BY <4>1, <4>2
    <3>2. QED BY <3>1 DEF Busy
  <2>2. CASE Register(r)
    BY <1>6, <2>2 DEF Register
  <2>3. CASE Rollback(r) \/ Erase(r)
    BY <1>2, <1>6, <2>3 DEF Rollback, Erase, Room, IInv, TypeOK
  <2>4. QED BY <1>3, <2>1, <2>2, <2>3
<1>7. QED BY <1>5, <1>6

\* A restoration that nothing fails in never finds the engine full.
LEMMA RestoreRoom ==
  ASSUME Room, NEW i \in Ids, Restore(i)
  PROVE  RoomInv' /\ ServedInv'
<1>1. /\ i \in toRestore /\ i \notin clients /\ toRestore' = toRestore \ {i} /\ process = "up" /\ process' = "up"
      /\ UNCHANGED <<rows, calls>>
  BY DEF Restore, Room, IInv, TypeOK, RestoreInv, ServedInv
<1>2. CASE Full /\ UNCHANGED <<clients, faults>>
  <2>1. faults # 0
    <3>1. SUFFICES ASSUME faults = 0 PROVE FALSE
      OBVIOUS
    <3>2. MaxInstances > 0 /\ Cardinality(clients) >= MaxInstances /\ Cardinality(Wanting) <= MaxInstances
      BY <1>2, <3>1 DEF Room, RoomInv, Full
    <3>3. clients \cup {i} \in SUBSET Wanting
      BY <1>1 DEF Wanting
    <3>4. Cardinality(clients \cup {i}) = Cardinality(clients) + 1
      BY <1>1, FiniteWanting, FS_AddElement DEF Room
    <3>5. Cardinality(clients \cup {i}) <= Cardinality(Wanting)
      BY <3>3, FiniteWanting, FS_Subset DEF Room
    <3>6. QED BY <3>2, <3>4, <3>5, FiniteWanting, RegistryAssumption DEF Room
  <2>2. RoomInv'
    BY <1>2, <2>1 DEF Room, RoomInv
  <2>3. ServedInv'
    BY <1>1, <1>2, <2>1 DEF Room, ServedInv
  <2>4. QED BY <2>2, <2>3
<1>3. CASE ~Full /\ clients' = clients \cup {i} /\ UNCHANGED faults
  <2>1. Wanting' = Wanting
    BY <1>1, <1>3 DEF Wanting
  <2>2. RoomInv'
    BY <1>1, <1>3, <2>1, ClientAdded DEF Room, RoomInv
  <2>3. ServedInv'
    BY <1>1, <1>3 DEF Room, ServedInv, Persisted, Busy
  <2>4. QED BY <2>2, <2>3
<1>4. CASE Fault /\ UNCHANGED clients
  <2>1. faults' # 0
    BY <1>4, RegistryAssumption DEF Fault, Room, IInv, TypeOK
  <2>2. QED BY <1>1, <1>4, <2>1 DEF Room, RoomInv, ServedInv
<1>5. QED BY <1>2, <1>3, <1>4 DEF Restore

\* A process that stops in order leaves as many rows as it had clients.
LEMMA ProcessRoom ==
  ASSUME Room, Shutdown \/ Crash \/ Start
  PROVE  RoomInv' /\ ServedInv'
<1>0. faults \in Nat
  BY RegistryAssumption DEF Room, IInv, TypeOK
<1>1. CASE Shutdown
  <2>1. /\ process' = "down" /\ clients' = {} /\ toRestore' = {} /\ UNCHANGED <<rows, faults>>
        /\ process = "up" /\ toRestore = {} /\ \A r \in Requests : calls[r] = NoCall
    BY <1>1 DEF Shutdown, GoesDown, Serving
  <2>2. faults' = 0 => Wanting' \subseteq Wanting
    BY <2>1 DEF Room, ServedInv, Busy, Wanting, Persisted
  <2>3. faults' # 0 => RoomInv'
    <3>1. Cardinality(clients') = 0
      BY <2>1, FS_EmptySet
    <3>2. QED BY <3>1, RegistryAssumption DEF RoomInv
  <2>4. faults' = 0 => RoomInv'
    BY <2>1, <2>2, NoneWanting
  <2>5. ServedInv'
    BY <2>1 DEF ServedInv
  <2>6. QED BY <2>3, <2>4, <2>5
<1>2. CASE Crash \/ (Start /\ Fault)
  <2>1. faults' # 0
    BY <1>0, <1>2 DEF Crash, Fault
  <2>2. clients' = {} /\ clients' \cap toRestore' = {}
    BY <1>2 DEF Crash, GoesDown, Start, Room, IInv, RestoreInv
  <2>3. Cardinality(clients') = 0
    BY <2>2, FS_EmptySet
  <2>4. QED BY <2>1, <2>2, <2>3, RegistryAssumption DEF RoomInv, ServedInv
<1>3. CASE Start /\ toRestore' = Persisted /\ UNCHANGED faults
  <2>1. process = "down" /\ process' = "up" /\ clients = {} /\ clients' = {} /\ UNCHANGED rows
    BY <1>3 DEF Start, Room, IInv, RestoreInv
  <2>2. Wanting' = Wanting
    BY <1>3, <2>1 DEF Wanting
  <2>3. RoomInv'
    BY <1>3, <2>1, <2>2, NoneWanting
  <2>4. ServedInv'
    BY <1>3, <2>1 DEF ServedInv, Persisted
  <2>5. QED BY <2>3, <2>4
<1>4. QED BY <1>1, <1>2, <1>3 DEF Start

\* Every step keeps the room and leaves no row unserved.
LEMMA RoomStep ==
  ASSUME Room, [Next]_vars
  PROVE  RoomInv' /\ ServedInv'
<1>1. ASSUME NEW r \in Requests, NEW i \in Ids,
             Delete(r, i) \/ \E ws \in Workspaces : Create(r, i, ws)
      PROVE  RoomInv' /\ ServedInv'
  <2>1. UNCHANGED <<process, rows, clients, toRestore>> /\ (faults' = 0 => faults = 0) /\ calls[r] = NoCall
    <3>1. faults \in Nat
      BY RegistryAssumption DEF Room, IInv, TypeOK
    <3>2. UNCHANGED <<process, rows, clients, toRestore>> /\ (UNCHANGED faults \/ Fault) /\ calls[r] = NoCall
      BY <1>1 DEF Delete, Create
    <3>3. QED BY <3>1, <3>2 DEF Fault
  <2>2. \A s \in Requests \ {r} : calls'[s] = calls[s]
    BY <1>1 DEF Delete, Create, Room, IInv, TypeOK
  <2>3. \A j \in Ids : Busy(j) => Busy(j)'
    BY <2>1, <2>2 DEF Busy
  <2>4. Wanting' = Wanting
    BY <2>1 DEF Wanting, Persisted
  <2>5. RoomInv'
    BY <2>1, <2>4, NoneWanting
  <2>6. ServedInv'
    BY <2>1, <2>3 DEF Room, ServedInv, Persisted
  <2>7. QED BY <2>5, <2>6
<1>2. ASSUME NEW r \in Requests,
             \/ Insert(r) \/ Register(r) \/ RegisterRefused(r) \/ RegisterFails(r) \/ Rollback(r)
             \/ Unregister(r) \/ Erase(r) \/ StatementFails(r)
      PROVE  RoomInv' /\ ServedInv'
  BY <1>2, RequestRoom, RequestServed
<1>3. ASSUME NEW i \in Ids, Restore(i) PROVE RoomInv' /\ ServedInv'
  BY <1>3, RestoreRoom
<1>4. CASE Shutdown \/ Crash \/ Start
  BY <1>4, ProcessRoom
<1>5. CASE UNCHANGED vars
  BY <1>5 DEF vars, Room, RoomInv, ServedInv, Wanting, Persisted, Busy
<1>6. QED BY <1>1, <1>2, <1>3, <1>4, <1>5 DEF Next

\* For any limits, and across restarts, a row that no request is at work on has its
\* client unless something has failed: no create, refused create or delete leaves a
\* row behind that cannot be used, and no restart leaves a row out.
THEOREM RowsAreServedUnlessFault == Spec => []ServedUnlessFault
<1>1. Init => IsFiniteSet(used) /\ RoomInv /\ ServedInv
  <2>1. SUFFICES ASSUME Init
                 PROVE  used = {} /\ clients = {} /\ Wanting = {} /\ ServedInv
    BY FS_EmptySet, RegistryAssumption DEF RoomInv
  <2>2. QED BY <2>1 DEF Init, Wanting, ServedInv, Persisted
<1>2. Room /\ IInv' /\ [Next]_vars => Room'
  BY UsedStep, RoomStep DEF Room
<1>3. Room => ServedUnlessFault
  BY DEF Room, ServedInv, ServedUnlessFault, Serving
<1>4. IInv /\ IsFiniteSet(used) /\ RoomInv /\ ServedInv => Room
  BY DEF Room
<1>5. QED BY <1>1, <1>2, <1>3, <1>4, InductiveInvariant, PTL DEF Spec
=============================================================================

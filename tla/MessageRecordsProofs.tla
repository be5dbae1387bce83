------------------------- MODULE MessageRecordsProofs -------------------------
(***************************************************************************)
(* Proofs about MessageRecords for any number of history syncs, failed     *)
(* statements and stops: its type, that statuses have a cause, that a      *)
(* settled message is stored again only by its echo, how many rows it may  *)
(* get at most, and that it is stored, or about to be, unless something    *)
(* failed.                                                                 *)
(***************************************************************************)
EXTENDS MessageRecords, TLAPS

\* What is under way, or stored, belongs to a message WhatsApp has; one of the contact
\* or the phone that WhatsApp has was dispatched or passed by.
ExistsInv ==
  /\ saving \/ arriving \/ arrived \/ checking > 0 \/ inserting > 0 \/ rows # <<>> => exists
  /\ sender # "api" /\ exists => arrived \/ skipped

\* Receipts and revokes under way were made before.
CauseInv == receipts \subseteq raised /\ (revoking => revoked)

IInv == TypeOK /\ ExistsInv /\ CauseInv /\ StatusHasACause

-----------------------------------------------------------------------------

\* Inserting a row keeps the type, and adds a status to those that were there.
LEMMA InsertRow ==
  ASSUME TypeOK, NEW d \in {"inbound", "outbound"}, NEW s \in {"sent", "delivered"}, Insert(d, s)
  PROVE  /\ rows' \in Seq(Row) /\ rows' # <<>>
         /\ \A k \in DOMAIN rows' : \/ rows'[k].status = s /\ rows'[k].direction = d
                                    \/ k \in DOMAIN rows /\ rows'[k] = rows[k]
<1> DEFINE r == [direction |-> d, status |-> s]
<1>1. rows \in Seq(Row) /\ r \in Row BY DEF TypeOK, Row
<1>2. rows' = Append(rows, r) BY DEF Insert
<1>3. rows' \in Seq(Row) /\ rows' # <<>> BY <1>1, <1>2
<1>4. \A k \in DOMAIN rows' : rows'[k] = r \/ (k \in DOMAIN rows /\ rows'[k] = rows[k])
  BY <1>1, <1>2
<1>5. r.status = s /\ r.direction = d OBVIOUS
<1> HIDE DEF r
<1>6. \A k \in DOMAIN rows' : rows'[k] = r => rows'[k].status = s /\ rows'[k].direction = d
  BY <1>5
<1>7. ASSUME NEW k \in DOMAIN rows'
      PROVE  (rows'[k].status = s /\ rows'[k].direction = d) \/ (k \in DOMAIN rows /\ rows'[k] = rows[k])
  <2>1. CASE rows'[k] = r BY <1>6, <2>1
  <2>2. CASE k \in DOMAIN rows /\ rows'[k] = rows[k] BY <2>2
  <2>3. QED BY <1>4, <2>1, <2>2
<1>8. QED BY <1>3, <1>7

\* An update keeps the number of rows and gives all of them its status.
LEMMA UpdateRows ==
  ASSUME TypeOK, NEW s \in {"delivered", "read", "revoked"}, Update(s)
  PROVE  /\ rows' \in Seq(Row) /\ Len(rows') = Len(rows) /\ (rows = <<>> <=> rows' = <<>>)
         /\ \A k \in DOMAIN rows' : rows'[k].status = s
<1>1. rows \in Seq(Row) BY DEF TypeOK
<1>2. ASSUME NEW x \in Row
      PROVE  [x EXCEPT !.status = s] \in Row /\ [x EXCEPT !.status = s].status = s
  BY DEF Row
<1>3. \A k \in 1 .. Len(rows) : rows[k] \in Row
  BY <1>1
<1>4. rows' = [k \in 1 .. Len(rows) |-> [rows[k] EXCEPT !.status = s]]
  BY <1>1 DEF Update
<1>5. \A k \in 1 .. Len(rows) : rows'[k] \in Row /\ rows'[k].status = s
  BY <1>2, <1>3, <1>4
<1>6. rows' \in Seq(Row) /\ Len(rows') = Len(rows) /\ DOMAIN rows' = 1 .. Len(rows)
  BY <1>1, <1>4, <1>5
<1>7. QED BY <1>1, <1>5, <1>6

\* A failed statement leaves the number of faults within its bound.
LEMMA FaultBound == ASSUME TypeOK, Fault PROVE faults' \in 0 .. MaxFaults
BY RecordsAssumption DEF TypeOK, Fault

\* The strengthened invariant is kept by every step.
LEMMA InvStep ==
  ASSUME IInv, [Next]_vars
  PROVE  IInv'
<1> USE DEF IInv
<1>1. CASE Send
  BY <1>1 DEF Send, history, live, acks, TypeOK, ExistsInv, CauseInv, StatusHasACause, HasStatus
<1>2. CASE SaveSent
  <2>1. Insert("outbound", "sent") BY <1>2 DEF SaveSent
  <2>2. QED
    BY <1>2, <2>1, InsertRow DEF SaveSent, history, live, acks, TypeOK, ExistsInv, CauseInv, StatusHasACause, HasStatus
<1>3. CASE SaveFails \/ MarkFails \/ PersistFails \/ InsertFails
  <2>1. faults' \in 0 .. MaxFaults
    BY <1>3, FaultBound DEF SaveFails, MarkFails, PersistFails, InsertFails
  <2>2. CASE SaveFails
    BY <2>1, <2>2 DEF SaveFails, history, live, acks, TypeOK, ExistsInv, CauseInv, StatusHasACause, HasStatus
  <2>3. CASE MarkFails
    BY <2>1, <2>3 DEF MarkFails, history, live, acks, TypeOK, ExistsInv, CauseInv, StatusHasACause, HasStatus
  <2>4. CASE PersistFails
    BY <2>1, <2>4 DEF PersistFails, history, live, acks, TypeOK, ExistsInv, CauseInv, StatusHasACause, HasStatus
  <2>5. CASE InsertFails
    BY <2>1, <2>5 DEF InsertFails, history, live, acks, TypeOK, ExistsInv, CauseInv, StatusHasACause, HasStatus
  <2>6. QED BY <1>3, <2>2, <2>3, <2>4, <2>5
<1>4. CASE Revoke
  BY <1>4 DEF Revoke, history, live, acks, TypeOK, ExistsInv, CauseInv, StatusHasACause, HasStatus
<1>5. CASE MarkRevoked
  <2>1. Update("revoked") BY <1>5 DEF MarkRevoked
  <2>2. QED
    BY <1>5, <2>1, UpdateRows DEF MarkRevoked, history, live, acks, TypeOK, ExistsInv, CauseInv, StatusHasACause, HasStatus
<1>6. CASE Arrive \/ Skip
  <2>1. UNCHANGED <<sender, rows, saving, history, acks, faults>> BY <1>6 DEF Arrive, Skip
  <2>2. TypeOK'
    <3>1. exists' \in BOOLEAN /\ arriving' \in BOOLEAN /\ arrived' \in BOOLEAN /\ skipped' \in BOOLEAN
      BY <1>6, ZenonT(20) DEF Arrive, Skip, TypeOK
    <3>2. QED BY <2>1, <3>1 DEF TypeOK, history, acks
  <2>3. exists' /\ (arrived' \/ skipped') BY <1>6 DEF Arrive, Skip
  <2>4. ExistsInv' BY <2>3 DEF ExistsInv
  <2>5. CauseInv' /\ StatusHasACause'
    BY <2>1 DEF acks, CauseInv, StatusHasACause, HasStatus
  <2>6. QED BY <2>2, <2>4, <2>5
<1>7. CASE PersistInbound
  <2>1. Insert("inbound", "delivered") BY <1>7 DEF PersistInbound
  <2>2. QED
    BY <1>7, <2>1, InsertRow
       DEF PersistInbound, history, live, acks, TypeOK, ExistsInv, CauseInv, StatusHasACause, HasStatus
<1>8. CASE Sync
  BY <1>8, RecordsAssumption
     DEF Sync, live, acks, TypeOK, ExistsInv, CauseInv, StatusHasACause, HasStatus
<1>9. CASE CheckAbsent
  BY <1>9 DEF CheckAbsent, live, acks, TypeOK, ExistsInv, CauseInv, StatusHasACause, HasStatus
<1>10. CASE InsertAbsent
  <2>1. CASE sender = "contact"
    <3>1. Insert("inbound", "delivered") BY <1>10, <2>1 DEF InsertAbsent
    <3>2. QED
      BY <1>10, <2>1, <3>1, InsertRow
         DEF InsertAbsent, live, acks, TypeOK, ExistsInv, CauseInv, StatusHasACause, HasStatus
  <2>2. CASE sender # "contact"
    <3>1. Insert("outbound", "sent") BY <1>10, <2>2 DEF InsertAbsent
    <3>2. QED
      BY <1>10, <2>2, <3>1, InsertRow
         DEF InsertAbsent, live, acks, TypeOK, ExistsInv, CauseInv, StatusHasACause, HasStatus
  <2>3. QED BY <2>1, <2>2
<1>11. ASSUME NEW kind \in Receipt, RaiseReceipt(kind)
       PROVE  IInv'
  BY <1>11 DEF RaiseReceipt, history, live, TypeOK, ExistsInv, CauseInv, StatusHasACause, HasStatus
<1>12. ASSUME NEW kind \in Receipt, ApplyReceipt(kind)
       PROVE  IInv'
  <2>1. Update(kind) /\ kind \in raised BY <1>12 DEF ApplyReceipt, Taken, CauseInv
  <2>2. QED
    BY <1>12, <2>1, UpdateRows
       DEF ApplyReceipt, Taken, Receipt, history, live, TypeOK, ExistsInv, CauseInv, StatusHasACause, HasStatus
<1>13. ASSUME NEW kind \in Receipt, ReceiptFails(kind)
       PROVE  IInv'
  <2>1. faults' \in 0 .. MaxFaults BY <1>13, FaultBound DEF ReceiptFails
  <2>2. receipts' \subseteq receipts BY <1>13 DEF ReceiptFails, Taken
  <2>3. QED
    BY <1>13, <2>1, <2>2
       DEF ReceiptFails, history, live, TypeOK, ExistsInv, CauseInv, StatusHasACause, HasStatus
<1>16. CASE Stop
  <2>1. faults' \in 0 .. MaxFaults BY <1>16, FaultBound DEF Stop
  <2>2. TypeOK'
    <3>1. saving' \in BOOLEAN /\ arriving' \in BOOLEAN /\ revoking' \in BOOLEAN
      BY <1>16, ZenonT(20) DEF Stop
    <3>2. QED BY <1>16, <2>1, <3>1 DEF Stop, TypeOK
  <2>3. ~saving' /\ ~arriving' /\ ~(checking' > 0) /\ ~(inserting' > 0)
    BY <1>16 DEF Stop
  <2>4. ExistsInv' BY <1>16, <2>3 DEF Stop, ExistsInv
  <2>5. CauseInv' /\ StatusHasACause'
    BY <1>16 DEF Stop, CauseInv, StatusHasACause, HasStatus
  <2>6. QED BY <2>2, <2>4, <2>5
<1>14. CASE UNCHANGED vars
  BY <1>14 DEF vars, history, live, acks, TypeOK, ExistsInv, CauseInv, StatusHasACause, HasStatus
<1>15. QED
  BY <1>1, <1>2, <1>3, <1>4, <1>5, <1>6, <1>7, <1>8, <1>9, <1>10, <1>11, <1>12, <1>13, <1>14, <1>16 DEF Next

\* The strengthened invariant holds in every behaviour.
THEOREM InductiveInvariant == Spec => []IInv
<1>1. Init => IInv
  <2> SUFFICES ASSUME Init PROVE IInv
    OBVIOUS
  <2>1. rows \in Seq(Row) /\ DOMAIN rows = {} BY DEF Init
  <2>2. TypeOK
    <3>1. syncs \in 0 .. MaxSyncs /\ checking \in Nat /\ inserting \in Nat /\ faults \in 0 .. MaxFaults
      BY RecordsAssumption DEF Init
    <3>2. exists \in BOOLEAN /\ saving \in BOOLEAN /\ arriving \in BOOLEAN
          /\ arrived \in BOOLEAN /\ skipped \in BOOLEAN
          /\ revoking \in BOOLEAN /\ revoked \in BOOLEAN
      BY ZenonT(20) DEF Init
    <3>3. receipts \subseteq Receipt /\ raised \subseteq Receipt BY DEF Init
    <3>4. sender \in Sender BY DEF Init
    <3>5. QED BY <2>1, <3>1, <3>2, <3>3, <3>4, ZenonT(20) DEF TypeOK
  <2>3. ~(checking > 0) /\ ~(inserting > 0) BY DEF Init
  <2>4. ExistsInv BY <2>3 DEF Init, ExistsInv
  <2>5. CauseInv BY DEF Init, CauseInv
  <2>6. StatusHasACause BY <2>1 DEF StatusHasACause, HasStatus
  <2>7. QED BY <2>2, <2>4, <2>5, <2>6 DEF IInv
<1>2. IInv /\ [Next]_vars => IInv'
  BY InvStep
<1>3. QED BY <1>1, <1>2, PTL DEF Spec

\* Every variable keeps its type.
THEOREM TypeCorrect == Spec => []TypeOK
<1>1. IInv => TypeOK
  BY DEF IInv
<1>2. QED BY <1>1, InductiveInvariant, PTL

\* No row says read or revoked, and none of a sent message delivered, without a
\* receipt or a revoke that says so, in whatever order handlers, inserts and updates
\* meet.
THEOREM StatusesAreCaused == Spec => []StatusHasACause
<1>1. IInv => StatusHasACause
  BY DEF IInv
<1>2. QED BY <1>1, InductiveInvariant, PTL

\* Once a message is stored and no insert of it is under way, nothing but its echo
\* starts another one, however many history syncs hold it.
THEOREM SettledForGood == Spec => StoredIsStoredOnce
<1>1. IInv /\ [Next]_vars
        => [Settled => (Settled' \/ EchoArrives) /\ Len(rows') = Len(rows)]_vars
  <2> SUFFICES ASSUME IInv, Next, Settled
               PROVE  (Settled' \/ EchoArrives) /\ Len(rows') = Len(rows)
    OBVIOUS
  <2>1. TypeOK /\ exists /\ rows # <<>> BY DEF IInv, ExistsInv, Settled
  <2>2. CASE MarkRevoked
    BY <2>1, <2>2, UpdateRows DEF MarkRevoked, Settled, history, live
  <2>3. ASSUME NEW kind \in Receipt, ApplyReceipt(kind)
        PROVE  Settled' /\ Len(rows') = Len(rows)
    BY <2>1, <2>3, UpdateRows DEF ApplyReceipt, Receipt, Settled, history, live
  <2>4. CASE CheckAbsent
    BY <2>1, <2>4 DEF CheckAbsent, Settled, live
  <2>5. CASE Revoke \/ MarkFails \/ Sync \/ (\E kind \in Receipt : RaiseReceipt(kind) \/ ReceiptFails(kind))
    BY <2>5 DEF Revoke, MarkFails, Sync, RaiseReceipt, ReceiptFails, Settled, history, live
  <2>6. ~(Send \/ SaveSent \/ SaveFails \/ Skip \/ PersistInbound \/ PersistFails)
    BY <2>1 DEF Send, SaveSent, SaveFails, Skip, PersistInbound, PersistFails, Settled
  <2>7. ~(InsertAbsent \/ InsertFails)
    BY DEF InsertAbsent, InsertFails, Settled
  <2>8. CASE Arrive
    BY <2>1, <2>8 DEF Arrive, IInv, ExistsInv, EchoArrives
  <2>9. CASE Stop
    BY <2>9 DEF Stop, Settled
  <2>10. QED BY <2>2, <2>3, <2>4, <2>5, <2>6, <2>7, <2>8, <2>9 DEF Next
<1>2. QED BY <1>1, InductiveInvariant, PTL DEF Spec, StoredIsStoredOnce

-----------------------------------------------------------------------------
(* How many rows a message may get.                                        *)

One(b) == IF b THEN 1 ELSE 0

\* The dispatches the API's own message adds: its echo.
Echoes == One(sender = "api" /\ arrived)

\* The rows of a message, and those who may yet insert one: a history sync that
\* looks, or that found none, the send and the arrival, or what will be one.
Inserts == Len(rows) + inserting + checking + One(saving) + One(arriving) + One(~exists)

\* A message gets one row, one more for the echo of a send, and one more for each
\* history sync that held it; what OneRowPerMessage comes to when these overlap.
RowsAreBounded == Len(rows) <= 1 + Echoes + syncs

\* What MessagesAreStored rests on: a message WhatsApp has is stored, or its own
\* insert is under way, or it passed by, unless a statement failed or the process
\* stopped.
StoredOrAboutToBe == exists => rows # <<>> \/ saving \/ arriving \/ skipped \/ faults > 0

InsertsInv == Inserts <= 1 + Echoes + syncs /\ StoredOrAboutToBe

\* No step adds more rows than it takes inserts away.
LEMMA InsertsStep ==
  ASSUME TypeOK, ExistsInv, InsertsInv, [Next]_vars
  PROVE  InsertsInv'
<1> USE DEF InsertsInv, Inserts, Echoes, One, StoredOrAboutToBe
<1>1. /\ rows \in Seq(Row) /\ Len(rows) \in Nat /\ inserting \in Nat /\ checking \in Nat /\ syncs \in Nat
      /\ faults \in Nat
      /\ saving \in BOOLEAN /\ exists \in BOOLEAN
      /\ arriving \in BOOLEAN /\ arrived \in BOOLEAN /\ skipped \in BOOLEAN
  BY RecordsAssumption DEF TypeOK
<1>2. ASSUME NEW d \in {"inbound", "outbound"}, NEW s \in {"sent", "delivered"}, Insert(d, s)
      PROVE  Len(rows') = Len(rows) + 1 /\ rows' # <<>>
  <2>1. rows' = Append(rows, [direction |-> d, status |-> s])
    BY <1>2 DEF Insert
  <2>2. \A r : Len(Append(rows, r)) = Len(rows) + 1
    BY <1>1
  <2>3. QED BY <1>2, <2>1, <2>2, InsertRow
<1>3. CASE Send \/ Skip
  BY <1>1, <1>3 DEF Send, Skip, history, live
<1>12. CASE Arrive
  <2>1. sender # "api" => ~exists
    BY <1>12 DEF Arrive, ExistsInv
  <2>2. QED BY <1>1, <1>12, <2>1 DEF Arrive, history
<1>4. CASE SaveSent \/ PersistInbound
  <2>1. Len(rows') = Len(rows) + 1 /\ rows' # <<>>
    BY <1>2, <1>4 DEF SaveSent, PersistInbound
  <2>2. QED BY <1>1, <1>4, <2>1 DEF SaveSent, PersistInbound, history, live
<1>5. CASE SaveFails \/ PersistFails \/ InsertFails \/ MarkFails
  <2>1. faults' > 0
    BY <1>1, <1>5 DEF SaveFails, PersistFails, InsertFails, MarkFails, Fault
  <2>2. UNCHANGED <<sender, rows, exists, syncs, checking>>
    BY <1>5 DEF SaveFails, PersistFails, InsertFails, MarkFails, history
  <2>3. CASE SaveFails
    BY <1>1, <2>1, <2>2, <2>3 DEF SaveFails, history, live
  <2>4. CASE PersistFails
    BY <1>1, <2>1, <2>2, <2>4 DEF PersistFails, history
  <2>5. CASE InsertFails
    BY <1>1, <2>1, <2>2, <2>5 DEF InsertFails, live
  <2>6. CASE MarkFails
    BY <1>1, <2>1, <2>2, <2>6 DEF MarkFails, history, live
  <2>7. QED BY <1>5, <2>3, <2>4, <2>5, <2>6
<1>6. CASE Sync \/ Revoke
  BY <1>1, <1>6 DEF Sync, Revoke, history, live
<1>14. CASE CheckAbsent
  <2>1. UNCHANGED <<sender, exists, rows, saving, live, syncs, faults>>
    BY <1>14 DEF CheckAbsent
  <2>2. checking' = checking - 1 /\ checking > 0 BY <1>14 DEF CheckAbsent
  <2>3. CASE inserting' = inserting + 1
    BY <1>1, <2>1, <2>2, <2>3 DEF live
  <2>4. CASE inserting' = inserting
    BY <1>1, <2>1, <2>2, <2>4 DEF live
  <2>5. QED BY <1>14, <2>3, <2>4 DEF CheckAbsent
<1>7. CASE InsertAbsent
  <2>1. Len(rows') = Len(rows) + 1 /\ rows' # <<>>
    BY <1>2, <1>7 DEF InsertAbsent
  <2>2. QED BY <1>1, <1>7, <2>1 DEF InsertAbsent, live
<1>8. ASSUME MarkRevoked \/ \E kind \in Receipt : ApplyReceipt(kind)
      PROVE  InsertsInv'
  <2>1. \E s \in {"delivered", "read", "revoked"} : Update(s)
    BY <1>8 DEF MarkRevoked, ApplyReceipt, Receipt
  <2>2. Len(rows') = Len(rows) /\ (rows = <<>> <=> rows' = <<>>)
    BY <2>1, UpdateRows
  <2>3. QED BY <1>1, <1>8, <2>2 DEF MarkRevoked, ApplyReceipt, history, live
<1>9. ASSUME NEW kind \in Receipt, RaiseReceipt(kind) \/ ReceiptFails(kind)
      PROVE  InsertsInv'
  BY <1>1, <1>9 DEF RaiseReceipt, ReceiptFails, Fault, history, live
<1>13. CASE Stop
  BY <1>1, <1>13 DEF Stop, Fault
<1>10. CASE UNCHANGED vars
  BY <1>10 DEF vars, history, live
<1>11. QED
  BY <1>3, <1>4, <1>5, <1>6, <1>7, <1>8, <1>9, <1>10, <1>12, <1>13, <1>14 DEF Next

\* The inserts that are left, with the rows, never exceed one, one for an echo and
\* one for each sync.
LEMMA InsertsInvariant == Spec => [](TypeOK /\ InsertsInv)
<1>1. Init => InsertsInv
  BY DEF Init, InsertsInv, Inserts, Echoes, One, StoredOrAboutToBe
<1>2. IInv /\ InsertsInv /\ [Next]_vars => InsertsInv'
  BY InsertsStep DEF IInv
<1>3. IInv => TypeOK
  BY DEF IInv
<1>4. QED BY <1>1, <1>2, <1>3, InductiveInvariant, PTL DEF Spec

\* Without a unique index a message may have several rows, but no more than one, one
\* for the echo of a send and one for each history sync that held it.
THEOREM SyncsBoundRows == Spec => []RowsAreBounded
<1>1. TypeOK /\ InsertsInv => RowsAreBounded
  BY RecordsAssumption DEF TypeOK, InsertsInv, Inserts, Echoes, One, RowsAreBounded
<1>2. QED BY <1>1, InsertsInvariant, PTL

\* No message that did not pass by is forgotten between WhatsApp and the database but
\* by a failed statement or a stop.
THEOREM MessagesAreOnTheirWay == Spec => []StoredOrAboutToBe
<1>1. InsertsInv => StoredOrAboutToBe
  BY DEF InsertsInv
<1>2. QED BY <1>1, InsertsInvariant, PTL
=============================================================================

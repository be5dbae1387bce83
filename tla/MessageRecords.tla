---------------------------- MODULE MessageRecords ----------------------------
(***************************************************************************)
(* The rows that one WhatsApp message has in the messages table, for one   *)
(* instance (internal/domain/message/service.go): a send records what it   *)
(* sent, event handlers record what arrives live or by history sync and    *)
(* turn receipts into statuses, and a revoke marks what it revoked.  Each  *)
(* event is handled in a goroutine of its own, no index makes the WhatsApp *)
(* ID unique, and an update applies to every row with the ID.  Messages    *)
(* with other IDs do not interfere.  A row still scheduled has no ID: it   *)
(* is in ScheduledDispatch.                                                *)
(***************************************************************************)
EXTENDS Naturals, Sequences

CONSTANTS
  MaxSyncs,  \* bound: the history syncs that hold the message
  MaxFaults  \* bound: failed statements and stops of the process, together

ASSUME RecordsAssumption == MaxSyncs \in Nat /\ MaxFaults \in Nat

\* Who sent the message: the API, the user on the phone, or the contact.
Sender == {"api", "phone", "contact"}

\* The receipts of the contact, by what the engine calls them: read ones are
\* told apart, all other types count as delivered.
Receipt == {"delivered", "read"}

Row == [direction : {"inbound", "outbound"}, status : {"sent", "delivered", "read", "revoked"}]

VARIABLES
  sender,     \* who sends the message
  exists,     \* WhatsApp has it
  rows,       \* its rows, in the order of their insertion
  saving,     \* the request that sends it is to record it
  arriving,   \* the live message, or the echo of a send, is on its way to persistInbound
  arrived,    \* history: it was dispatched live
  skipped,    \* history: it passed by and only a history sync can hold it
  syncs,      \* how many history syncs have held it
  checking,   \* how many of them are to look for a row
  inserting,  \* how many found none and are to insert one
  receipts,   \* the receipts on their way to the service
  raised,     \* history: the receipts the contact has sent
  revoking,   \* WhatsApp has accepted a revoke that is to be recorded
  revoked,    \* history: WhatsApp has accepted a revoke
  faults      \* how many statements have failed and how often the process stopped

live == <<arriving, arrived, skipped>>
history == <<syncs, checking, inserting>>
acks == <<receipts, raised, revoking, revoked>>
vars == <<sender, exists, rows, saving, live, history, acks, faults>>

Init ==
  /\ sender \in Sender
  /\ exists = FALSE /\ rows = <<>>
  /\ saving = FALSE /\ arriving = FALSE /\ arrived = FALSE /\ skipped = FALSE
  /\ syncs = 0 /\ checking = 0 /\ inserting = 0
  /\ receipts = {} /\ raised = {}
  /\ revoking = FALSE /\ revoked = FALSE
  /\ faults = 0

Fault == faults < MaxFaults /\ faults' = faults + 1

Insert(direction, status) == rows' = Append(rows, [direction |-> direction, status |-> status])

\* UpdateStatus, UpdateStatusBulk: every row with the ID, whatever its status.
Update(status) == rows' = [k \in DOMAIN rows |-> [rows[k] EXCEPT !.status = status]]

-----------------------------------------------------------------------------
(* Sends.                                                                  *)

\* WhatsApp takes the message; the engine call has yet to return.
Send ==
  /\ sender = "api" /\ ~exists
  /\ exists' = TRUE /\ saving' = TRUE
  /\ UNCHANGED <<sender, rows, live, history, acks, faults>>

\* Faulty variant: a row is inserted with the status a new message begins with.
SavePending ==
  /\ saving /\ saving' = FALSE
  /\ Insert("outbound", "pending")
  /\ UNCHANGED <<sender, exists, live, history, acks, faults>>

\* sendTextNow, sendMediaNow, SendLocation, SendPoll, SendContact insert a row...
SaveSent ==
  /\ saving /\ saving' = FALSE
  /\ Insert("outbound", "sent")
  /\ UNCHANGED <<sender, exists, live, history, acks, faults>>

\* ...or fail to, and the message is reported as sent all the same; or the call
\* fails although WhatsApp has the message, and nothing is stored.
SaveFails ==
  /\ saving /\ saving' = FALSE
  /\ Fault
  /\ UNCHANGED <<sender, exists, rows, live, history, acks>>

\* Faulty variant: the rows are marked before WhatsApp is asked, and may be wrong.
RevokeMarkedFirst ==
  /\ exists /\ sender # "contact" /\ ~revoked
  /\ Update("revoked")
  /\ UNCHANGED <<sender, exists, saving, live, history, acks, faults>>

\* RevokeMessage: WhatsApp accepts the revoke...
Revoke ==
  /\ exists /\ sender # "contact" /\ ~revoked
  /\ revoked' = TRUE /\ revoking' = TRUE
  /\ UNCHANGED <<sender, exists, rows, saving, live, history, receipts, raised, faults>>

\* ...then the rows are marked...
MarkRevoked ==
  /\ revoking /\ revoking' = FALSE
  /\ Update("revoked")
  /\ UNCHANGED <<sender, exists, saving, live, history, receipts, raised, revoked, faults>>

\* ...or the update fails, which is logged.
MarkFails ==
  /\ revoking /\ revoking' = FALSE
  /\ Fault
  /\ UNCHANGED <<sender, exists, rows, saving, live, history, receipts, raised, revoked>>

-----------------------------------------------------------------------------
(* Events.                                                                 *)

\* A message of the contact or of the phone is dispatched, once its media has been
\* fetched; so is the echo of one the API has sent, before or after the send returns.
Arrive ==
  /\ ~arrived /\ ~skipped
  /\ sender = "api" => exists
  /\ exists' = TRUE /\ arriving' = TRUE /\ arrived' = TRUE
  /\ UNCHANGED <<sender, rows, saving, skipped, history, acks, faults>>

\* A contact's message to a group is dropped where the settings ignore groups, and
\* one from before the pairing is never seen live.
Skip ==
  /\ sender # "api" /\ ~exists
  /\ exists' = TRUE /\ skipped' = TRUE
  /\ UNCHANGED <<sender, rows, saving, arriving, arrived, history, acks, faults>>

\* Faulty variant: the phone's own messages are left to the history sync.
PersistContactsOnly ==
  /\ arriving /\ arriving' = FALSE
  /\ IF sender = "contact" THEN Insert("inbound", "delivered") ELSE UNCHANGED rows
  /\ UNCHANGED <<sender, exists, saving, arrived, skipped, history, acks, faults>>

\* persistInbound, whoever sent it and whatever rows there are...
PersistInbound ==
  /\ arriving /\ arriving' = FALSE
  /\ Insert("inbound", "delivered")
  /\ UNCHANGED <<sender, exists, saving, arrived, skipped, history, acks, faults>>

\* ...or its failure, which is logged.
PersistFails ==
  /\ arriving /\ arriving' = FALSE
  /\ Fault
  /\ UNCHANGED <<sender, exists, rows, saving, arrived, skipped, history, acks>>

\* A history sync, asked for or not, holds the message.
Sync ==
  /\ exists /\ syncs < MaxSyncs
  /\ syncs' = syncs + 1 /\ checking' = checking + 1
  /\ UNCHANGED <<sender, exists, rows, saving, live, inserting, acks, faults>>

\* Faulty variant: a history message is inserted as a live one is.
CheckNothing ==
  /\ checking > 0 /\ checking' = checking - 1
  /\ inserting' = inserting + 1
  /\ UNCHANGED <<sender, exists, rows, saving, live, syncs, acks, faults>>

\* CreateIfAbsent: the statement sees the rows that were there when it began...
CheckAbsent ==
  /\ checking > 0 /\ checking' = checking - 1
  /\ inserting' = IF rows = <<>> THEN inserting + 1 ELSE inserting
  /\ UNCHANGED <<sender, exists, rows, saving, live, syncs, acks, faults>>

\* ...and inserts if it saw none, with the direction the message really has...
InsertAbsent ==
  /\ inserting > 0 /\ inserting' = inserting - 1
  /\ IF sender = "contact" THEN Insert("inbound", "delivered") ELSE Insert("outbound", "sent")
  /\ UNCHANGED <<sender, exists, saving, live, syncs, checking, acks, faults>>

\* ...or fails, which is logged.
InsertFails ==
  /\ inserting > 0 /\ inserting' = inserting - 1
  /\ Fault
  /\ UNCHANGED <<sender, exists, rows, saving, live, syncs, checking, acks>>

\* The contact's phone reports on the message; a report may come more than once.
RaiseReceipt(kind) ==
  /\ exists /\ kind \notin receipts
  /\ receipts' = receipts \cup {kind} /\ raised' = raised \cup {kind}
  /\ UNCHANGED <<sender, exists, rows, saving, live, history, revoking, revoked, faults>>

Taken(kind) == kind \in receipts /\ receipts' = receipts \ {kind}

\* Faulty variant: a receipt is applied only to messages the contact sent.
ApplyToReceived(kind) ==
  /\ Taken(kind)
  /\ IF sender = "contact" THEN Update(kind) ELSE UNCHANGED rows
  /\ UNCHANGED <<sender, exists, saving, live, history, raised, revoking, revoked, faults>>

ApplyReceipt(kind) ==
  /\ Taken(kind)
  /\ Update(kind)
  /\ UNCHANGED <<sender, exists, saving, live, history, raised, revoking, revoked, faults>>

ReceiptFails(kind) ==
  /\ Taken(kind)
  /\ Fault
  /\ UNCHANGED <<sender, exists, rows, saving, live, history, raised, revoking, revoked>>

-----------------------------------------------------------------------------
(* The process.                                                            *)

\* The process stops, by a crash or at the end of main, which waits for none of the
\* goroutines: what is under way is gone, and the rows stay.
Stop ==
  /\ Fault
  /\ saving' = FALSE /\ arriving' = FALSE
  /\ checking' = 0 /\ inserting' = 0
  /\ receipts' = {} /\ revoking' = FALSE
  /\ UNCHANGED <<sender, exists, rows, arrived, skipped, syncs, raised, revoked>>

Next ==
  \/ Send \/ SaveSent \/ SaveFails \/ Revoke \/ MarkRevoked \/ MarkFails
  \/ Arrive \/ Skip \/ PersistInbound \/ PersistFails
  \/ Sync \/ CheckAbsent \/ InsertAbsent \/ InsertFails
  \/ \E kind \in Receipt : RaiseReceipt(kind) \/ ApplyReceipt(kind) \/ ReceiptFails(kind)
  \/ Stop

\* The goroutine of every event and every call runs to its end, unless the process
\* stops.
Fairness ==
  /\ WF_vars(SaveSent) /\ WF_vars(MarkRevoked) /\ WF_vars(PersistInbound)
  /\ WF_vars(CheckAbsent) /\ WF_vars(InsertAbsent)
  /\ \A kind \in Receipt : WF_vars(ApplyReceipt(kind))

Spec == Init /\ [][Next]_vars

FairSpec == Spec /\ Fairness

-----------------------------------------------------------------------------
(* Properties.                                                             *)

\* Every variable keeps its type.
TypeOK ==
  /\ sender \in Sender
  /\ rows \in Seq(Row)
  /\ exists \in BOOLEAN /\ saving \in BOOLEAN
  /\ arriving \in BOOLEAN /\ arrived \in BOOLEAN /\ skipped \in BOOLEAN
  /\ syncs \in 0 .. MaxSyncs /\ checking \in Nat /\ inserting \in Nat
  /\ receipts \subseteq Receipt /\ raised \subseteq Receipt
  /\ revoking \in BOOLEAN /\ revoked \in BOOLEAN
  /\ faults \in 0 .. MaxFaults

HasStatus(status) == \E k \in DOMAIN rows : rows[k].status = status

\* No status is made up, in whatever order inserts and updates meet: a row says read
\* only after a receipt that says so, one of a sent message says delivered only after
\* a receipt (a row of a live message or of an echo begins so), and a row says revoked
\* only after WhatsApp took the revoke.
StatusHasACause ==
  /\ HasStatus("read") => "read" \in raised
  /\ (\E k \in DOMAIN rows : rows[k].direction = "outbound" /\ rows[k].status = "delivered")
       => "delivered" \in raised
  /\ HasStatus("revoked") => revoked

\* A message has a row and no insert of it is under way.
Settled == rows # <<>> /\ ~saving /\ ~arriving /\ inserting = 0

\* The echo of a message the API sent is dispatched, which inserts it once more.
EchoArrives == sender = "api" /\ ~arrived /\ arrived'

\* A message that has settled gets no further row: whatever history syncs, receipts,
\* revokes and restarts still come, no insert of it starts but that of its echo.
StoredIsStoredOnce == [][Settled => (Settled' \/ EchoArrives) /\ Len(rows') = Len(rows)]_vars

\* Somebody is about to store the message, or must be, for nothing has failed and it
\* has not passed by.
Owed == saving \/ arriving \/ (exists /\ ~skipped /\ faults = 0)

\* Every message that was sent or has arrived is stored in the end, unless from then
\* on a statement fails or the process stops.
MessagesAreStored ==
  \A n \in 0 .. MaxFaults : (Owed /\ faults = n) ~> (rows # <<>> \/ faults > n)

\* A receipt for a message whose row is there leaves its mark: the oldest row does
\* not stay sent, unless from then on a statement fails or the process stops.
ReceiptsLeaveAMark ==
  \A n \in 0 .. MaxFaults :
    (receipts # {} /\ rows # <<>> /\ faults = n)
       ~> ((rows # <<>> /\ rows[1].status # "sent") \/ faults > n)

\* persistHistory stores messages "skipping ones already known (live messages and
\* earlier syncs share WhatsApp IDs)": one that was received has one row.
OneRowPerMessage == sender # "api" => Len(rows) <= 1
=============================================================================

-------------------------- MODULE InstanceLifecycle --------------------------
(***************************************************************************)
(* One WhatsApp instance: the status the engine keeps in memory            *)
(* (internal/engine/whatsmeow), the status its row keeps in the database   *)
(* (internal/domain/instance/service.go), and the whatsmeow client both    *)
(* follow through events.  whatsmeow raises an event in a goroutine of its *)
(* own and the engine hands each one to the service in another, so that    *)
(* neither handlers nor database updates keep the order of what happened.  *)
(* The rows themselves come and go in InstanceRegistry.                    *)
(***************************************************************************)
EXTENDS Naturals, FiniteSets

CONSTANTS
  Callers,        \* HTTP requests on the instance, one operation at a time each
  Main,           \* the start-up code, which calls Connect as a request does
  AutoReconnect,  \* ENGINE_AUTO_RECONNECT, true unless configured otherwise
  MaxPending,     \* bound: raised events, and database updates, not yet handled
  MaxMishaps      \* bound: drops, revocations, bans, failures and crashes, together

ASSUME LifecycleAssumption ==
  /\ Main \notin Callers
  /\ AutoReconnect \in BOOLEAN
  /\ MaxPending \in Nat \ {0}
  /\ MaxMishaps \in Nat

Status == {"disconnected", "connecting", "qr_pending", "connected", "logged_out", "banned"}

Event == {"Connected", "Disconnected", "LoggedOut", "PairSuccess", "TemporaryBan"}

\* The client's socket: closed, closed with whatsmeow's reconnect loop on, open
\* and not yet authenticated, or authenticated.
Link == {"down", "retrying", "open", "up"}

\* The client's device: no session, a session, or a session deleted under it.
Device == {"blank", "paired", "deleted"}

Stage == {"idle", "pairing", "connecting", "disconnecting", "loggingOut", "writing"}

VARIABLES
  process,      \* "running", "down", or "unserved": up, with no client of the instance
  status,       \* managedInstance.status; what it was, while the process is down
  link,         \* the socket of the current client
  device,       \* the device of the current client
  raised,       \* how many events of each kind whatsmeow has yet to hand over
  downgrading,  \* Disconnected handlers past their guard
  reinits,      \* reinitClient goroutines: to swap the client, to set the status
  writes,       \* updates of each status on their way to the row
  row,          \* instances.status
  pc,           \* what each caller is doing
  mishaps,      \* how many mishaps have happened
  failures,     \* how many of them were a failed step the code only logs
  overtaken     \* history: since the socket is up, a failure or a contrary update came

client == <<link, device>>
handlers == <<raised, downgrading, reinits, writes>>
counts == <<mishaps, failures>>
system == <<process, status, client, handlers, row, pc, counts>>
vars == <<system, overtaken>>

All == Callers \cup {Main}

NoneRaised == [e \in Event |-> 0]
NoReinits == [swap |-> 0, report |-> 0]
NoWrites == [s \in Status |-> 0]
AllIdle == [c \in All |-> "idle"]

\* No goroutine of the instance is left, and no call.
Quiet ==
  /\ raised = NoneRaised /\ downgrading = 0 /\ reinits = NoReinits /\ writes = NoWrites
  /\ pc = AllIdle

Init ==
  /\ process = "running"
  /\ status = "disconnected" /\ row = "disconnected"
  /\ link = "down" /\ device = "blank"
  /\ Quiet
  /\ mishaps = 0 /\ failures = 0
  /\ overtaken = FALSE

IsConnected == link \in {"open", "up"}

Mishap == mishaps < MaxMishaps /\ mishaps' = mishaps + 1 /\ UNCHANGED failures
Failure == mishaps < MaxMishaps /\ mishaps' = mishaps + 1 /\ failures' = failures + 1

Total(f) == f["connected"] + f["disconnected"] + f["logged_out"] + f["banned"]

\* whatsmeow starts a goroutine that will hand e to the engine.
Raise(e) ==
  /\ \A k \in Event : raised[k] < MaxPending
  /\ raised' = [raised EXCEPT ![e] = @ + 1]
  /\ UNCHANGED <<downgrading, reinits, writes>>

\* The handler of e takes it, and sends the service an update of the row.
Take(e) == raised[e] > 0 /\ raised' = [raised EXCEPT ![e] = @ - 1]
dispatch(s) == Total(writes) < MaxPending /\ writes' = [writes EXCEPT ![s] = @ + 1]

-----------------------------------------------------------------------------
(* whatsmeow and the WhatsApp servers, as the engine relies on them.       *)

Running == process = "running"

\* The server accepts the session of a new socket.
Authenticate ==
  /\ Running /\ link = "open" /\ device = "paired"
  /\ link' = "up" /\ Raise("Connected")
  /\ UNCHANGED <<process, status, device, row, pc, counts>>

\* The user scans the QR code or types the pairing code.
Pair ==
  /\ Running /\ link = "open" /\ device = "blank"
  /\ device' = "paired" /\ Raise("PairSuccess")
  /\ UNCHANGED <<process, status, link, row, pc, counts>>

\* Nobody scans it: whatsmeow closes the socket on purpose, with no event.
QRExpires ==
  /\ Running /\ link = "open" /\ device = "blank"
  /\ link' = "down"
  /\ UNCHANGED <<process, status, device, handlers, row, pc, counts>>

\* The socket is lost; a client with a session tries to open it again.
Drop ==
  /\ Running /\ IsConnected
  /\ Mishap
  /\ link' = IF AutoReconnect /\ device = "paired" THEN "retrying" ELSE "down"
  /\ Raise("Disconnected")
  /\ UNCHANGED <<process, status, device, row, pc>>

Reconnect ==
  /\ Running /\ link = "retrying"
  /\ link' = "open"
  /\ UNCHANGED <<process, status, device, handlers, row, pc, counts>>

\* The user unlinks the device on the phone: the session is deleted.
Revoke ==
  /\ Running /\ IsConnected /\ device = "paired"
  /\ Mishap
  /\ device' = "deleted" /\ link' = "down" /\ Raise("LoggedOut")
  /\ UNCHANGED <<process, status, row, pc>>

\* The server refuses the session for a while; it may close the socket first.
Ban ==
  /\ Running /\ link = "open" /\ device = "paired"
  /\ Mishap
  /\ link' \in {"open", "down"} /\ Raise("TemporaryBan")
  /\ UNCHANGED <<process, status, device, row, pc>>

-----------------------------------------------------------------------------
(* handleWAEvent: the event handlers of the engine.                        *)

HandleConnected ==
  /\ Running /\ Take("Connected")
  /\ status' = "connected" /\ dispatch("connected")
  /\ UNCHANGED <<process, client, downgrading, reinits, row, pc, counts>>

\* The guard: a logged-out status stays, and an event that comes late, when the
\* client is connected again, is dropped...
HandleDisconnected ==
  /\ Running /\ Take("Disconnected")
  /\ downgrading' = IF status = "logged_out" \/ (status = "connected" /\ IsConnected)
                    THEN downgrading ELSE downgrading + 1
  /\ UNCHANGED <<process, status, client, reinits, writes, row, pc, counts>>

\* ...otherwise the status is set, whatever it has become since the guard.
Downgrade ==
  /\ Running /\ downgrading > 0
  /\ downgrading' = downgrading - 1
  /\ status' = "disconnected" /\ dispatch("disconnected")
  /\ UNCHANGED <<process, client, raised, reinits, row, pc, counts>>

\* Faulty variant: the client of a logged-out device is kept.
HandleLoggedOutKeepingClient ==
  /\ Running /\ Take("LoggedOut")
  /\ status' = "logged_out" /\ dispatch("logged_out")
  /\ UNCHANGED <<process, client, downgrading, reinits, row, pc, counts>>

HandleLoggedOut ==
  /\ Running /\ Take("LoggedOut")
  /\ status' = "logged_out" /\ dispatch("logged_out")
  /\ reinits' = [reinits EXCEPT !.swap = @ + 1]
  /\ UNCHANGED <<process, client, downgrading, row, pc, counts>>

HandlePairSuccess ==
  /\ Running /\ Take("PairSuccess")
  /\ status' = "connected" /\ dispatch("connected")
  /\ UNCHANGED <<process, client, downgrading, reinits, row, pc, counts>>

\* Faulty variant: a ban replaces the client as a logout does.
HandleBanReplacingClient ==
  /\ Running /\ Take("TemporaryBan")
  /\ status' = "banned" /\ dispatch("banned")
  /\ reinits' = [reinits EXCEPT !.swap = @ + 1]
  /\ UNCHANGED <<process, client, downgrading, row, pc, counts>>

\* A banned client that is still connected is disconnected.
HandleBan ==
  /\ Running /\ Take("TemporaryBan")
  /\ status' = "banned" /\ dispatch("banned")
  /\ link' = IF IsConnected THEN "down" ELSE link
  /\ UNCHANGED <<process, device, downgrading, reinits, row, pc, counts>>

\* reinitClient gets the first device of the store, a new one if the old one is
\* deleted, and swaps the client; the old one is dropped as it is...
ReinitSwap ==
  /\ Running /\ reinits.swap > 0
  /\ reinits' = [swap |-> reinits.swap - 1, report |-> reinits.report + 1]
  /\ device' = IF device = "deleted" THEN "blank" ELSE device
  /\ link' = "down"
  /\ UNCHANGED <<process, status, raised, downgrading, writes, row, pc, counts>>

\* (the store may fail: that is logged)
ReinitFails ==
  /\ Running /\ reinits.swap > 0
  /\ Failure
  /\ reinits' = [reinits EXCEPT !.swap = @ - 1]
  /\ UNCHANGED <<process, status, client, raised, downgrading, writes, row, pc>>

\* ...then sets the status.
ReinitReport ==
  /\ Running /\ reinits.report > 0
  /\ reinits' = [reinits EXCEPT !.report = @ - 1]
  /\ status' = "disconnected"
  /\ UNCHANGED <<process, client, raised, downgrading, writes, row, pc, counts>>

\* handleEngineEvent of the instance service: the update reaches the row...
Write(s) ==
  /\ Running /\ writes[s] > 0
  /\ writes' = [writes EXCEPT ![s] = @ - 1]
  /\ row' = s
  /\ UNCHANGED <<process, status, client, raised, downgrading, reinits, pc, counts>>

\* ...or fails, which is logged.
WriteFails(s) ==
  /\ Running /\ writes[s] > 0
  /\ Failure
  /\ writes' = [writes EXCEPT ![s] = @ - 1]
  /\ UNCHANGED <<process, status, client, raised, downgrading, reinits, row, pc>>

-----------------------------------------------------------------------------
(* The operations of the service.                                          *)

\* The HTTP server starts after the restoration.
Requests(c) == c \in Callers /\ Running /\ pc[c] = "idle" /\ pc[Main] = "idle"

At(c, stage) == pc' = [pc EXCEPT ![c] = stage]

\* Engine.Connect: nothing to do for a client that is connected, else
\* the status is set and the client told to connect.
Connecting(c) ==
  /\ IF IsConnected
     THEN At(c, "idle") /\ UNCHANGED status
     ELSE At(c, "connecting") /\ status' = "connecting"
  /\ UNCHANGED <<process, client, handlers, row, counts>>

Connect(c) == Requests(c) /\ Connecting(c)

\* Faulty variant: a status that is none of the engine's.
StartQRFlowPairing(c) ==
  /\ Requests(c) /\ ~IsConnected /\ device = "blank"
  /\ status' = "pairing"
  /\ At(c, "pairing")
  /\ UNCHANGED <<process, client, handlers, row, counts>>

\* StartQRFlow: GetQRChannel refuses a client that is connected or has, or had,
\* a session; then Connect is called.
StartQRFlow(c) ==
  /\ Requests(c) /\ ~IsConnected /\ device = "blank"
  /\ status' = "qr_pending"
  /\ At(c, "pairing")
  /\ UNCHANGED <<process, client, handlers, row, counts>>

ConnectForQR(c) == Running /\ pc[c] = "pairing" /\ Connecting(c)

ConnectSucceeds(c) ==
  /\ Running /\ pc[c] = "connecting"
  /\ ~IsConnected /\ device # "deleted"
  /\ link' = "open"
  /\ At(c, "idle")
  /\ UNCHANGED <<process, status, device, handlers, row, counts>>

\* Faulty variant: a failed connection leaves the status as Connect set it.
ConnectFailsSilently(c) ==
  /\ Running /\ pc[c] = "connecting"
  /\ IF IsConnected \/ device = "deleted" THEN UNCHANGED counts ELSE Mishap
  /\ At(c, IF c = Main THEN "writing" ELSE "idle")
  /\ UNCHANGED <<process, status, client, handlers, row>>

\* A socket that is open already, a deleted device or the network makes Connect
\* fail; the start-up code then also writes the row.
ConnectFails(c) ==
  /\ Running /\ pc[c] = "connecting"
  /\ IF IsConnected \/ device = "deleted" THEN UNCHANGED counts ELSE Mishap
  /\ status' = "disconnected"
  /\ At(c, IF c = Main THEN "writing" ELSE "idle")
  /\ UNCHANGED <<process, client, handlers, row>>

\* Disconnect closes the socket for good, with no event...
Disconnect(c) ==
  /\ Requests(c)
  /\ link' = "down"
  /\ At(c, "disconnecting")
  /\ UNCHANGED <<process, status, device, handlers, row, counts>>

\* ...sets the status...
Disconnected(c) ==
  /\ Running /\ pc[c] = "disconnecting"
  /\ status' = "disconnected"
  /\ At(c, "writing")
  /\ UNCHANGED <<process, client, handlers, row, counts>>

\* ...and writes the row; whether that fails is not looked at.
WriteRow(c) ==
  /\ Running /\ pc[c] = "writing"
  /\ row' = "disconnected"
  /\ At(c, "idle")
  /\ UNCHANGED <<process, status, client, handlers, counts>>

WriteRowFails(c) ==
  /\ Running /\ pc[c] = "writing"
  /\ Failure
  /\ At(c, "idle")
  /\ UNCHANGED <<process, status, client, handlers, row>>

\* Logout asks the server to forget the device and deletes it, with no event...
Logout(c) ==
  /\ Requests(c) /\ link = "up" /\ device = "paired"
  /\ device' = "deleted" /\ link' = "down"
  /\ At(c, "loggingOut")
  /\ UNCHANGED <<process, status, handlers, row, counts>>

\* ...and sets the status.  The row and the client stay.
LoggedOut(c) ==
  /\ Running /\ pc[c] = "loggingOut"
  /\ status' = "logged_out"
  /\ At(c, "idle")
  /\ UNCHANGED <<process, client, handlers, row, counts>>

-----------------------------------------------------------------------------
(* The process.                                                            *)

\* A crash, or a shutdown: the goroutines go, the device store and the row stay.
Die ==
  /\ process # "down"
  /\ IF Running THEN Mishap ELSE UNCHANGED counts
  /\ process' = "down"
  /\ link' = "down"
  /\ raised' = NoneRaised /\ downgrading' = 0 /\ reinits' = NoReinits /\ writes' = NoWrites
  /\ pc' = AllIdle
  /\ UNCHANGED <<status, device, row>>

\* Faulty variant: instances are registered again and none is connected.
RestoreRegistersOnly ==
  /\ process = "down" /\ process' = "running"
  /\ device' = IF device = "deleted" THEN "blank" ELSE device
  /\ status' = "disconnected"
  /\ UNCHANGED <<link, handlers, row, pc, counts>>

\* RestoreFromDB: the engine opens the device store again, and an instance whose
\* row says connected is told to connect.
RestoreFromDB ==
  /\ process = "down" /\ process' = "running"
  /\ device' = IF device = "deleted" THEN "blank" ELSE device
  /\ IF row = "connected"
     THEN status' = "connecting" /\ At(Main, "connecting")
     ELSE status' = "disconnected" /\ UNCHANGED pc
  /\ UNCHANGED <<link, handlers, row, counts>>

\* The rows cannot be listed, or the engine cannot create the client: either is
\* logged, the process goes on, and every call finds no such instance (whose
\* status, kept nowhere, counts as disconnected).
RestoreFails ==
  /\ process = "down" /\ process' = "unserved"
  /\ Failure
  /\ status' = "disconnected"
  /\ UNCHANGED <<client, handlers, row, pc>>

Handle ==
  \/ HandleConnected \/ HandleDisconnected \/ Downgrade \/ HandleLoggedOut
  \/ HandlePairSuccess \/ HandleBan \/ ReinitSwap \/ ReinitFails \/ ReinitReport
  \/ \E s \in Status : Write(s) \/ WriteFails(s)

Return(c) ==
  \/ ConnectForQR(c) \/ ConnectSucceeds(c) \/ ConnectFails(c)
  \/ Disconnected(c) \/ WriteRow(c) \/ WriteRowFails(c) \/ LoggedOut(c)

Step ==
  \/ Authenticate \/ Pair \/ QRExpires \/ Drop \/ Reconnect \/ Revoke \/ Ban
  \/ Handle
  \/ \E c \in All : Return(c)
  \/ \E c \in Callers : Connect(c) \/ StartQRFlow(c) \/ Disconnect(c) \/ Logout(c)
  \/ Die \/ RestoreFromDB \/ RestoreFails

\* A step that makes the status or the row say something else than connected.
Contrary == (status' # status /\ status' # "connected") \/ (row' # row /\ row' # "connected")

Next ==
  /\ Step
  /\ overtaken' = /\ link = "up" /\ link' = "up"
                  /\ overtaken \/ Contrary \/ failures' # failures

\* Every goroutine that was started runs, a call that was made returns, a paired
\* client whose socket is open is answered by the server, the reconnect loop goes
\* on until it succeeds, and the process is started again.  Requests are up to
\* the users, and nothing has to go wrong.
Fairness ==
  /\ WF_system(Authenticate) /\ WF_system(Reconnect)
  /\ WF_system(HandleConnected) /\ WF_system(HandleDisconnected) /\ WF_system(Downgrade)
  /\ WF_system(HandleLoggedOut) /\ WF_system(HandlePairSuccess) /\ WF_system(HandleBan)
  /\ WF_system(ReinitSwap) /\ WF_system(ReinitReport)
  /\ \A s \in Status : WF_system(Write(s))
  /\ \A c \in All : WF_system(Return(c))
  /\ WF_system(RestoreFromDB)

Spec == Init /\ [][Next]_vars

FairSpec == Spec /\ Fairness

-----------------------------------------------------------------------------
(* Properties.                                                             *)

\* Every variable keeps its type.
TypeOK ==
  /\ process \in {"running", "down", "unserved"}
  /\ status \in Status /\ row \in Status
  /\ link \in Link /\ device \in Device
  /\ raised \in [Event -> Nat]
  /\ downgrading \in Nat
  /\ reinits \in [swap : Nat, report : Nat]
  /\ writes \in [Status -> Nat]
  /\ pc \in [All -> Stage]
  /\ mishaps \in 0 .. MaxMishaps /\ failures \in 0 .. MaxMishaps
  /\ overtaken \in BOOLEAN

\* reinitClient throws a client away without closing it, however late its
\* goroutine runs: only a client whose device is deleted and whose socket is
\* closed, never one that has paired or connected since the logout.
ReinitReplacesDeadClient ==
  [][reinits'.report > reinits.report => device = "deleted" /\ link = "down"]_vars

\* A device deleted by a logout on the phone is eventually replaced, so that a
\* new QR code can be scanned without a restart, unless the store fails.
PhoneLogoutHeals ==
  (device = "deleted" /\ raised["LoggedOut"] > 0) ~> (device # "deleted" \/ failures > 0)

\* A paired instance does not stay connecting: whatever becomes of the socket,
\* the calls and the events, another status follows.
ConnectingSettles ==
  (status = "connecting" /\ device = "paired")
     ~> (status # "connecting" \/ device # "paired")

\* An instance that is up says so, in memory and in its row, once no handler, update
\* or call is left: unless, since the socket came up, a write failed or an update of
\* what was before it (a late Disconnected, the write of a Disconnect) came last.
UpIsRecorded ==
  Running /\ link = "up" /\ Quiet /\ ~overtaken => status = "connected" /\ row = "connected"

\* A paired instance whose row says connected while the process is down comes up
\* after the restart, or its row stops saying so, unless another step fails:
\* listing the rows, creating the client, an update of the row.
RecordedComesBack ==
  \A n \in 0 .. MaxMishaps :
    (process = "down" /\ row = "connected" /\ device = "paired" /\ failures = n)
       ~> (link = "up" \/ row # "connected" \/ failures > n)

\* What was connected before a stop is connected after it: being up gets into the
\* row, and what is in the row is restored.
ConnectedComesBack == []UpIsRecorded /\ RecordedComesBack

\* "Instances that were connected are reconnected; others are left
\* disconnected": one that was logged out when the process stopped is not told
\* to connect.
LoggedOutStaysDown ==
  [][~Running /\ Running' /\ status = "logged_out" => status' # "connecting"]_vars
=============================================================================

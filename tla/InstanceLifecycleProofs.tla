----------------------- MODULE InstanceLifecycleProofs -----------------------
(***************************************************************************)
(* Proofs about InstanceLifecycle for any set of callers, either setting   *)
(* of automatic reconnection and any bounds: its type, that reinitClient   *)
(* replaces only clients that are dead, that an instance that is up gets   *)
(* recorded as connected, and that somebody is always about to take a      *)
(* paired instance out of "connecting".                                    *)
(***************************************************************************)
EXTENDS InstanceLifecycle, TLAPS

\* Each logout on the phone is on its way to one client swap.
LogoutsUnderway == raised["LoggedOut"] + reinits.swap

\* One logout at a time is underway, and until its swap the client holds the
\* deleted device and a closed socket; a process that is down runs nothing.
LogoutInv ==
  /\ LogoutsUnderway <= 1
  /\ LogoutsUnderway > 0 => device = "deleted" /\ link = "down"
  /\ ~Running => raised = NoneRaised /\ reinits = NoReinits /\ link = "down"

IInv == TypeOK /\ failures <= mishaps /\ LogoutInv

-----------------------------------------------------------------------------

\* Every variable keeps its type, and the lost steps are among the mishaps.
LEMMA TypeStep ==
  ASSUME TypeOK, failures <= mishaps, [Next]_vars
  PROVE  TypeOK' /\ failures' <= mishaps'
<1> USE LifecycleAssumption DEF TypeOK, client, handlers, counts, Status, Event, Link, Device, Stage
<1> USE DEF Raise, Take, dispatch, At, Mishap, Failure
<1>25. overtaken' \in BOOLEAN
  BY DEF Next, vars
<1> USE <1>25
<1>1. CASE Authenticate
  BY <1>1 DEF Authenticate
<1>2. CASE Pair
  BY <1>2 DEF Pair
<1>3. CASE QRExpires
  BY <1>3 DEF QRExpires
<1>4. CASE Drop
  BY <1>4 DEF Drop
<1>5. CASE Reconnect
  BY <1>5 DEF Reconnect
<1>6. CASE Revoke
  BY <1>6 DEF Revoke
<1>7. CASE Ban
  BY <1>7 DEF Ban
<1>8. CASE HandleConnected
  BY <1>8 DEF HandleConnected
<1>9. CASE HandleDisconnected
  BY <1>9 DEF HandleDisconnected
<1>10. CASE Downgrade
  BY <1>10 DEF Downgrade
<1>11. CASE HandleLoggedOut
  BY <1>11 DEF HandleLoggedOut
<1>12. CASE HandlePairSuccess
  BY <1>12 DEF HandlePairSuccess
<1>13. CASE HandleBan
  BY <1>13 DEF HandleBan
<1>14. CASE ReinitSwap
  BY <1>14 DEF ReinitSwap
<1>15. CASE ReinitFails
  BY <1>15 DEF ReinitFails
<1>16. CASE ReinitReport
  BY <1>16 DEF ReinitReport
<1>17. ASSUME NEW s \in Status, Write(s) \/ WriteFails(s) PROVE TypeOK' /\ failures' <= mishaps'
  BY <1>17 DEF Write, WriteFails
<1>18. ASSUME NEW c \in All, Return(c) PROVE TypeOK' /\ failures' <= mishaps'
  <2>1. CASE ConnectForQR(c)
    BY <1>18, <2>1 DEF ConnectForQR, Connecting
  <2>2. CASE ConnectSucceeds(c) \/ ConnectFails(c)
    BY <1>18, <2>2 DEF ConnectSucceeds, ConnectFails
  <2>3. CASE Disconnected(c) \/ WriteRow(c) \/ WriteRowFails(c) \/ LoggedOut(c)
    BY <1>18, <2>3 DEF Disconnected, WriteRow, WriteRowFails, LoggedOut
  <2>4. QED BY <1>18, <2>1, <2>2, <2>3 DEF Return
<1>19. ASSUME NEW c \in Callers, Connect(c) \/ StartQRFlow(c) \/ Disconnect(c) \/ Logout(c)
       PROVE  TypeOK' /\ failures' <= mishaps'
  <2> c \in All
    BY DEF All
  <2>1. QED BY <1>19 DEF Connect, Connecting, StartQRFlow, Disconnect, Logout
<1>20. CASE Die
  BY <1>20 DEF Die, NoneRaised, NoReinits, NoWrites, AllIdle
<1>21. CASE RestoreFromDB
  BY <1>21 DEF RestoreFromDB
<1>24. CASE RestoreFails
  BY <1>24 DEF RestoreFails
<1>22. CASE UNCHANGED vars
  BY <1>22 DEF vars, system
<1>23. QED
  BY <1>1, <1>2, <1>3, <1>4, <1>5, <1>6, <1>7, <1>8, <1>9, <1>10, <1>11, <1>12, <1>13, <1>14,
     <1>15, <1>16, <1>17, <1>18, <1>19, <1>20, <1>21, <1>22, <1>24 DEF Next, Step, Handle

\* A logout on the phone is followed by one swap, before anything connects.
LEMMA LogoutStep ==
  ASSUME TypeOK, LogoutInv, [Next]_vars
  PROVE  LogoutInv'
<1> USE LifecycleAssumption DEF TypeOK, client, handlers, counts, Event, Link, Device
<1> USE DEF LogoutInv, LogoutsUnderway, Running, Raise, Take, dispatch, NoneRaised, NoReinits
<1>1. CASE Authenticate \/ Pair \/ QRExpires \/ Drop \/ Reconnect \/ Ban
  BY <1>1 DEF Authenticate, Pair, QRExpires, Drop, Reconnect, Ban, IsConnected
<1>2. CASE Revoke
  BY <1>2 DEF Revoke, IsConnected
<1>3. CASE HandleConnected \/ HandleDisconnected \/ Downgrade \/ HandlePairSuccess \/ HandleBan
  BY <1>3 DEF HandleConnected, HandleDisconnected, Downgrade, HandlePairSuccess, HandleBan
<1>4. CASE HandleLoggedOut
  BY <1>4 DEF HandleLoggedOut
<1>5. CASE ReinitSwap \/ ReinitFails \/ ReinitReport
  BY <1>5 DEF ReinitSwap, ReinitFails, ReinitReport
<1>6. ASSUME NEW s \in Status, Write(s) \/ WriteFails(s) PROVE LogoutInv'
  BY <1>6 DEF Write, WriteFails
<1>7. ASSUME NEW c \in All, Return(c) PROVE LogoutInv'
  BY <1>7 DEF Return, ConnectForQR, Connecting, ConnectSucceeds, ConnectFails, Disconnected,
              WriteRow, WriteRowFails, LoggedOut
<1>8. ASSUME NEW c \in Callers, Connect(c) \/ StartQRFlow(c) \/ Disconnect(c) \/ Logout(c)
      PROVE  LogoutInv'
  BY <1>8 DEF Connect, Connecting, StartQRFlow, Disconnect, Logout
<1>9. CASE Die
  BY <1>9 DEF Die
<1>10. CASE RestoreFromDB
  BY <1>10 DEF RestoreFromDB
<1>13. CASE RestoreFails
  BY <1>13 DEF RestoreFails, Failure
<1>11. CASE UNCHANGED vars
  BY <1>11 DEF vars, system
<1>12. QED
  BY <1>1, <1>2, <1>3, <1>4, <1>5, <1>6, <1>7, <1>8, <1>9, <1>10, <1>11, <1>13 DEF Next, Step, Handle

\* The strengthened invariant holds in every behaviour.
THEOREM InductiveInvariant == Spec => []IInv
<1>1. Init => IInv
  <2> SUFFICES ASSUME Init PROVE IInv
    OBVIOUS
  <2> USE LifecycleAssumption DEF Init, Quiet, NoneRaised, NoReinits, NoWrites, AllIdle, Event
  <2>1. overtaken \in BOOLEAN
    OBVIOUS
  <2>2. TypeOK
    BY <2>1 DEF TypeOK, Status, Link, Device, Stage
  <2>3. failures <= mishaps /\ LogoutInv
    BY DEF LogoutInv, LogoutsUnderway, Running
  <2>4. QED BY <2>2, <2>3 DEF IInv
<1>2. IInv /\ [Next]_vars => IInv'
  BY TypeStep, LogoutStep DEF IInv
<1>3. QED BY <1>1, <1>2, PTL DEF Spec

\* Every variable keeps its type.
THEOREM TypeCorrect == Spec => []TypeOK
<1>1. IInv => TypeOK
  BY DEF IInv
<1>2. QED BY <1>1, InductiveInvariant, PTL

\* However late a reinitClient goroutine runs, the client it replaces has a
\* deleted device and a closed socket: no live session is ever thrown away.
THEOREM ReinitIsSafe == Spec => ReinitReplacesDeadClient
<1>1. IInv /\ [Next]_vars => [reinits'.report > reinits.report => device = "deleted" /\ link = "down"]_vars
  <2> SUFFICES ASSUME IInv, Next, reinits'.report > reinits.report
               PROVE  device = "deleted" /\ link = "down"
    OBVIOUS
  <2> USE DEF IInv, TypeOK, LogoutInv, LogoutsUnderway, handlers
  <2>1. CASE ReinitSwap
    BY <2>1 DEF ReinitSwap, Event
  <2>2. ReinitSwap \/ UNCHANGED reinits.report \/ reinits' = NoReinits
        \/ reinits'.report = reinits.report - 1
    BY DEF Next, Step, Handle, Return, Authenticate, Pair, QRExpires, Drop, Reconnect, Revoke, Ban, Raise,
           HandleConnected, HandleDisconnected, Downgrade, HandleLoggedOut, HandlePairSuccess,
           HandleBan, ReinitFails, ReinitReport, Write, WriteFails, ConnectForQR, Connecting,
           ConnectSucceeds, ConnectFails, Disconnected, WriteRow, WriteRowFails, LoggedOut, Connect,
           StartQRFlow, Disconnect, Logout, Die, RestoreFromDB, RestoreFails
  <2>3. QED BY <2>1, <2>2 DEF NoReinits
<1>2. QED BY <1>1, InductiveInvariant, PTL DEF Spec, ReinitReplacesDeadClient

-----------------------------------------------------------------------------

\* What UpIsRecorded rests on: the event that the socket came up is still to be
\* handled, or the status says so, and the row does or an update of it is under way.
UpIsUnderway ==
  Running /\ link = "up" /\ ~overtaken =>
    \/ raised["Connected"] > 0
    \/ status = "connected" /\ (writes["connected"] > 0 \/ row = "connected")

\* While the socket stays up and no contrary step comes, the record is not undone.
LEMMA RecordStep ==
  ASSUME TypeOK, LogoutInv, UpIsUnderway, Next
  PROVE  UpIsUnderway'
<1> SUFFICES ASSUME Running', link' = "up", ~overtaken'
             PROVE  \/ raised'["Connected"] > 0
                    \/ status' = "connected" /\ (writes'["connected"] > 0 \/ row' = "connected")
  BY DEF UpIsUnderway, Running
<1> USE LifecycleAssumption DEF TypeOK, client, handlers, counts, Event, Status, Link
<1> USE DEF Running, Raise, Take, dispatch, Mishap, Failure
<1>1. CASE Authenticate
  BY <1>1 DEF Authenticate
<1>2. CASE link # "up" /\ ~Authenticate
  BY <1>2 DEF Next, Step, Handle, Return, Pair, QRExpires, Drop, Reconnect, Revoke, Ban,
              HandleConnected, HandleDisconnected, Downgrade, HandleLoggedOut, HandlePairSuccess,
              HandleBan, ReinitSwap, ReinitFails, ReinitReport, Write, WriteFails, ConnectForQR,
              Connecting, ConnectSucceeds, ConnectFails, Disconnected, WriteRow, WriteRowFails,
              LoggedOut, Connect, StartQRFlow, Disconnect, Logout, Die, RestoreFromDB, RestoreFails
<1>3. CASE link = "up" /\ Step
  <2>1. ~overtaken /\ ~Contrary /\ failures' = failures
    BY <1>3 DEF Next
  <2> USE <1>3, <2>1 DEF Contrary
  <2>2. Running
    BY <1>3 DEF LogoutInv
  <2>3. QED
    <3> USE <2>2 DEF UpIsUnderway
    <3>1. CASE Authenticate \/ Pair \/ QRExpires \/ Drop \/ Reconnect \/ Revoke \/ Ban
      BY <3>1 DEF Authenticate, Pair, QRExpires, Drop, Reconnect, Revoke, Ban
    <3>2. CASE HandleConnected \/ HandleDisconnected \/ Downgrade \/ HandleLoggedOut
               \/ HandlePairSuccess \/ HandleBan
      BY <3>2 DEF HandleConnected, HandleDisconnected, Downgrade, HandleLoggedOut,
                  HandlePairSuccess, HandleBan
    <3>3. CASE ReinitSwap \/ ReinitFails \/ ReinitReport
      BY <3>3 DEF ReinitSwap, ReinitFails, ReinitReport
    <3>4. ASSUME NEW s \in Status, Write(s) \/ WriteFails(s)
          PROVE  \/ raised'["Connected"] > 0
                 \/ status' = "connected" /\ (writes'["connected"] > 0 \/ row' = "connected")
      BY <3>4 DEF Write, WriteFails
    <3>5. ASSUME NEW c \in All, Return(c)
          PROVE  \/ raised'["Connected"] > 0
                 \/ status' = "connected" /\ (writes'["connected"] > 0 \/ row' = "connected")
      BY <3>5 DEF Return, ConnectForQR, Connecting, ConnectSucceeds, ConnectFails, Disconnected,
                  WriteRow, WriteRowFails, LoggedOut
    <3>6. ASSUME NEW c \in Callers, Connect(c) \/ StartQRFlow(c) \/ Disconnect(c) \/ Logout(c)
          PROVE  \/ raised'["Connected"] > 0
                 \/ status' = "connected" /\ (writes'["connected"] > 0 \/ row' = "connected")
      BY <3>6 DEF Connect, Connecting, StartQRFlow, Disconnect, Logout
    <3>7. CASE Die \/ RestoreFromDB \/ RestoreFails
      BY <3>7 DEF Die, RestoreFromDB, RestoreFails
    <3>8. QED
      BY <3>1, <3>2, <3>3, <3>4, <3>5, <3>6, <3>7 DEF Step, Handle
<1>4. QED BY <1>1, <1>2, <1>3 DEF Next

\* An instance that is up is recorded as connected once everything under way is
\* done, and only a failure or an update that lands late can undo it: the safety
\* half of ConnectedComesBack.
THEOREM UpGetsRecorded == Spec => []UpIsRecorded
<1>1. Init => UpIsUnderway
  BY DEF Init, UpIsUnderway
<1>2. IInv /\ UpIsUnderway /\ [Next]_vars => UpIsUnderway'
  <2>1. CASE UNCHANGED vars
    BY <2>1 DEF vars, system, client, handlers, UpIsUnderway, Running
  <2>2. QED BY <2>1, RecordStep DEF IInv
<1>3. UpIsUnderway => UpIsRecorded
  BY DEF UpIsUnderway, UpIsRecorded, Quiet, NoneRaised, NoWrites, Event, Status
<1>4. QED BY <1>1, <1>2, <1>3, InductiveInvariant, PTL DEF Spec

-----------------------------------------------------------------------------

\* What ConnectingSettles rests on: while a paired instance says connecting, a call
\* that sets the status is under way, or the socket is being opened, or an event is
\* on its way that says what has become of it.
ConnectingIsPending ==
  Running /\ status = "connecting" /\ device = "paired" =>
    \/ \E c \in All : pc[c] \in {"connecting", "disconnecting"}
    \/ link \in {"open", "retrying"}
    \/ link = "up" /\ raised["Connected"] > 0
    \/ link = "down" /\ (raised["Disconnected"] > 0 \/ downgrading > 0 \/ raised["TemporaryBan"] > 0)

\* No step leaves a paired instance connecting with nobody to end it.
LEMMA ConnectingStep ==
  ASSUME TypeOK, LogoutInv, ConnectingIsPending, [Next]_vars
  PROVE  ConnectingIsPending'
<1> USE LifecycleAssumption DEF TypeOK, client, handlers, counts, Event, Link, Device
<1> USE DEF ConnectingIsPending, Running, Raise, Take, dispatch, IsConnected
<1>1. CASE Authenticate \/ Pair \/ QRExpires \/ Reconnect
  BY <1>1 DEF Authenticate, Pair, QRExpires, Reconnect
<1>2. CASE Drop \/ Revoke \/ Ban
  BY <1>2 DEF Drop, Revoke, Ban
<1>3. CASE HandleConnected \/ Downgrade \/ HandleLoggedOut \/ HandlePairSuccess \/ HandleBan
  BY <1>3 DEF HandleConnected, Downgrade, HandleLoggedOut, HandlePairSuccess, HandleBan
<1>4. CASE HandleDisconnected
  BY <1>4 DEF HandleDisconnected
<1>5. CASE ReinitSwap
  BY <1>5 DEF ReinitSwap, LogoutInv, LogoutsUnderway
<1>6. CASE ReinitFails \/ ReinitReport
  BY <1>6 DEF ReinitFails, ReinitReport
<1>7. ASSUME NEW s \in Status, Write(s) \/ WriteFails(s) PROVE ConnectingIsPending'
  BY <1>7 DEF Write, WriteFails
<1>8. ASSUME NEW c \in All, Return(c) PROVE ConnectingIsPending'
  <2>1. CASE ConnectForQR(c)
    BY <1>8, <2>1 DEF ConnectForQR, Connecting, At
  <2>2. CASE ConnectSucceeds(c) \/ ConnectFails(c)
    BY <1>8, <2>2 DEF ConnectSucceeds, ConnectFails, At
  <2>3. CASE Disconnected(c) \/ LoggedOut(c)
    BY <1>8, <2>3 DEF Disconnected, LoggedOut
  <2>4. CASE WriteRow(c) \/ WriteRowFails(c)
    BY <1>8, <2>4 DEF WriteRow, WriteRowFails, At
  <2>5. QED BY <1>8, <2>1, <2>2, <2>3, <2>4 DEF Return
<1>9. ASSUME NEW c \in Callers, Connect(c) \/ StartQRFlow(c) \/ Disconnect(c) \/ Logout(c)
      PROVE  ConnectingIsPending'
  <2>1. c \in All
    BY DEF All
  <2>2. CASE Connect(c)
    BY <2>1, <2>2 DEF Connect, Requests, Connecting, At
  <2>3. CASE StartQRFlow(c) \/ Logout(c)
    BY <2>1, <2>3 DEF StartQRFlow, Logout
  <2>4. CASE Disconnect(c)
    BY <2>1, <2>4 DEF Disconnect, At
  <2>5. QED BY <1>9, <2>2, <2>3, <2>4
<1>10. CASE Die
  BY <1>10 DEF Die
<1>11. CASE RestoreFromDB
  <2>1. Main \in All
    BY DEF All
  <2>2. QED BY <1>11, <2>1 DEF RestoreFromDB, At
<1>14. CASE RestoreFails
  BY <1>14 DEF RestoreFails
<1>12. CASE UNCHANGED vars
  BY <1>12 DEF vars, system
<1>13. QED
  BY <1>1, <1>2, <1>3, <1>4, <1>5, <1>6, <1>7, <1>8, <1>9, <1>10, <1>11, <1>12, <1>14 DEF Next, Step, Handle

\* A paired instance is never left connecting: there is always a call, a socket or
\* an event that will give it another status.
THEOREM ConnectingIsNeverLeft == Spec => []ConnectingIsPending
<1>1. Init => ConnectingIsPending
  BY DEF Init, ConnectingIsPending
<1>2. IInv /\ ConnectingIsPending /\ [Next]_vars => ConnectingIsPending'
  BY ConnectingStep DEF IInv
<1>3. QED BY <1>1, <1>2, InductiveInvariant, PTL DEF Spec
=============================================================================

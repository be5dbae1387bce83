------------------------------- MODULE Outbox -------------------------------
(***************************************************************************)
(* What a queue of outgoing messages promises its clients, with nothing of *)
(* how it is kept.  A message is accepted, then closed, and stays closed.  *)
(* The dispatcher claims open messages and may transmit what it has        *)
(* claimed.  Each message is transmitted once, plus once for every         *)
(* transmission whose outcome the dispatcher had no chance to write down   *)
(* (an excuse).                                                            *)
(***************************************************************************)
EXTENDS Naturals

CONSTANT Messages  \* the messages clients may ask to be sent

VARIABLES
  phase,    \* "absent", "open" or "closed", for each message
  claimed,  \* the messages the dispatcher holds and may transmit
  copies,   \* how many times each message has been transmitted
  excuses   \* how many transmissions of each message were never written down

vars == <<phase, claimed, copies, excuses>>

Init ==
  /\ phase = [m \in Messages |-> "absent"]
  /\ claimed = {}
  /\ copies = [m \in Messages |-> 0]
  /\ excuses = [m \in Messages |-> 0]

Accept(m) ==
  /\ phase[m] = "absent"
  /\ phase' = [phase EXCEPT ![m] = "open"]
  /\ UNCHANGED <<claimed, copies, excuses>>

Claim(S) ==
  /\ \A m \in S : phase[m] = "open"
  /\ claimed' = claimed \cup S
  /\ UNCHANGED <<phase, copies, excuses>>

Transmit(m) ==
  /\ m \in claimed
  /\ copies[m] <= excuses[m]
  /\ claimed' = claimed \ {m}
  /\ copies' = [copies EXCEPT ![m] = @ + 1]
  /\ UNCHANGED <<phase, excuses>>

Close(m) ==
  /\ phase[m] = "open"
  /\ phase' = [phase EXCEPT ![m] = "closed"]
  /\ UNCHANGED <<claimed, copies, excuses>>

\* The dispatcher lets go of S and leaves the transmissions of E unrecorded.
Abandon(S, E) ==
  /\ \A m \in E : copies[m] > excuses[m]
  /\ claimed' = claimed \ S
  /\ excuses' = [m \in Messages |-> IF m \in E THEN excuses[m] + 1 ELSE excuses[m]]
  /\ UNCHANGED <<phase, copies>>

Next ==
  \/ \E m \in Messages : Accept(m) \/ Transmit(m) \/ Close(m)
  \/ \E S \in SUBSET Messages : Claim(S)
  \/ \E S, E \in SUBSET Messages : Abandon(S, E)

Spec == Init /\ [][Next]_vars
=============================================================================

-------------------------- MODULE MCChatwootBridge --------------------------
(* ChatwootBridge with two chats: a message that comes both live and in a      *)
(* history payload, and one of the other chat in another payload.  The two     *)
(* accounts are alike, so the settings name the first at the start.            *)
EXTENDS ChatwootBridge
CONSTANTS m1, m2, c1, c2, a1

MCChatOf == [m \in Messages |-> IF m = m1 THEN c1 ELSE c2]

\* The search for the phone of c1 finds the contact of c2 as well.
MCHits == {<<c, c>> : c \in Chats} \cup {<<c1, c2>>}

MCInit == Init /\ account = a1

MCSpec == MCInit /\ [][Next]_vars /\ Fairness
=============================================================================

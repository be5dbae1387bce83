------------------------- MODULE ChatwootBridgeProofs -------------------------
(***************************************************************************)
(* Proofs about ChatwootBridge for any messages, chats, replays, replies,  *)
(* accounts and any number of faults: its type, what a replay may delete,  *)
(* that nothing but the search crosses chats while the account stays, and  *)
(* that an event is in one place until it is settled.                      *)
(***************************************************************************)
EXTENDS ChatwootBridge, TLAPS

\* Who works on a message knows which; a conversation is of a contact.
ShapeInv ==
  /\ \A k \in Callers : call[k] # None /\ call[k].step # "next" => call[k].msg \in Messages
  /\ \A a \in Accounts : \A n \in DOMAIN conversations[a] :
       conversations[a][n] \in DOMAIN contacts[a]

\* What a caller has still to do.
Pending(k) == call[k].todo \cup (IF call[k].step = "next" THEN {} ELSE {call[k].msg})

\* Whatever is in the buffer during a replay is posted, excused, or yet to be tried.
ReplayInv ==
  \A k \in Syncs : call[k] # None => buffer \subseteq posted \cup excused \cup Pending(k)

\* Conversation n of account a is with chat c.
IsOf(a, n, c) == n \in DOMAIN conversations[a] /\ Owner(a, n) = c

\* A reply is to the chat the agent saw.
ReplyInv == \A r \in Replies : reply[r] # None => IsOf(reply[r].account, reply[r].conv, reply[r].chat)

\* Chat c may use what is of chat d: it is its own, or the search took d for c.
Fits(c, d) == <<c, d>> \in Hits /\ (c = d \/ {c, d} \subseteq tangled)

\* Contact n, and conversation n, of account a will do for chat c.
Knows(a, n, c) == n \in DOMAIN contacts[a] /\ Fits(c, contacts[a][n])
Reaches(a, n, c) == n \in DOMAIN conversations[a] /\ Fits(c, Owner(a, n))

\* A caller has found a contact, and then a conversation, for the message in hand.
Found(k) ==
  /\ call[k].account = account
  /\ call[k].step \in {"mapContact", "conversation", "find", "open"} =>
       Knows(account, call[k].contact, ChatInHand(k))
  /\ call[k].step \in {"mapConversation", "post"} => Reaches(account, call[k].conv, ChatInHand(k))

\* While the account stays, every id will do for the chat it is mapped to.
OwnInv ==
  ~moved =>
    /\ account \in Accounts
    /\ \A c \in Chats : contactID[c] # 0 => Knows(account, contactID[c], c)
    /\ \A c \in Chats : conversationID[c] # 0 => Reaches(account, conversationID[c], c)
    /\ \A k \in Callers : call[k] # None => Found(k)

IInv ==
  /\ TypeOK /\ ShapeInv
  /\ ReplayInv /\ LossIsExcused
  /\ ReplyInv /\ OwnInv /\ NothingStraysUnlessMoved

-----------------------------------------------------------------------------

\* The fields of a call.
LEMMA CallType ==
  ASSUME TypeOK, NEW k \in Callers, call[k] # None
  PROVE  /\ call[k] \in Call
         /\ call[k].account \in Accounts /\ call[k].todo \subseteq Messages
         /\ call[k].msg \in Messages \cup {None}
         /\ call[k].contact \in Nat /\ call[k].conv \in Nat
BY DEF TypeOK, Call

\* A call at its beginning is one.
LEMMA NewCallType ==
  ASSUME NEW a \in Accounts, NEW S \in SUBSET Messages
  PROVE  NewCall(a, S) \in Call
BY DEF NewCall, Call, Step

\* A caller takes a message, and asks for its contact.
LEMMA GetContactMoves ==
  ASSUME TypeOK, NEW k \in Callers, NEW m \in Messages, GetContactID(k, m)
  PROVE  /\ call[k] # None /\ call[k].step = "next" /\ m \in call[k].todo
         /\ \E new \in Call :
              /\ call' = [call EXCEPT ![k] = new]
              /\ new.account = call[k].account /\ new.msg = m /\ new.todo = call[k].todo \ {m}
              /\ IF new.contact # 0 THEN new.contact = contactID[ChatOf[m]] /\ new.step = "conversation"
                 ELSE new.step = "search"
<1>1. call[k] \in Call /\ call[k] # None /\ call[k].step = "next" /\ m \in call[k].todo
  BY CallType DEF GetContactID, At
<1>2. PICK id \in {contactID[ChatOf[m]], 0} :
        call' = [call EXCEPT ![k].todo = @ \ {m}, ![k].msg = m, ![k].contact = id,
                             ![k].step = IF id # 0 THEN "conversation" ELSE "search"]
  BY DEF GetContactID
<1> DEFINE new == [call[k] EXCEPT !.todo = @ \ {m}, !.msg = m, !.contact = id,
                          !.step = IF id # 0 THEN "conversation" ELSE "search"]
<1>3. id \in Nat
  BY BridgeAssumption DEF TypeOK
<1>4. call' = [call EXCEPT ![k] = new]
  BY <1>2 DEF TypeOK
<1>5. new \in Call
  BY <1>1, <1>3 DEF Call, Step
<1>6. /\ new.account = call[k].account /\ new.msg = m /\ new.todo = call[k].todo \ {m}
      /\ new.contact = id /\ new.step = IF id # 0 THEN "conversation" ELSE "search"
  BY <1>1 DEF Call
<1>7. IF new.contact # 0 THEN new.contact = contactID[ChatOf[m]] /\ new.step = "conversation"
      ELSE new.step = "search"
  BY <1>2, <1>6
<1>8. QED BY <1>1, <1>4, <1>5, <1>6, <1>7

\* A caller asks for its conversation.
LEMMA GetConversationMoves ==
  ASSUME TypeOK, ShapeInv, NEW k \in Callers, GetConversationID(k)
  PROVE  /\ call[k] # None /\ call[k].step = "conversation"
         /\ \E new \in Call :
              /\ call' = [call EXCEPT ![k] = new]
              /\ new.account = call[k].account /\ new.msg = call[k].msg /\ new.todo = call[k].todo
              /\ new.contact = call[k].contact
              /\ IF new.conv # 0 THEN new.conv = conversationID[ChatInHand(k)] /\ new.step = "post"
                 ELSE new.step = "find"
<1>1. call[k] \in Call /\ call[k] # None /\ call[k].step = "conversation"
  BY CallType DEF GetConversationID, At
<1>2. PICK id \in {conversationID[ChatInHand(k)], 0} :
        call' = [call EXCEPT ![k].conv = id, ![k].step = IF id # 0 THEN "post" ELSE "find"]
  BY DEF GetConversationID
<1> DEFINE new == [call[k] EXCEPT !.conv = id, !.step = IF id # 0 THEN "post" ELSE "find"]
<1>3. id \in Nat
  BY <1>1, BridgeAssumption DEF TypeOK, ShapeInv, ChatInHand
<1>4. call' = [call EXCEPT ![k] = new]
  BY <1>2 DEF TypeOK
<1>5. new \in Call
  BY <1>1, <1>3 DEF Call, Step
<1>6. /\ new.account = call[k].account /\ new.msg = call[k].msg /\ new.todo = call[k].todo
      /\ new.contact = call[k].contact
      /\ new.conv = id /\ new.step = IF id # 0 THEN "post" ELSE "find"
  BY <1>1 DEF Call
<1>7. IF new.conv # 0 THEN new.conv = conversationID[ChatInHand(k)] /\ new.step = "post"
      ELSE new.step = "find"
  BY <1>2, <1>6
<1>8. QED BY <1>1, <1>4, <1>5, <1>6, <1>7

\* A caller holds a contact.
LEMMA HoldContactMoves ==
  ASSUME TypeOK, NEW k \in Callers, call[k] # None, NEW id \in Nat, HoldContact(k, id)
  PROVE  \E new \in Call :
           /\ call' = [call EXCEPT ![k] = new]
           /\ new.account = call[k].account /\ new.msg = call[k].msg /\ new.todo = call[k].todo
           /\ new.contact = id /\ new.step = "mapContact"
<1> DEFINE new == [call[k] EXCEPT !.contact = id, !.step = "mapContact"]
<1>1. call[k] \in Call
  BY CallType
<1>2. call' = [call EXCEPT ![k] = new] /\ new \in Call
  BY <1>1 DEF HoldContact, TypeOK, Call, Step
<1>3. /\ new.account = call[k].account /\ new.msg = call[k].msg /\ new.todo = call[k].todo
      /\ new.contact = id /\ new.step = "mapContact"
  BY <1>1 DEF Call
<1>4. QED BY <1>2, <1>3

\* A caller holds a conversation.
LEMMA HoldConversationMoves ==
  ASSUME TypeOK, NEW k \in Callers, call[k] # None, NEW id \in Nat, HoldConversation(k, id)
  PROVE  \E new \in Call :
           /\ call' = [call EXCEPT ![k] = new]
           /\ new.account = call[k].account /\ new.msg = call[k].msg /\ new.todo = call[k].todo
           /\ new.conv = id /\ new.step = "mapConversation"
<1> DEFINE new == [call[k] EXCEPT !.conv = id, !.step = "mapConversation"]
<1>1. call[k] \in Call
  BY CallType
<1>2. call' = [call EXCEPT ![k] = new] /\ new \in Call
  BY <1>1 DEF HoldConversation, TypeOK, Call, Step
<1>3. /\ new.account = call[k].account /\ new.msg = call[k].msg /\ new.todo = call[k].todo
      /\ new.conv = id /\ new.step = "mapConversation"
  BY <1>1 DEF Call
<1>4. QED BY <1>2, <1>3

\* A caller goes on with what it holds.
LEMMA StepMoves ==
  ASSUME TypeOK, NEW k \in Callers, call[k] # None, NEW step \in Step,
         GoTo(k, step)
  PROVE  \E new \in Call :
           /\ call' = [call EXCEPT ![k] = new]
           /\ new.account = call[k].account /\ new.msg = call[k].msg /\ new.todo = call[k].todo
           /\ new.contact = call[k].contact /\ new.conv = call[k].conv /\ new.step = step
<1> DEFINE new == [call[k] EXCEPT !.step = step]
<1>1. call[k] \in Call
  BY CallType
<1>2. call' = [call EXCEPT ![k] = new] /\ new \in Call
  BY <1>1 DEF GoTo, TypeOK, Call
<1>3. /\ new.account = call[k].account /\ new.msg = call[k].msg /\ new.todo = call[k].todo
      /\ new.contact = call[k].contact /\ new.conv = call[k].conv /\ new.step = step
  BY <1>1 DEF Call
<1>4. QED BY <1>2, <1>3

\* A caller is through with a message.
LEMMA LeaveType ==
  ASSUME TypeOK, NEW k \in Callers, call[k] # None, Leave(k)
  PROVE  /\ call' \in [Callers -> Call \cup {None}]
         /\ status' \in [Event -> {"unraised", "open", "settled"}]
<1>1. NewCall(call[k].account, call[k].todo) \in Call
  BY CallType, NewCallType
<1>2. QED BY <1>1 DEF TypeOK, Leave

\* Ids are numbers, owners are chats.
LEMMA IdType ==
  ASSUME TypeOK, ShapeInv, NEW a \in Accounts
  PROVE  /\ \A n \in DOMAIN contacts[a] : n \in Nat /\ n # 0 /\ contacts[a][n] \in Chats
         /\ \A n \in DOMAIN conversations[a] : n \in Nat /\ n # 0 /\ Owner(a, n) \in Chats
<1>1. contacts[a] \in Seq(Chats) /\ conversations[a] \in Seq(Nat)
  BY DEF TypeOK
<1>2. \A n \in DOMAIN contacts[a] : n \in Nat /\ n # 0 /\ contacts[a][n] \in Chats
  BY <1>1
<1>3. \A n \in DOMAIN conversations[a] : n \in Nat /\ n # 0
  BY <1>1
<1>4. QED BY <1>2, <1>3 DEF ShapeInv, Owner

\* The message in hand is of a chat.
LEMMA HandType ==
  ASSUME TypeOK, ShapeInv, NEW k \in Callers, call[k] # None, call[k].step # "next"
  PROVE  call[k].msg \in Messages /\ ChatInHand(k) \in Chats
BY BridgeAssumption DEF ShapeInv, ChatInHand

\* What a search finds are ids.
LEMMA FoundType ==
  ASSUME TypeOK, ShapeInv, NEW k \in Callers, call[k] # None
  PROVE  /\ \A id \in HitsOf(call[k].account, ChatInHand(k)) : id \in Nat
         /\ \A id \in ConversationsOf(call[k].account, call[k].contact) : id \in Nat
         /\ Len(contacts[call[k].account]) + 1 \in Nat /\ Len(conversations[call[k].account]) + 1 \in Nat
<1>1. PICK a \in Accounts : a = call[k].account
  BY CallType
<1>2. contacts[a] \in Seq(Chats) /\ conversations[a] \in Seq(Nat)
  BY DEF TypeOK
<1>3. Len(contacts[a]) + 1 \in Nat /\ Len(conversations[a]) + 1 \in Nat
  BY <1>2
<1>4. QED BY <1>1, <1>3, IdType DEF HitsOf, ConversationsOf

\* The steps of a caller on the message in hand.
Works(k) ==
  \/ \E m \in Messages : GetContactID(k, m)
  \/ SearchContact(k) \/ CreateContact(k) \/ SaveContactID(k)
  \/ GetConversationID(k) \/ FindConversation(k) \/ CreateConversation(k) \/ SaveConversationID(k)

\* What they make of its call: the account stays, and after the first the message.
LEMMA WorkMoves ==
  ASSUME TypeOK, ShapeInv, NEW k \in Callers, Works(k)
  PROVE  /\ call[k] # None
         /\ \E new \in Call :
              /\ call' = [call EXCEPT ![k] = new]
              /\ new.account = call[k].account /\ new.step # "next"
              /\ IF call[k].step = "next"
                 THEN new.msg \in call[k].todo /\ new.todo = call[k].todo \ {new.msg}
                 ELSE new.msg = call[k].msg /\ new.todo = call[k].todo
<1>1. CASE \E m \in Messages : GetContactID(k, m)
  <2>1. PICK m \in Messages : GetContactID(k, m)
    BY <1>1
  <2>2. PICK new \in Call :
          /\ call' = [call EXCEPT ![k] = new]
          /\ new.account = call[k].account /\ new.msg = m /\ new.todo = call[k].todo \ {m}
          /\ new.step \in {"conversation", "search"}
    BY <2>1, GetContactMoves
  <2>3. QED BY <2>1, <2>2, GetContactMoves
<1>2. CASE GetConversationID(k)
  <2>1. PICK new \in Call :
          /\ call' = [call EXCEPT ![k] = new]
          /\ new.account = call[k].account /\ new.msg = call[k].msg /\ new.todo = call[k].todo
          /\ new.step \in {"post", "find"}
    BY <1>2, GetConversationMoves
  <2>2. QED BY <1>2, <2>1, GetConversationMoves
<1>3. CASE \/ SearchContact(k) \/ CreateContact(k) \/ SaveContactID(k)
           \/ FindConversation(k) \/ CreateConversation(k) \/ SaveConversationID(k)
  <2>1. call[k] # None /\ call[k].step # "next"
    BY <1>3 DEF SearchContact, CreateContact, SaveContactID, FindConversation, CreateConversation,
                SaveConversationID, At
  <2>2. \/ \E id \in Nat : HoldContact(k, id) \/ HoldConversation(k, id)
        \/ \E step \in Step \ {"next"} : GoTo(k, step)
    BY <1>3, <2>1, FoundType DEF SearchContact, CreateContact, SaveContactID, FindConversation,
         CreateConversation, SaveConversationID, Step
  <2>3. \E new \in Call :
          /\ call' = [call EXCEPT ![k] = new]
          /\ new.account = call[k].account /\ new.msg = call[k].msg /\ new.todo = call[k].todo
          /\ new.step # "next"
    <3>1. CASE \E id \in Nat : HoldContact(k, id)
      BY <2>1, <3>1, HoldContactMoves
    <3>2. CASE \E id \in Nat : HoldConversation(k, id)
      BY <2>1, <3>2, HoldConversationMoves
    <3>3. CASE \E step \in Step \ {"next"} : GoTo(k, step)
      <4>1. PICK step \in Step \ {"next"} : GoTo(k, step)
        BY <3>3
      <4>2. PICK new \in Call :
              /\ call' = [call EXCEPT ![k] = new]
              /\ new.account = call[k].account /\ new.msg = call[k].msg /\ new.todo = call[k].todo
              /\ new.step = step
        BY <2>1, <4>1, StepMoves
      <4>3. QED BY <4>1, <4>2
    <3>4. QED BY <2>2, <3>1, <3>2, <3>3
  <2>4. QED BY <2>1, <2>3
<1>4. QED BY <1>1, <1>2, <1>3 DEF Works

\* An event carries messages.
LEMMA EventType ==
  ASSUME NEW e \in Event
  PROVE  e.msgs \in SUBSET Messages
<1>1. CASE e \in [type : {"MessageReceived"}, msgs : {{m} : m \in Live}]
  <2>1. e.msgs \in {{m} : m \in Live}
    BY <1>1
  <2>2. QED BY <2>1, BridgeAssumption
<1>2. CASE e \in [type : {"HistorySync"}, msgs : Batches]
  BY <1>2, BridgeAssumption
<1>3. QED BY <1>1, <1>2 DEF Event

\* A fault is counted within its bound.
LEMMA FaultType ==
  ASSUME TypeOK, UNCHANGED faults \/ Fault
  PROVE  faults' \in 0 .. MaxFaults
BY BridgeAssumption DEF TypeOK, Fault

\* Every variable keeps its type.
LEMMA TypeStep ==
  ASSUME TypeOK, ShapeInv, [Next]_vars
  PROVE  TypeOK'
<1> USE BridgeAssumption, NoValueAssumption
<1>1. ASSUME NEW e \in Event, Enqueue(e) PROVE TypeOK'
  <2>1. eventCh' \in Seq(Event) /\ Len(eventCh') <= Capacity
    <3>1. eventCh \in Seq(Event) /\ Len(eventCh) \in Nat /\ Len(eventCh) <= Capacity
      BY DEF TypeOK
    <3>2. CASE eventCh' = Append(eventCh, e) /\ Len(eventCh) < Capacity
      <4>1. eventCh' \in Seq(Event) /\ Len(eventCh') = Len(eventCh) + 1
        BY <3>1, <3>2
      <4>2. QED BY <3>1, <3>2, <4>1
    <3>3. QED BY <1>1, <3>1, <3>2 DEF Enqueue
  <2>2. QED BY <1>1, <2>1 DEF TypeOK, Enqueue, mappings, chatwoot, outcome, bounds
<1>2. ASSUME NEW type, Take(type)
      PROVE  eventCh' \in Seq(Event) /\ Len(eventCh') <= Capacity /\ Head(eventCh) \in Event
  BY <1>2 DEF TypeOK, Take
<1>3. CASE BufferHistory
  <2>1. Head(eventCh).msgs \subseteq Messages
    BY <1>2, <1>3, EventType DEF BufferHistory
  <2>2. buffer' \subseteq Messages /\ excused' \subseteq Messages
    BY <1>3, <2>1 DEF TypeOK, BufferHistory, SaveHistoryMessages
  <2>3. QED BY <1>2, <1>3, <2>2 DEF TypeOK, BufferHistory, mappings, chatwoot, bounds
<1>4. CASE SyncInbound
  <2>1. Head(eventCh).msgs \subseteq Messages
    BY <1>2, <1>4, EventType DEF SyncInbound
  <2>2. Configured => NewCall(account, Head(eventCh).msgs) \in Call
    BY <2>1, NewCallType DEF Configured, TypeOK
  <2>3. call' \in [Callers -> Call \cup {None}]
    BY <1>4, <2>2 DEF TypeOK, SyncInbound, Callers
  <2>5. status' \in [Event -> {"unraised", "open", "settled"}]
    BY <1>4 DEF TypeOK, SyncInbound
  <2>4. QED BY <1>2, <1>4, <2>3, <2>5 DEF TypeOK, SyncInbound, mappings, chatwoot, outcome, bounds
<1>5. CASE EventFails
  BY <1>2, <1>5 DEF TypeOK, EventFails, Fault, mappings, chatwoot, outcome
<1>6. ASSUME NEW k \in Callers, Works(k) PROVE TypeOK'
  <2>0. PICK new \in Call : call' = [call EXCEPT ![k] = new]
    BY <1>6, WorkMoves
  <2>1. call[k] # None /\ call[k] \in Call /\ call' \in [Callers -> Call \cup {None}]
    BY <1>6, <2>0, WorkMoves, CallType DEF TypeOK
  <2>2. call[k].step # "next" => ChatInHand(k) \in Chats
    BY <2>1, HandType
  <2>3. /\ call[k].account \in Accounts /\ call[k].contact \in Nat /\ call[k].conv \in Nat
    BY <2>1, CallType
  <2>4. faults' \in 0 .. MaxFaults
    <3>1. UNCHANGED faults \/ Fault
      BY <1>6 DEF Works, GetContactID, SearchContact, CreateContact, SaveContactID, GetConversationID,
                  FindConversation, CreateConversation, SaveConversationID, bounds
    <3>2. QED BY <3>1, FaultType
  <2>5. tangled' \subseteq Chats
    <3>1. CASE SearchContact(k)
      <4>1. ChatInHand(k) \in Chats /\ \A id \in HitsOf(call[k].account, ChatInHand(k)) :
              contacts[call[k].account][id] \in Chats
        BY <2>1, <2>2, <2>3, <3>1, IdType DEF SearchContact, At, HitsOf
      <4>2. \/ tangled' = tangled
            \/ \E id \in HitsOf(call[k].account, ChatInHand(k)) :
                 tangled' = tangled \cup {ChatInHand(k), contacts[call[k].account][id]}
        BY <3>1 DEF SearchContact
      <4>3. CASE \E id \in HitsOf(call[k].account, ChatInHand(k)) :
                 tangled' = tangled \cup {ChatInHand(k), contacts[call[k].account][id]}
        <5>1. PICK id \in HitsOf(call[k].account, ChatInHand(k)) :
                tangled' = tangled \cup {ChatInHand(k), contacts[call[k].account][id]}
          BY <4>3
        <5>2. PICK d \in Chats : d = contacts[call[k].account][id]
          BY <4>1
        <5>3. QED BY <4>1, <5>1, <5>2 DEF TypeOK
      <4>4. QED BY <4>2, <4>3 DEF TypeOK
    <3>2. CASE CreateContact(k) \/ CreateConversation(k)
      BY <2>2, <3>2 DEF CreateContact, CreateConversation, At, TypeOK
    <3>3. QED BY <1>6, <3>1, <3>2 DEF Works, GetContactID, SaveContactID, GetConversationID,
                 FindConversation, SaveConversationID, TypeOK
  <2>6. contactID' \in [Chats -> Nat] /\ conversationID' \in [Chats -> Nat]
    <3>1. CASE SaveContactID(k)
      <4>1. contactID' = [contactID EXCEPT ![ChatInHand(k)] = call[k].contact] \/ UNCHANGED contactID
        BY <3>1 DEF SaveContactID
      <4>2. QED BY <2>3, <3>1, <4>1 DEF SaveContactID, TypeOK
    <3>2. CASE SaveConversationID(k)
      <4>1. conversationID' = [conversationID EXCEPT ![ChatInHand(k)] = call[k].conv] \/ UNCHANGED conversationID
        BY <3>2 DEF SaveConversationID
      <4>2. QED BY <2>3, <3>2, <4>1 DEF SaveConversationID, TypeOK
    <3>3. QED BY <1>6, <3>1, <3>2 DEF Works, GetContactID, SearchContact, CreateContact, GetConversationID,
                 FindConversation, CreateConversation, TypeOK, mappings
  <2>7. contacts' \in [Accounts -> Seq(Chats)] /\ conversations' \in [Accounts -> Seq(Nat)]
    <3>1. CASE CreateContact(k)
      BY <2>2, <2>3, <3>1 DEF CreateContact, At, TypeOK
    <3>2. CASE CreateConversation(k)
      BY <2>3, <3>2 DEF CreateConversation, TypeOK
    <3>3. QED BY <1>6, <3>1, <3>2 DEF Works, GetContactID, SearchContact, SaveContactID, GetConversationID,
                 FindConversation, SaveConversationID, TypeOK, chatwoot
  <2>8. UNCHANGED <<account, events, buffer, reply, outcome, moved>>
    BY <1>6 DEF Works, GetContactID, SearchContact, CreateContact, SaveContactID, GetConversationID,
                FindConversation, CreateConversation, SaveConversationID, bounds
  <2>9. QED BY <2>1, <2>4, <2>5, <2>6, <2>7, <2>8 DEF TypeOK, events, outcome
<1>14. ASSUME NEW k \in Callers, PostIncomingMessage(k) PROVE TypeOK'
  <2>1. call[k] # None /\ call[k].msg \in Messages
    BY <1>14, HandType DEF PostIncomingMessage, Arrive, At
  <2>2. posted' \subseteq Messages /\ strays' \subseteq Messages
    BY <1>14, <2>1 DEF TypeOK, PostIncomingMessage, Arrive
  <2>3. call' \in [Callers -> Call \cup {None}] /\ status' \in [Event -> {"unraised", "open", "settled"}]
    BY <1>14, <2>1, LeaveType DEF PostIncomingMessage
  <2>4. QED BY <1>14, <2>2, <2>3 DEF TypeOK, PostIncomingMessage, mappings, chatwoot, bounds
<1>15. ASSUME NEW k \in Callers, GiveUp(k), call[k] # None, call[k].step # "next"
       PROVE  /\ call' \in [Callers -> Call \cup {None}]
              /\ status' \in [Event -> {"unraised", "open", "settled"}] /\ excused' \subseteq Messages
  BY <1>15, LeaveType, HandType DEF TypeOK, GiveUp
<1>16. ASSUME NEW k \in Callers, Refused(k) PROVE TypeOK'
  BY <1>15, <1>16 DEF TypeOK, Refused, At, mappings, chatwoot, bounds
<1>17. ASSUME NEW k \in Callers, NoAnswer(k) PROVE TypeOK'
  <2>1. /\ call[k] # None /\ call[k].step # "next" /\ call[k].account \in Accounts /\ call[k].contact \in Nat
        /\ call[k].msg \in Messages /\ ChatInHand(k) \in Chats
    BY <1>17, HandType, CallType DEF NoAnswer, At
  <2>2. /\ contacts' \in [Accounts -> Seq(Chats)] /\ conversations' \in [Accounts -> Seq(Nat)]
        /\ posted' \subseteq Messages /\ strays' \subseteq Messages
    <3>1. CASE UNCHANGED <<chatwoot, posted, strays>>
      BY <3>1 DEF TypeOK, chatwoot
    <3>2. CASE contacts' = [contacts EXCEPT ![call[k].account] = Append(@, ChatInHand(k))]
               /\ UNCHANGED <<conversations, posted, strays>>
      BY <2>1, <3>2 DEF TypeOK
    <3>3. CASE conversations' = [conversations EXCEPT ![call[k].account] = Append(@, call[k].contact)]
               /\ UNCHANGED <<contacts, posted, strays>>
      BY <2>1, <3>3 DEF TypeOK
    <3>4. CASE Arrive(k) /\ UNCHANGED chatwoot
      BY <2>1, <3>4 DEF TypeOK, Arrive, chatwoot
    <3>5. QED BY <1>17, <3>1, <3>2, <3>3, <3>4 DEF NoAnswer
  <2>3. QED BY <1>15, <1>17, <2>1, <2>2, FaultType DEF TypeOK, NoAnswer, mappings
<1>18. ASSUME NEW k \in Callers, Abort(k) PROVE TypeOK'
  <2>1. call' \in [Callers -> Call \cup {None}] /\ status' \in [Event -> {"unraised", "open", "settled"}]
    BY <1>18, LeaveType DEF TypeOK, Abort
  <2>2. QED BY <1>18, <2>1 DEF TypeOK, Abort, Fault, mappings, chatwoot, outcome
<1>19. ASSUME NEW k \in Syncs, LoadBuffer(k) PROVE TypeOK'
  <2>1. NewCall(account, buffer) \in Call
    BY <1>19, NewCallType DEF TypeOK, LoadBuffer, Configured
  <2>2. QED BY <1>19, <2>1 DEF TypeOK, LoadBuffer, events, mappings, chatwoot, outcome, bounds
<1>20. ASSUME NEW k \in Syncs, DeleteBuffer(k) PROVE TypeOK'
  BY <1>20 DEF TypeOK, DeleteBuffer, DeleteHistoryMessages, events, mappings, chatwoot, bounds
<1>21. ASSUME NEW r \in Replies, AgentReplies(r) PROVE TypeOK'
  <2>0. PICK a \in Accounts : \E n \in DOMAIN conversations[a] :
          reply' = [reply EXCEPT ![r] = [account |-> a, conv |-> n, chat |-> Owner(a, n),
                                         to |-> None, step |-> "received"]]
    BY <1>21 DEF AgentReplies
  <2>1. PICK n \in DOMAIN conversations[a] :
          reply' = [reply EXCEPT ![r] = [account |-> a, conv |-> n, chat |-> Owner(a, n),
                                         to |-> None, step |-> "received"]]
    BY <2>0
  <2>2. [account |-> a, conv |-> n, chat |-> Owner(a, n), to |-> None, step |-> "received"] \in Reply
    BY IdType DEF Reply
  <2>3. reply' \in [Replies -> Reply \cup {None}]
    BY <2>1, <2>2 DEF TypeOK
  <2>4. QED BY <1>21, <2>3 DEF TypeOK, AgentReplies, events, mappings, chatwoot, outcome, bounds
<1>22. ASSUME NEW r \in Replies, HandleWebhook(r) PROVE TypeOK'
  <2>1. reply[r] \in Reply
    BY <1>22 DEF TypeOK, HandleWebhook, ReplyAt
  <2>2. \A c \in Chats : [reply[r] EXCEPT !.to = c, !.step = "known"] \in Reply
    BY <2>1 DEF Reply
  <2>3. [reply[r] EXCEPT !.step = "dropped"] \in Reply
    BY <2>1 DEF Reply
  <2>4. reply' \in [Replies -> Reply \cup {None}]
    <3>1. ASSUME NEW c \in Chats, reply' = [reply EXCEPT ![r].to = c, ![r].step = "known"]
          PROVE  reply' \in [Replies -> Reply \cup {None}]
      <4>1. reply' = [reply EXCEPT ![r] = [reply[r] EXCEPT !.to = c, !.step = "known"]]
        BY <3>1 DEF TypeOK
      <4>2. QED BY <2>2, <4>1 DEF TypeOK
    <3>2. CASE reply' = [reply EXCEPT ![r].step = "dropped"]
      BY <2>3, <3>2 DEF TypeOK
    <3>3. QED BY <1>22, <3>1, <3>2 DEF HandleWebhook, ChatsOfConversation
  <2>5. UNCHANGED <<account, events, mappings, buffer, call, chatwoot, outcome, tangled, bounds>>
    BY <1>22 DEF HandleWebhook
  <2>6. QED BY <2>4, <2>5 DEF TypeOK, events, mappings, chatwoot, outcome, bounds
<1>23. ASSUME NEW r \in Replies, ForwardReply(r) \/ ReplyFails(r) PROVE TypeOK'
  <2>1. reply[r] \in Reply
    BY <1>23 DEF TypeOK, ForwardReply, ReplyFails, ReplyAt
  <2>2. \A step \in {"done", "failed"} : [reply[r] EXCEPT !.step = step] \in Reply
    BY <2>1 DEF Reply
  <2>3. reply' \in [Replies -> Reply \cup {None}]
    BY <1>23, <2>2 DEF TypeOK, ForwardReply, ReplyFails
  <2>4. QED BY <1>23, <2>3 DEF TypeOK, ForwardReply, ReplyFails, Fault, events, mappings, chatwoot, outcome, bounds
<1>24. ASSUME NEW a \in Accounts \cup {None}, Reconfigure(a) PROVE TypeOK'
  BY <1>24 DEF TypeOK, Reconfigure, Fault, events, mappings, chatwoot, outcome
<1>25. CASE Restart
  <2>1. \A r \in Replies : reply[r] # None => [reply[r] EXCEPT !.step = "failed"] \in Reply
    <3>1. SUFFICES ASSUME NEW r \in Replies, reply[r] # None
                   PROVE  [reply[r] EXCEPT !.step = "failed"] \in Reply
      OBVIOUS
    <3>2. reply[r] \in Reply
      BY <3>1 DEF TypeOK
    <3>3. QED BY <3>2 DEF Reply
  <2>2. reply' \in [Replies -> Reply \cup {None}]
    <3>1. \A r \in Replies :
            (IF \E step \in {"received", "known"} : ReplyAt(r, step)
             THEN [reply[r] EXCEPT !.step = "failed"] ELSE reply[r]) \in Reply \cup {None}
      BY <2>1 DEF TypeOK, ReplyAt
    <3>2. QED BY <1>25, <3>1 DEF Restart
  <2>3. eventCh' \in Seq(Event) /\ Len(eventCh') <= Capacity
    BY <1>25 DEF Restart
  <2>4. status' \in [Event -> {"unraised", "open", "settled"}]
    BY <1>25 DEF Restart, TypeOK
  <2>5. QED BY <1>25, <2>2, <2>3, <2>4 DEF TypeOK, Restart, Fault, mappings, chatwoot, outcome
<1>26. CASE UNCHANGED vars
  BY <1>26 DEF TypeOK, vars, events, mappings, chatwoot, outcome, bounds
<1>27. QED
  BY <1>1, <1>3, <1>4, <1>5, <1>6, <1>14, <1>16, <1>17, <1>18,
     <1>19, <1>20, <1>21, <1>22, <1>23, <1>24, <1>25, <1>26
     DEF Next, Handle, Works, Forward

-----------------------------------------------------------------------------

\* Chatwoot keeps what it has, and gets one contact or one conversation at a time.
LEMMA ChatwootMoves ==
  ASSUME TypeOK, ShapeInv, [Next]_vars
  PROVE  \/ UNCHANGED chatwoot
         \/ \E a \in Accounts, c \in Chats :
              contacts' = [contacts EXCEPT ![a] = Append(@, c)] /\ UNCHANGED conversations
         \/ \E a \in Accounts : \E n \in DOMAIN contacts[a] :
              conversations' = [conversations EXCEPT ![a] = Append(@, n)] /\ UNCHANGED contacts
<1>1. ASSUME NEW k \in Callers, CreateContact(k)
      PROVE  \E a \in Accounts, c \in Chats :
               contacts' = [contacts EXCEPT ![a] = Append(@, c)] /\ UNCHANGED conversations
  <2>1. call[k].account \in Accounts /\ ChatInHand(k) \in Chats
    BY <1>1, CallType, HandType DEF CreateContact, At
  <2>2. QED BY <1>1, <2>1 DEF CreateContact
<1>2. ASSUME NEW k \in Callers, CreateConversation(k)
      PROVE  \E a \in Accounts : \E n \in DOMAIN contacts[a] :
               conversations' = [conversations EXCEPT ![a] = Append(@, n)] /\ UNCHANGED contacts
  <2>1. call[k].account \in Accounts
    BY <1>2, CallType DEF CreateConversation, At
  <2>2. QED BY <1>2, <2>1 DEF CreateConversation
<1>3. ASSUME NEW k \in Callers, NoAnswer(k)
      PROVE  \/ UNCHANGED chatwoot
             \/ \E a \in Accounts, c \in Chats :
                  contacts' = [contacts EXCEPT ![a] = Append(@, c)] /\ UNCHANGED conversations
             \/ \E a \in Accounts : \E n \in DOMAIN contacts[a] :
                  conversations' = [conversations EXCEPT ![a] = Append(@, n)] /\ UNCHANGED contacts
  <2>1. call[k].account \in Accounts /\ ChatInHand(k) \in Chats
    BY <1>3, CallType, HandType DEF NoAnswer, At
  <2>2. QED BY <1>3, <2>1 DEF NoAnswer
<1>4. ASSUME NEW k \in Callers, Handle(k), ~CreateContact(k), ~CreateConversation(k)
      PROVE  UNCHANGED chatwoot
  BY <1>4 DEF Handle, GetContactID, SearchContact, SaveContactID, GetConversationID,
              FindConversation, SaveConversationID, PostIncomingMessage, Refused, chatwoot
<1>5. ASSUME NEW k \in Callers, Abort(k) \/ LoadBuffer(k) \/ DeleteBuffer(k)
      PROVE  UNCHANGED chatwoot
  BY <1>5 DEF Abort, LoadBuffer, DeleteBuffer, chatwoot
<1>6. ASSUME NEW r \in Replies, AgentReplies(r) \/ Forward(r) \/ ReplyFails(r)
      PROVE  UNCHANGED chatwoot
  BY <1>6 DEF AgentReplies, Forward, HandleWebhook, ForwardReply, ReplyFails, chatwoot
<1>7. ASSUME \/ \E e \in Event : Enqueue(e)
             \/ BufferHistory \/ SyncInbound \/ EventFails \/ Restart \/ UNCHANGED vars
             \/ \E a \in Accounts \cup {None} : Reconfigure(a)
      PROVE  UNCHANGED chatwoot
  BY <1>7 DEF Enqueue, BufferHistory, SyncInbound, EventFails, Restart, Reconfigure, vars, chatwoot
<1>8. QED BY <1>1, <1>2, <1>3, <1>4, <1>5, <1>6, <1>7 DEF Next, Callers

\* What an id names is never lost, and a conversation is always of a contact.
LEMMA Grows ==
  ASSUME TypeOK, ShapeInv, [Next]_vars
  PROVE  /\ \A a \in Accounts : \A n \in DOMAIN contacts[a] :
              n \in DOMAIN contacts'[a] /\ contacts'[a][n] = contacts[a][n]
         /\ \A a \in Accounts : \A n \in DOMAIN conversations[a] :
              n \in DOMAIN conversations'[a] /\ conversations'[a][n] = conversations[a][n]
         /\ \A a \in Accounts : \A n \in DOMAIN conversations'[a] :
              conversations'[a][n] \in DOMAIN contacts'[a]
<1>1. CASE UNCHANGED chatwoot
  BY <1>1 DEF chatwoot, ShapeInv
<1>2. ASSUME NEW b \in Accounts, NEW c \in Chats,
             contacts' = [contacts EXCEPT ![b] = Append(@, c)], UNCHANGED conversations
      PROVE  \A a \in Accounts : \A n \in DOMAIN contacts[a] :
               n \in DOMAIN contacts'[a] /\ contacts'[a][n] = contacts[a][n]
  <2>1. SUFFICES ASSUME NEW a \in Accounts, NEW n \in DOMAIN contacts[a]
                 PROVE  n \in DOMAIN contacts'[a] /\ contacts'[a][n] = contacts[a][n]
    OBVIOUS
  <2>2. contacts[a] \in Seq(Chats)
    BY DEF TypeOK
  <2>3. contacts'[a] = IF a = b THEN Append(contacts[a], c) ELSE contacts[a]
    BY <1>2 DEF TypeOK
  <2>4. QED BY <2>2, <2>3
<1>3. ASSUME NEW b \in Accounts, NEW m \in DOMAIN contacts[b],
             conversations' = [conversations EXCEPT ![b] = Append(@, m)], UNCHANGED contacts
      PROVE  /\ \A a \in Accounts : \A n \in DOMAIN conversations[a] :
                  n \in DOMAIN conversations'[a] /\ conversations'[a][n] = conversations[a][n]
             /\ \A a \in Accounts : \A n \in DOMAIN conversations'[a] :
                  conversations'[a][n] \in DOMAIN contacts'[a]
  <2>1. SUFFICES ASSUME NEW a \in Accounts
                 PROVE  /\ \A n \in DOMAIN conversations[a] :
                             n \in DOMAIN conversations'[a] /\ conversations'[a][n] = conversations[a][n]
                        /\ \A n \in DOMAIN conversations'[a] : conversations'[a][n] \in DOMAIN contacts[a]
    BY <1>3
  <2>2. conversations[a] \in Seq(Nat) /\ m \in Nat
    BY IdType DEF TypeOK
  <2>3. conversations'[a] = IF a = b THEN Append(conversations[a], m) ELSE conversations[a]
    BY <1>3 DEF TypeOK
  <2>4. CASE a # b
    BY <2>3, <2>4 DEF ShapeInv
  <2>5. CASE a = b
    <3>1. conversations'[a] = Append(conversations[a], m)
      BY <2>3, <2>5
    <3>2. DOMAIN conversations'[a] = DOMAIN conversations[a] \cup {Len(conversations[a]) + 1}
      BY <2>2, <3>1
    <3>3. /\ \A n \in DOMAIN conversations[a] : conversations'[a][n] = conversations[a][n]
          /\ conversations'[a][Len(conversations[a]) + 1] = m
      BY <2>2, <3>1
    <3>4. QED BY <1>3, <2>5, <3>2, <3>3 DEF ShapeInv
  <2>6. QED BY <2>4, <2>5
<1>4. ASSUME NEW b \in Accounts, NEW c \in Chats,
             contacts' = [contacts EXCEPT ![b] = Append(@, c)], UNCHANGED conversations
      PROVE  \A a \in Accounts : \A n \in DOMAIN conversations'[a] :
               conversations'[a][n] \in DOMAIN contacts'[a]
  BY <1>2, <1>4 DEF ShapeInv
<1>5. QED BY <1>1, <1>2, <1>3, <1>4, ChatwootMoves

\* A tangle stays one.
LEMMA TangledGrows ==
  ASSUME [Next]_vars
  PROVE  tangled \subseteq tangled'
<1>1. ASSUME NEW k \in Callers, Works(k) PROVE tangled \subseteq tangled'
  BY <1>1 DEF Works, GetContactID, SearchContact, CreateContact, SaveContactID, GetConversationID,
              FindConversation, CreateConversation, SaveConversationID
<1>2. ASSUME NEW k \in Callers, PostIncomingMessage(k) \/ Refused(k) \/ NoAnswer(k) \/ Abort(k)
      PROVE  UNCHANGED tangled
  BY <1>2 DEF PostIncomingMessage, Refused, NoAnswer, Abort
<1>3. CASE \/ \E e \in Event : Enqueue(e)
           \/ BufferHistory \/ SyncInbound \/ EventFails \/ Restart \/ UNCHANGED vars
           \/ \E k \in Syncs : LoadBuffer(k) \/ DeleteBuffer(k)
           \/ \E r \in Replies : AgentReplies(r) \/ Forward(r) \/ ReplyFails(r)
           \/ \E a \in Accounts \cup {None} : Reconfigure(a)
  BY <1>3 DEF Enqueue, BufferHistory, SyncInbound, EventFails, Restart, LoadBuffer, DeleteBuffer,
              AgentReplies, Forward, HandleWebhook, ForwardReply, ReplyFails, Reconfigure, vars
<1>4. QED BY <1>1, <1>2, <1>3 DEF Next, Handle, Works

\* So what was found stays found.
LEMMA Kept ==
  ASSUME TypeOK, ShapeInv, [Next]_vars, NEW a \in Accounts, NEW c \in Chats, NEW n \in Nat
  PROVE  /\ n \in ContactsOf(a, c) => n \in ContactsOf(a, c)'
         /\ IsOf(a, n, c) => IsOf(a, n, c)'
         /\ Knows(a, n, c) => Knows(a, n, c)'
         /\ Reaches(a, n, c) => Reaches(a, n, c)'
<1>1. \A d : Fits(c, d) => Fits(c, d)'
  BY TangledGrows DEF Fits
<1>2. \A i \in DOMAIN conversations[a] : i \in DOMAIN conversations'[a] /\ Owner(a, i)' = Owner(a, i)
  BY Grows DEF Owner, ShapeInv
<1>3. QED BY <1>1, <1>2, Grows DEF ContactsOf, IsOf, Knows, Reaches

-----------------------------------------------------------------------------

\* A caller begins with the settings as they are, and a replay with the buffer.
Begins(k) ==
  /\ call[k] = None /\ account \in Accounts /\ UNCHANGED <<account, buffer, posted, excused>>
  /\ \E S \in SUBSET Messages : call'[k] = NewCall(account, S) /\ (k \in Syncs => S = buffer)

\* A replay goes on when its message is posted or excused.
GoesOn(k) ==
  /\ call[k] # None /\ call[k].step # "next"
  /\ call'[k] = NewCall(call[k].account, call[k].todo)
  /\ call[k].msg \in posted' \cup excused'

\* Either way no message is in hand yet.
LEMMA NextStep ==
  ASSUME NEW k \in Callers
  PROVE  /\ Begins(k) => call'[k].step = "next" /\ call'[k].account = account'
         /\ GoesOn(k) => call'[k].step = "next" /\ call'[k].account = call[k].account
<1>1. \A a, S : NewCall(a, S).step = "next" /\ NewCall(a, S).account = a
  BY DEF NewCall
<1>2. QED BY <1>1 DEF Begins, GoesOn

\* A step on a message is the caller's own.
LEMMA WorkIsOwn ==
  ASSUME TypeOK, ShapeInv, NEW j \in Callers, NEW k \in Callers, Works(j), j # k
  PROVE  call'[k] = call[k]
BY WorkMoves DEF TypeOK

\* What a caller does when it is through with a message.
LEMMA LeaveIsOwn ==
  ASSUME TypeOK, ShapeInv, NEW j \in Callers, NEW k \in Callers, Leave(j),
         call[j] # None, call'[k] # None, call'[k] # call[k]
  PROVE  j = k /\ call'[k] = NewCall(call[k].account, call[k].todo)
BY DEF Leave, TypeOK

\* How a call can change.
LEMMA CallMoves ==
  ASSUME TypeOK, ShapeInv, [Next]_vars, NEW k \in Callers, call'[k] # None, call'[k] # call[k]
  PROVE  Begins(k) \/ GoesOn(k) \/ Works(k)
<1>1. ASSUME NEW j \in Callers, Works(j) PROVE Works(k)
  BY <1>1, WorkIsOwn
<1>2. ASSUME NEW j \in Callers, PostIncomingMessage(j) PROVE GoesOn(k)
  <2>1. call[j] # None /\ call[j].step = "post" /\ call[j].msg \in posted'
    BY <1>2 DEF PostIncomingMessage, Arrive, At
  <2>2. QED BY <1>2, <2>1, LeaveIsOwn DEF PostIncomingMessage, GoesOn
<1>3. ASSUME NEW j \in Callers, Refused(j) \/ NoAnswer(j) PROVE GoesOn(k)
  <2>1. call[j] # None /\ call[j].step # "next" /\ GiveUp(j)
    BY <1>3 DEF Refused, NoAnswer, At
  <2>2. QED BY <2>1, LeaveIsOwn DEF GiveUp, GoesOn
<1>4. ASSUME NEW j \in Callers, Abort(j) PROVE FALSE
  <2>1. call' = [call EXCEPT ![j] = None]
    BY <1>4 DEF Abort, Leave
  <2>2. QED BY <2>1 DEF TypeOK
<1>5. ASSUME NEW j \in Syncs, LoadBuffer(j) PROVE Begins(k)
  <2>1. call' = [call EXCEPT ![j] = NewCall(account, buffer)] /\ call[j] = None
    BY <1>5 DEF LoadBuffer
  <2>2. k = j
    BY <2>1 DEF TypeOK, Callers
  <2>3. QED BY <1>5, <2>1, <2>2 DEF LoadBuffer, Begins, TypeOK, Configured, outcome
<1>6. ASSUME NEW j \in Syncs, DeleteBuffer(j) PROVE FALSE
  BY <1>6 DEF DeleteBuffer, TypeOK
<1>7. CASE SyncInbound
  <2>1. Configured /\ call' = [call EXCEPT ![Worker] = NewCall(account, Head(eventCh).msgs)]
    BY <1>7 DEF SyncInbound
  <2>2. k = Worker
    BY <2>1 DEF TypeOK, Callers
  <2>3. Head(eventCh) \in Event /\ call[Worker] = None
    BY <1>7 DEF SyncInbound, Take, TypeOK
  <2>4. Head(eventCh).msgs \in SUBSET Messages
    BY <2>3, EventType
  <2>5. call'[k] = NewCall(account, Head(eventCh).msgs) /\ k \notin Syncs
    BY <2>1, <2>2, BridgeAssumption DEF TypeOK
  <2>6. account \in Accounts /\ UNCHANGED <<account, buffer, posted, excused>>
    BY <1>7, <2>1 DEF SyncInbound, TypeOK, Configured, outcome
  <2>7. QED BY <2>2, <2>3, <2>4, <2>5, <2>6 DEF Begins
<1>8. CASE Restart
  BY <1>8 DEF Restart, TypeOK
<1>9. CASE \/ \E e \in Event : Enqueue(e)
           \/ BufferHistory \/ EventFails \/ UNCHANGED vars
           \/ \E a \in Accounts \cup {None} : Reconfigure(a)
           \/ \E r \in Replies : AgentReplies(r) \/ Forward(r) \/ ReplyFails(r)
  BY <1>9 DEF Enqueue, BufferHistory, EventFails, Reconfigure, AgentReplies, Forward,
              HandleWebhook, ForwardReply, ReplyFails, vars
<1>10. QED BY <1>1, <1>2, <1>3, <1>4, <1>5, <1>6, <1>7, <1>8, <1>9 DEF Next, Handle, Works

\* A step on a message keeps the account and whatever is pending.
LEMMA WorkKeeps ==
  ASSUME TypeOK, ShapeInv, NEW k \in Callers, Works(k)
  PROVE  /\ call[k] # None /\ call'[k] # None /\ call'[k].account = call[k].account
         /\ call'[k].step # "next" /\ call'[k].msg \in Messages
         /\ Pending(k)' = Pending(k)
         /\ IF call[k].step = "next" THEN call'[k].todo = call[k].todo \ {call'[k].msg}
            ELSE call'[k].msg = call[k].msg /\ call'[k].todo = call[k].todo
<1>1. PICK new \in Call :
        /\ call' = [call EXCEPT ![k] = new]
        /\ new.account = call[k].account /\ new.step # "next"
        /\ IF call[k].step = "next" THEN new.msg \in call[k].todo /\ new.todo = call[k].todo \ {new.msg}
           ELSE new.msg = call[k].msg /\ new.todo = call[k].todo
  BY WorkMoves
<1>2. call'[k] = new /\ call[k] # None
  BY <1>1, WorkMoves DEF TypeOK
<1>3. QED BY <1>1, <1>2, CallType, HandType, NoValueAssumption DEF Pending

-----------------------------------------------------------------------------

\* The shape is kept.
LEMMA ShapeStep ==
  ASSUME TypeOK, ShapeInv, [Next]_vars
  PROVE  ShapeInv'
<1>1. ASSUME NEW k \in Callers, call'[k] # None, call'[k].step # "next"
      PROVE  call'[k].msg \in Messages
  <2>1. CASE call'[k] = call[k]
    BY <1>1, <2>1 DEF ShapeInv
  <2>2. Begins(k) \/ GoesOn(k) => call'[k].step = "next"
    BY NextStep
  <2>3. CASE Works(k)
    BY <2>3, WorkKeeps
  <2>4. QED BY <1>1, <2>1, <2>2, <2>3, CallMoves
<1>2. QED BY <1>1, Grows DEF ShapeInv

\* What is posted or excused stays so; the buffer grows by events, and is emptied
\* whole by a replay that has tried all it had loaded.
LEMMA BufferMoves ==
  ASSUME TypeOK, ShapeInv, [Next]_vars
  PROVE  /\ posted \subseteq posted' /\ excused \subseteq excused'
         /\ \/ UNCHANGED <<buffer, lost>>
            \/ UNCHANGED <<lost, call>> /\ (Replaying => buffer' \subseteq buffer \cup excused')
            \/ /\ buffer' = {} /\ lost' = lost \cup (buffer \ posted)
               /\ \E k \in Syncs : call[k] # None /\ Pending(k) = {}
<1>1. ASSUME NEW k \in Callers, Handle(k) \/ NoAnswer(k) \/ Abort(k)
      PROVE  /\ posted \subseteq posted' /\ excused \subseteq excused'
             /\ UNCHANGED <<buffer, lost>>
  <2>1. CASE Works(k)
    BY <2>1 DEF Works, GetContactID, SearchContact, CreateContact, SaveContactID,
                GetConversationID, FindConversation, CreateConversation, SaveConversationID, outcome
  <2>2. CASE PostIncomingMessage(k)
    BY <2>2 DEF PostIncomingMessage, Arrive
  <2>3. CASE Refused(k)
    BY <2>3 DEF Refused, GiveUp
  <2>4. CASE NoAnswer(k)
    BY <2>4 DEF NoAnswer, GiveUp, Arrive
  <2>5. CASE Abort(k)
    BY <2>5 DEF Abort, outcome
  <2>6. QED BY <1>1, <2>1, <2>2, <2>3, <2>4, <2>5 DEF Handle, Works
<1>2. ASSUME NEW k \in Syncs, DeleteBuffer(k)
      PROVE  /\ buffer' = {} /\ lost' = lost \cup (buffer \ posted)
             /\ UNCHANGED <<posted, excused>> /\ call[k] # None /\ Pending(k) = {}
  BY <1>2 DEF DeleteBuffer, DeleteHistoryMessages, At, Pending
<1>3. CASE BufferHistory
  BY <1>3 DEF BufferHistory, SaveHistoryMessages
<1>4. CASE \/ \E e \in Event : Enqueue(e)
           \/ SyncInbound \/ EventFails \/ Restart \/ UNCHANGED vars
           \/ \E k \in Syncs : LoadBuffer(k)
           \/ \E a \in Accounts \cup {None} : Reconfigure(a)
           \/ \E r \in Replies : AgentReplies(r) \/ Forward(r) \/ ReplyFails(r)
  BY <1>4 DEF Enqueue, SyncInbound, EventFails, Restart, LoadBuffer, Reconfigure, AgentReplies,
              Forward, HandleWebhook, ForwardReply, ReplyFails, vars, outcome
<1>5. QED BY <1>1, <1>2, <1>3, <1>4 DEF Next

\* A replay deletes nothing it has not tried and nobody is excused for.
LEMMA ReplayStep ==
  ASSUME TypeOK, ShapeInv, ReplayInv, LossIsExcused, [Next]_vars
  PROVE  ReplayInv' /\ LossIsExcused'
<1>1. LossIsExcused'
  <2>1. ASSUME NEW k \in Syncs, call[k] # None, Pending(k) = {}
        PROVE  buffer \ posted \subseteq excused
    BY <2>1 DEF ReplayInv
  <2>2. QED BY <2>1, BufferMoves DEF LossIsExcused
<1>2. ASSUME NEW k \in Syncs, call'[k] # None
      PROVE  buffer' \subseteq posted' \cup excused' \cup Pending(k)'
  <2> k \in Callers
    BY DEF Callers
  <2>1. CASE Begins(k)
    BY <2>1 DEF Begins, NewCall, Pending
  <2>2. ASSUME call[k] # None, Pending(k) \subseteq posted' \cup excused' \cup Pending(k)'
        PROVE  buffer' \subseteq posted' \cup excused' \cup Pending(k)'
    BY <2>2, BufferMoves DEF ReplayInv, Replaying
  <2>3. CASE call'[k] = call[k]
    BY <1>2, <2>2, <2>3 DEF Pending
  <2>4. CASE GoesOn(k)
    BY <2>2, <2>4 DEF GoesOn, NewCall, Pending
  <2>5. CASE Works(k)
    BY <2>2, <2>5, WorkKeeps
  <2>6. QED BY <1>2, <2>1, <2>3, <2>4, <2>5, CallMoves
<1>3. QED BY <1>1, <1>2 DEF ReplayInv

-----------------------------------------------------------------------------

\* The account only changes when the settings move.
LEMMA AccountStays ==
  ASSUME TypeOK, [Next]_vars, ~moved'
  PROVE  ~moved /\ UNCHANGED account
<1>1. ASSUME NEW k \in Callers, Handle(k) \/ NoAnswer(k) \/ Abort(k) \/ LoadBuffer(k) \/ DeleteBuffer(k)
      PROVE  ~moved /\ UNCHANGED account
  <2>1. ASSUME NEW m \in Messages, GetContactID(k, m) PROVE UNCHANGED <<moved, account>>
    BY <2>1 DEF GetContactID, bounds
  <2>2. CASE SearchContact(k) \/ CreateContact(k) \/ SaveContactID(k)
    BY <2>2 DEF SearchContact, CreateContact, SaveContactID, bounds
  <2>3. CASE GetConversationID(k) \/ FindConversation(k) \/ CreateConversation(k) \/ SaveConversationID(k)
    BY <2>3 DEF GetConversationID, FindConversation, CreateConversation, SaveConversationID, bounds
  <2>4. CASE PostIncomingMessage(k) \/ Refused(k) \/ NoAnswer(k)
    BY <2>4 DEF PostIncomingMessage, Refused, NoAnswer, bounds
  <2>5. CASE Abort(k) \/ LoadBuffer(k) \/ DeleteBuffer(k)
    BY <2>5 DEF Abort, LoadBuffer, DeleteBuffer, bounds
  <2>6. QED BY <1>1, <2>1, <2>2, <2>3, <2>4, <2>5 DEF Handle
<1>2. ASSUME NEW r \in Replies, AgentReplies(r) \/ Forward(r) \/ ReplyFails(r)
      PROVE  ~moved /\ UNCHANGED account
  BY <1>2 DEF AgentReplies, Forward, HandleWebhook, ForwardReply, ReplyFails, bounds
<1>3. CASE \/ \E e \in Event : Enqueue(e)
           \/ BufferHistory \/ SyncInbound \/ EventFails \/ Restart \/ UNCHANGED vars
  BY <1>3 DEF Enqueue, BufferHistory, SyncInbound, EventFails, Restart, vars, bounds
<1>4. QED BY <1>1, <1>2, <1>3 DEF Next, Reconfigure, Callers

\* A search or a creation holds a contact that will do for the chat, or none.
LEMMA ContactIsOwn ==
  ASSUME TypeOK, ShapeInv, [Next]_vars, NEW k \in Callers, SearchContact(k) \/ CreateContact(k),
         NEW a \in Accounts, a = call[k].account, NEW c \in Chats, c = ChatInHand(k)
  PROVE  \/ \E id \in Nat : HoldContact(k, id) /\ Knows(a, id, c)'
         \/ GoTo(k, "create")
<1>1. CASE SearchContact(k)
  <2>1. UNCHANGED contacts
    BY <1>1 DEF SearchContact, chatwoot
  <2>2. ASSUME NEW id \in HitsOf(a, c), HoldContact(k, id),
               tangled' = IF contacts[a][id] = c THEN tangled ELSE tangled \cup {c, contacts[a][id]}
        PROVE  id \in Nat /\ Knows(a, id, c)'
    <3>1. id \in DOMAIN contacts[a] /\ <<c, contacts[a][id]>> \in Hits
      BY <2>2 DEF HitsOf
    <3>2. PICK d : d = contacts[a][id] /\ d = contacts'[a][id]
      BY <2>1
    <3>3. c = d \/ {c, d} \subseteq tangled'
      BY <2>2, <3>2
    <3>4. QED BY <2>1, <3>1, <3>2, <3>3, IdType DEF Knows, Fits
  <2>3. QED BY <1>1, <2>2 DEF SearchContact
<1>2. CASE CreateContact(k)
  <2>1. contacts[a] \in Seq(Chats) /\ contacts'[a] = Append(contacts[a], c)
    BY <1>2 DEF CreateContact, TypeOK
  <2>2. PICK id \in Nat : id = Len(contacts[a]) + 1
    BY <2>1
  <2>3. id \in DOMAIN contacts'[a] /\ contacts'[a][id] = c
    BY <2>1, <2>2
  <2>4. Fits(c, c)'
    BY BridgeAssumption DEF Fits
  <2>5. Knows(a, id, c)'
    BY <2>3, <2>4 DEF Knows
  <2>6. HoldContact(k, id)
    BY <1>2, <2>2 DEF CreateContact
  <2>7. QED BY <2>2, <2>5, <2>6
<1>3. QED BY <1>1, <1>2

\* So will the conversation of a contact that does.
LEMMA ConversationIsOwn ==
  ASSUME TypeOK, ShapeInv, [Next]_vars, NEW k \in Callers, FindConversation(k) \/ CreateConversation(k),
         NEW a \in Accounts, a = call[k].account, NEW c \in Chats, c = ChatInHand(k),
         Knows(a, call[k].contact, c)
  PROVE  \/ \E id \in Nat : HoldConversation(k, id) /\ Reaches(a, id, c)'
         \/ At(k, "find") /\ GoTo(k, "open")
<1>1. PICK n \in Nat : n = call[k].contact /\ Knows(a, n, c)
  BY CallType DEF FindConversation, CreateConversation, At
<1>2. Knows(a, n, c)'
  BY <1>1, Kept
<1>3. CASE FindConversation(k)
  <2>1. UNCHANGED chatwoot
    BY <1>3 DEF FindConversation
  <2>2. ASSUME NEW id \in ConversationsOf(a, n)
        PROVE  id \in Nat /\ Reaches(a, id, c)'
    BY <1>2, <2>1, <2>2, IdType DEF ConversationsOf, Knows, Reaches, Owner, chatwoot
  <2>3. QED BY <1>1, <1>3, <2>2 DEF FindConversation
<1>4. CASE CreateConversation(k)
  <2>1. conversations[a] \in Seq(Nat) /\ conversations'[a] = Append(conversations[a], n)
    BY <1>1, <1>4 DEF CreateConversation, TypeOK
  <2>2. PICK id \in Nat : id = Len(conversations[a]) + 1
    BY <2>1
  <2>3. id \in DOMAIN conversations'[a] /\ conversations'[a][id] = n
    BY <1>1, <2>1, <2>2
  <2>4. Reaches(a, id, c)'
    BY <1>2, <2>3 DEF Reaches, Owner, Knows
  <2>5. HoldConversation(k, id)
    BY <1>4, <2>2 DEF CreateConversation
  <2>6. QED BY <2>2, <2>4, <2>5
<1>5. QED BY <1>3, <1>4

\* What a saved id is: what the caller holds.
LEMMA SavesMove ==
  ASSUME TypeOK, ShapeInv, NEW k \in Callers, Works(k), call[k].step # "next", NEW c \in Chats
  PROVE  /\ contactID'[c] # contactID[c] =>
              SaveContactID(k) /\ c = ChatInHand(k) /\ contactID'[c] = call[k].contact
         /\ conversationID'[c] # conversationID[c] =>
              SaveConversationID(k) /\ c = ChatInHand(k) /\ conversationID'[c] = call[k].conv
BY DEF Works, GetContactID, SearchContact, CreateContact, SaveContactID, GetConversationID,
       FindConversation, CreateConversation, SaveConversationID, mappings, TypeOK

\* A step on a message finds a contact, then a conversation, that will do for its chat.
LEMMA WorkFinds ==
  ASSUME TypeOK, ShapeInv, OwnInv, [Next]_vars, ~moved', NEW k \in Callers, Works(k)
  PROVE  /\ Found(k)'
         /\ \A c \in Chats : contactID'[c] # contactID[c] => Knows(account, contactID[c], c)'
         /\ \A c \in Chats : conversationID'[c] # conversationID[c] => Reaches(account, conversationID[c], c)'
<1>1. /\ UNCHANGED account /\ account \in Accounts
      /\ \A c \in Chats : contactID[c] # 0 => Knows(account, contactID[c], c)
      /\ \A c \in Chats : conversationID[c] # 0 => Reaches(account, conversationID[c], c)
      /\ call[k] # None => Found(k)
  BY AccountStays DEF OwnInv
<1>2. call[k] # None /\ call[k] \in Call /\ Found(k) /\ call[k].account = account
  BY <1>1, WorkKeeps, CallType DEF Found
<1>3. PICK a \in Accounts : a = account /\ a = account' /\ a = call[k].account
  BY <1>1, <1>2
<1>4. /\ \A n, c : Knows(a, n, c)' <=> Knows(account, n, c)'
      /\ \A n, c : Reaches(a, n, c)' <=> Reaches(account, n, c)'
  BY <1>3 DEF Knows, Reaches, Owner, Fits
<1>5. ASSUME NEW new \in Call, call' = [call EXCEPT ![k] = new], new.account = a,
             NEW c \in Chats, c = ChatOf[new.msg],
             new.step \in {"mapContact", "conversation", "find", "open"} => Knows(a, new.contact, c)',
             new.step \in {"mapConversation", "post"} => Reaches(a, new.conv, c)'
      PROVE  Found(k)'
  <2>1. call'[k] = new
    BY <1>5 DEF TypeOK
  <2>2. ChatInHand(k)' = c
    BY <1>5, <2>1 DEF ChatInHand
  <2>3. QED BY <1>3, <1>4, <1>5, <2>1, <2>2 DEF Found
<1>6. CASE \E m \in Messages : GetContactID(k, m)
  <2>1. PICK m \in Messages : GetContactID(k, m)
    BY <1>6
  <2>2. PICK new \in Call :
          /\ call' = [call EXCEPT ![k] = new]
          /\ new.account = call[k].account /\ new.msg = m
          /\ IF new.contact # 0 THEN new.contact = contactID[ChatOf[m]] /\ new.step = "conversation"
             ELSE new.step = "search"
    BY <2>1, GetContactMoves
  <2>3. PICK c \in Chats : c = ChatOf[m]
    BY BridgeAssumption
  <2>4. new.contact \in Nat /\ UNCHANGED mappings
    BY <2>1 DEF Call, GetContactID
  <2>5. new.step = "conversation" => Knows(a, new.contact, c)
    BY <1>1, <1>3, <2>2, <2>3
  <2>6. new.step = "conversation" => Knows(a, new.contact, c)'
    BY <2>4, <2>5, Kept
  <2>7. Found(k)'
    BY <1>3, <1>5, <2>2, <2>3, <2>6
  <2>8. QED BY <2>4, <2>7 DEF mappings
<1>7. CASE ~\E m \in Messages : GetContactID(k, m)
  <2>1. call[k].step # "next"
    BY <1>7 DEF Works, SearchContact, CreateContact, SaveContactID, GetConversationID, FindConversation,
                CreateConversation, SaveConversationID, At
  <2>2. PICK c \in Chats : c = ChatInHand(k)
    BY <1>2, <2>1, HandType
  <2>3. PICK n \in Nat, i \in Nat : n = call[k].contact /\ i = call[k].conv
    BY <1>2, CallType
  <2>4. /\ Knows(a, n, c) => Knows(a, n, c)'
        /\ Reaches(a, i, c) => Reaches(a, i, c)'
    BY Kept
  <2>5. /\ call[k].step \in {"mapContact", "conversation", "find", "open"} => Knows(a, n, c)'
        /\ call[k].step \in {"mapConversation", "post"} => Reaches(a, i, c)'
    BY <1>2, <1>3, <2>2, <2>3, <2>4 DEF Found
  <2>6. ASSUME NEW d \in Chats, contactID'[d] # contactID[d] PROVE Knows(account, contactID[d], d)'
    <3>1. SaveContactID(k) /\ d = c /\ contactID'[d] = n
      BY <2>1, <2>2, <2>3, <2>6, SavesMove
    <3>2. Knows(a, n, d)'
      BY <2>5, <3>1 DEF SaveContactID, At
    <3>3. QED BY <1>4, <3>1, <3>2
  <2>7. ASSUME NEW d \in Chats, conversationID'[d] # conversationID[d]
        PROVE  Reaches(account, conversationID[d], d)'
    <3>1. SaveConversationID(k) /\ d = c /\ conversationID'[d] = i
      BY <2>1, <2>2, <2>3, <2>7, SavesMove
    <3>2. Reaches(a, i, d)'
      BY <2>5, <3>1 DEF SaveConversationID, At
    <3>3. QED BY <1>4, <3>1, <3>2
  <2>8. ASSUME NEW id \in Nat, HoldContact(k, id), Knows(a, id, c)' PROVE Found(k)'
    <3>1. PICK new \in Call :
            /\ call' = [call EXCEPT ![k] = new] /\ new.account = call[k].account
            /\ new.msg = call[k].msg /\ new.contact = id /\ new.step = "mapContact"
      BY <1>2, <2>8, HoldContactMoves
    <3>2. QED BY <1>3, <1>5, <2>2, <2>8, <3>1 DEF ChatInHand
  <2>9. ASSUME NEW id \in Nat, HoldConversation(k, id), Reaches(a, id, c)' PROVE Found(k)'
    <3>1. PICK new \in Call :
            /\ call' = [call EXCEPT ![k] = new] /\ new.account = call[k].account
            /\ new.msg = call[k].msg /\ new.conv = id /\ new.step = "mapConversation"
      BY <1>2, <2>9, HoldConversationMoves
    <3>2. QED BY <1>3, <1>5, <2>2, <2>9, <3>1 DEF ChatInHand
  <2>10. ASSUME NEW step \in Step, GoTo(k, step),
                step \in {"mapContact", "conversation", "find", "open"} => Knows(a, n, c)',
                step \in {"mapConversation", "post"} => Reaches(a, i, c)'
         PROVE  Found(k)'
    <3>0. GoTo(k, step) /\ call[k] # None
      BY <1>2, <2>10
    <3>1. PICK new \in Call :
            /\ call' = [call EXCEPT ![k] = new] /\ new.account = call[k].account /\ new.msg = call[k].msg
            /\ new.contact = call[k].contact /\ new.conv = call[k].conv /\ new.step = step
      BY <3>0, StepMoves
    <3>2. QED BY <1>3, <1>5, <2>2, <2>3, <2>10, <3>1 DEF ChatInHand
  <2>11. CASE SearchContact(k) \/ CreateContact(k)
    <3>1. CASE \E id \in Nat : HoldContact(k, id) /\ Knows(a, id, c)'
      BY <2>6, <2>7, <2>8, <3>1
    <3>2. CASE GoTo(k, "create")
      BY <2>6, <2>7, <2>10, <3>2 DEF Step
    <3>3. QED BY <1>3, <2>2, <2>6, <2>7, <2>11, <3>1, <3>2, ContactIsOwn
  <2>12. CASE SaveContactID(k)
    BY <2>5, <2>6, <2>7, <2>10, <2>12 DEF SaveContactID, At, Step
  <2>13. CASE GetConversationID(k)
    <3>1. PICK new \in Call :
            /\ call' = [call EXCEPT ![k] = new]
            /\ new.account = call[k].account /\ new.msg = call[k].msg /\ new.contact = call[k].contact
            /\ IF new.conv # 0 THEN new.conv = conversationID[ChatInHand(k)] /\ new.step = "post"
               ELSE new.step = "find"
      BY <2>13, GetConversationMoves
    <3>2. new.conv \in Nat /\ call[k].step = "conversation"
      BY <2>13 DEF Call, GetConversationID, At
    <3>3. new.step = "post" => Reaches(a, new.conv, c)
      BY <1>1, <1>3, <2>2, <3>1
    <3>4. new.step = "post" => Reaches(a, new.conv, c)'
      BY <3>2, <3>3, Kept
    <3>5. new.step = "find" => Knows(a, new.contact, c)'
      BY <2>3, <2>5, <3>1, <3>2
    <3>6. c = ChatOf[new.msg]
      BY <2>2, <3>1 DEF ChatInHand
    <3>7. Found(k)'
      BY <1>3, <1>5, <3>1, <3>4, <3>5, <3>6
    <3>8. QED BY <2>6, <2>7, <3>7
  <2>14. CASE FindConversation(k) \/ CreateConversation(k)
    <3>1. call[k].step \in {"find", "open"}
      BY <2>14 DEF FindConversation, CreateConversation, At
    <3>2. Knows(a, call[k].contact, c)
      BY <1>2, <1>3, <2>2, <3>1 DEF Found
    <3>3. CASE \E id \in Nat : HoldConversation(k, id) /\ Reaches(a, id, c)'
      BY <2>6, <2>7, <2>9, <3>3
    <3>4. CASE GoTo(k, "open")
      BY <2>5, <2>6, <2>7, <2>10, <3>1, <3>4 DEF Step
    <3>5. QED BY <1>3, <2>2, <2>6, <2>7, <2>14, <3>2, <3>3, <3>4, ConversationIsOwn
  <2>15. CASE SaveConversationID(k)
    BY <2>5, <2>6, <2>7, <2>10, <2>15 DEF SaveConversationID, At, Step
  <2>16. QED BY <1>7, <2>11, <2>12, <2>13, <2>14, <2>15 DEF Works
<1>8. QED BY <1>6, <1>7

\* Nothing else touches a mapping.
LEMMA MappingsMove ==
  ASSUME [Next]_vars
  PROVE  UNCHANGED mappings \/ \E k \in Callers : Works(k)
<1>1. ASSUME NEW k \in Callers, PostIncomingMessage(k) \/ Refused(k) \/ NoAnswer(k) \/ Abort(k)
      PROVE  UNCHANGED mappings
  BY <1>1 DEF PostIncomingMessage, Refused, NoAnswer, Abort
<1>2. CASE \/ \E e \in Event : Enqueue(e)
           \/ BufferHistory \/ SyncInbound \/ EventFails \/ Restart \/ UNCHANGED vars
           \/ \E k \in Syncs : LoadBuffer(k) \/ DeleteBuffer(k)
           \/ \E a \in Accounts \cup {None} : Reconfigure(a)
           \/ \E r \in Replies : AgentReplies(r) \/ Forward(r) \/ ReplyFails(r)
  BY <1>2 DEF Enqueue, BufferHistory, SyncInbound, EventFails, Restart, LoadBuffer, DeleteBuffer,
              Reconfigure, AgentReplies, Forward, HandleWebhook, ForwardReply, ReplyFails, vars
<1>3. QED BY <1>1, <1>2 DEF Next, Handle, Works

\* The mappings and what the callers hold stay with the chats they will do for.
LEMMA OwnStep ==
  ASSUME TypeOK, ShapeInv, OwnInv, [Next]_vars
  PROVE  OwnInv'
<1>1. SUFFICES ASSUME ~moved'
               PROVE  /\ account' \in Accounts
                      /\ \A c \in Chats : contactID'[c] # 0 => Knows(account, contactID[c], c)'
                      /\ \A c \in Chats : conversationID'[c] # 0 => Reaches(account, conversationID[c], c)'
                      /\ \A k \in Callers : call'[k] # None => Found(k)'
  BY DEF OwnInv
<1>2. PICK a \in Accounts : a = account /\ a = account'
  BY <1>1, AccountStays DEF OwnInv
<1>3. /\ \A c \in Chats : contactID[c] # 0 => Knows(a, contactID[c], c)
      /\ \A c \in Chats : conversationID[c] # 0 => Reaches(a, conversationID[c], c)
      /\ \A k \in Callers : call[k] # None => Found(k)
  BY <1>1, <1>2, AccountStays DEF OwnInv
<1>4. /\ \A n, c : Knows(a, n, c)' <=> Knows(account, n, c)'
      /\ \A n, c : Reaches(a, n, c)' <=> Reaches(account, n, c)'
  BY <1>2 DEF Knows, Reaches, Owner, Fits
<1>5. ASSUME NEW c \in Chats, contactID'[c] # 0 PROVE Knows(account, contactID[c], c)'
  <2>1. CASE contactID'[c] = contactID[c]
    <3>1. contactID[c] \in Nat /\ Knows(a, contactID[c], c)
      BY <1>3, <1>5, <2>1 DEF TypeOK
    <3>2. PICK n \in Nat : n = contactID[c] /\ Knows(a, n, c)
      BY <3>1
    <3>3. Knows(account, n, c)'
      BY <1>4, <3>2, Kept
    <3>4. QED BY <2>1, <3>2, <3>3
  <2>2. CASE contactID'[c] # contactID[c]
    BY <1>1, <2>2, WorkFinds, MappingsMove DEF mappings
  <2>3. QED BY <2>1, <2>2
<1>6. ASSUME NEW c \in Chats, conversationID'[c] # 0 PROVE Reaches(account, conversationID[c], c)'
  <2>1. CASE conversationID'[c] = conversationID[c]
    <3>1. conversationID[c] \in Nat /\ Reaches(a, conversationID[c], c)
      BY <1>3, <1>6, <2>1 DEF TypeOK
    <3>2. PICK n \in Nat : n = conversationID[c] /\ Reaches(a, n, c)
      BY <3>1
    <3>3. Reaches(account, n, c)'
      BY <1>4, <3>2, Kept
    <3>4. QED BY <2>1, <3>2, <3>3
  <2>2. CASE conversationID'[c] # conversationID[c]
    BY <1>1, <2>2, WorkFinds, MappingsMove DEF mappings
  <2>3. QED BY <2>1, <2>2
<1>7. ASSUME NEW k \in Callers, call'[k] # None PROVE Found(k)'
  <2>1. CASE call'[k] = call[k]
    <3>1. Found(k) /\ call[k] # None
      BY <1>3, <1>7, <2>1
    <3>2. CASE call[k].step = "next"
      BY <1>2, <2>1, <3>1, <3>2 DEF Found
    <3>3. CASE call[k].step # "next"
      <4>1. PICK c \in Chats : c = ChatInHand(k) /\ c = ChatInHand(k)'
        BY <2>1, <3>1, <3>3, HandType DEF ChatInHand
      <4>2. PICK n \in Nat, i \in Nat : n = call[k].contact /\ i = call[k].conv
        BY <3>1, CallType
      <4>3. /\ Knows(a, n, c) => Knows(account, n, c)'
            /\ Reaches(a, i, c) => Reaches(account, i, c)'
        BY <1>4, Kept
      <4>4. QED BY <1>2, <2>1, <3>1, <4>1, <4>2, <4>3 DEF Found
    <3>4. QED BY <3>2, <3>3
  <2>2. CASE Begins(k)
    <3>1. call'[k].step = "next" /\ call'[k].account = account'
      BY <2>2, NextStep
    <3>2. QED BY <3>1 DEF Found
  <2>3. CASE GoesOn(k)
    <3>1. call'[k].step = "next" /\ call'[k].account = call[k].account
      BY <2>3, NextStep
    <3>2. call[k].account = account
      BY <1>3, <2>3 DEF GoesOn, Found
    <3>3. QED BY <1>2, <3>1, <3>2 DEF Found
  <2>4. CASE Works(k)
    BY <1>1, <2>4, WorkFinds
  <2>5. QED BY <1>7, <2>1, <2>2, <2>3, <2>4, CallMoves
<1>8. QED BY <1>2, <1>5, <1>6, <1>7

-----------------------------------------------------------------------------

\* What a step makes of a reply: one is written, in a conversation that is there,
\* or one is kept but for its step and, if it had none, the chat it goes to.
LEMMA RepliesMove ==
  ASSUME TypeOK, ShapeInv, [Next]_vars, NEW r \in Replies, reply'[r] # None
  PROVE  \/ \E a \in Accounts : \E n \in DOMAIN conversations[a] :
              /\ reply'[r].account = a /\ reply'[r].conv = n /\ reply'[r].chat = Owner(a, n)
              /\ reply'[r].to = None
         \/ /\ reply[r] # None
            /\ reply'[r].account = reply[r].account /\ reply'[r].conv = reply[r].conv
            /\ reply'[r].chat = reply[r].chat
            /\ \/ reply'[r].to = reply[r].to
               \/ /\ account = reply[r].account
                  /\ reply'[r].to \in ChatsOfConversation(reply[r].conv)
<1>1. reply[r] # None => reply[r] \in Reply
  BY DEF TypeOK
<1>2. ASSUME NEW q \in Replies, AgentReplies(q), q = r
      PROVE  \E a \in Accounts : \E n \in DOMAIN conversations[a] :
               /\ reply'[r].account = a /\ reply'[r].conv = n /\ reply'[r].chat = Owner(a, n)
               /\ reply'[r].to = None
  <2>1. PICK a \in Accounts : \E n \in DOMAIN conversations[a] :
          reply' = [reply EXCEPT ![r] = [account |-> a, conv |-> n, chat |-> Owner(a, n),
                                         to |-> None, step |-> "received"]]
    BY <1>2 DEF AgentReplies
  <2>2. PICK n \in DOMAIN conversations[a] :
          reply' = [reply EXCEPT ![r] = [account |-> a, conv |-> n, chat |-> Owner(a, n),
                                         to |-> None, step |-> "received"]]
    BY <2>1
  <2>3. QED BY <2>2 DEF TypeOK
<1>3. ASSUME NEW q \in Replies, HandleWebhook(q), q = r
      PROVE  /\ reply[r] # None
             /\ reply'[r].account = reply[r].account /\ reply'[r].conv = reply[r].conv
             /\ reply'[r].chat = reply[r].chat
             /\ \/ reply'[r].to = reply[r].to
                \/ /\ account = reply[r].account
                   /\ reply'[r].to \in ChatsOfConversation(reply[r].conv)
  <2>1. reply[r] # None
    BY <1>3 DEF HandleWebhook, ReplyAt
  <2>2. CASE reply' = [reply EXCEPT ![r].step = "dropped"]
    BY <1>1, <2>1, <2>2 DEF TypeOK, Reply
  <2>3. ASSUME NEW c \in ChatsOfConversation(reply[r].conv), InboxIsOurs(r),
               reply' = [reply EXCEPT ![r].to = c, ![r].step = "known"]
        PROVE  /\ reply'[r].account = reply[r].account /\ reply'[r].conv = reply[r].conv
               /\ reply'[r].chat = reply[r].chat /\ reply'[r].to = c
    <3>1. reply'[r] = [reply[r] EXCEPT !.to = c, !.step = "known"]
      BY <2>3 DEF TypeOK
    <3>2. QED BY <1>1, <2>1, <3>1 DEF Reply
  <2>4. QED BY <1>3, <2>1, <2>2, <2>3 DEF HandleWebhook, InboxIsOurs
<1>4. ASSUME NEW q \in Replies, ForwardReply(q) \/ ReplyFails(q), q = r
      PROVE  /\ reply[r] # None
             /\ reply'[r].account = reply[r].account /\ reply'[r].conv = reply[r].conv
             /\ reply'[r].chat = reply[r].chat /\ reply'[r].to = reply[r].to
  BY <1>1, <1>4 DEF TypeOK, Reply, ForwardReply, ReplyFails, ReplyAt
<1>5. ASSUME NEW q \in Replies, AgentReplies(q) \/ Forward(q) \/ ReplyFails(q), q # r
      PROVE  reply'[r] = reply[r]
  BY <1>5 DEF TypeOK, AgentReplies, Forward, HandleWebhook, ForwardReply, ReplyFails
<1>6. CASE Restart
  BY <1>1, <1>6 DEF TypeOK, Reply, Restart, ReplyAt
<1>7. ASSUME NEW k \in Callers, Handle(k) \/ NoAnswer(k) \/ Abort(k)
      PROVE  UNCHANGED reply
  <2>1. CASE Works(k)
    BY <2>1 DEF Works, GetContactID, SearchContact, CreateContact, SaveContactID,
                GetConversationID, FindConversation, CreateConversation, SaveConversationID
  <2>2. QED BY <1>7, <2>1 DEF Handle, Works, PostIncomingMessage, Refused, NoAnswer, Abort
<1>8. CASE \/ \E e \in Event : Enqueue(e)
           \/ BufferHistory \/ SyncInbound \/ EventFails \/ UNCHANGED vars
           \/ \E k \in Syncs : LoadBuffer(k) \/ DeleteBuffer(k)
           \/ \E a \in Accounts \cup {None} : Reconfigure(a)
  BY <1>8 DEF Enqueue, BufferHistory, SyncInbound, EventFails, LoadBuffer, DeleteBuffer,
              Reconfigure, vars
<1>9. QED BY <1>2, <1>3, <1>4, <1>5, <1>6, <1>7, <1>8 DEF Next, Forward

\* A reply stays with the chat of its conversation.
LEMMA ReplyStep ==
  ASSUME TypeOK, ShapeInv, ReplyInv, [Next]_vars
  PROVE  ReplyInv'
<1>1. SUFFICES ASSUME NEW r \in Replies, reply'[r] # None
               PROVE  IsOf(reply[r].account, reply[r].conv, reply[r].chat)'
  BY DEF ReplyInv
<1>2. TypeOK'
  BY TypeStep
<1>3. PICK a \in Accounts, n \in Nat, c \in Chats :
        a = reply'[r].account /\ n = reply'[r].conv /\ c = reply'[r].chat
  BY <1>1, <1>2 DEF TypeOK, Reply
<1>4. CASE \E b \in Accounts : \E i \in DOMAIN conversations[b] :
             reply'[r].account = b /\ reply'[r].conv = i /\ reply'[r].chat = Owner(b, i)
  <2>1. IsOf(a, n, c)
    BY <1>3, <1>4 DEF IsOf
  <2>2. IsOf(a, n, c)'
    BY <2>1, Kept
  <2>3. QED BY <1>3, <2>2
<1>5. CASE /\ reply[r] # None
           /\ reply'[r].account = reply[r].account /\ reply'[r].conv = reply[r].conv
           /\ reply'[r].chat = reply[r].chat
  <2>1. IsOf(a, n, c)
    BY <1>3, <1>5 DEF ReplyInv
  <2>2. IsOf(a, n, c)'
    BY <2>1, Kept
  <2>3. QED BY <1>3, <2>2
<1>6. QED BY <1>1, <1>4, <1>5, RepliesMove

\* A message strays only when the conversation found for it is not its chat's.
LEMMA StraysMove ==
  ASSUME TypeOK, [Next]_vars
  PROVE  UNCHANGED strays \/ \E k \in Callers : Arrive(k)
<1>1. ASSUME NEW k \in Callers, Handle(k) \/ NoAnswer(k) \/ Abort(k), ~Arrive(k)
      PROVE  UNCHANGED strays
  <2>1. CASE Works(k)
    BY <2>1 DEF Works, GetContactID, SearchContact, CreateContact, SaveContactID,
                GetConversationID, FindConversation, CreateConversation, SaveConversationID, outcome
  <2>2. CASE NoAnswer(k)
    BY <1>1, <2>2 DEF NoAnswer
  <2>3. QED BY <1>1, <2>1, <2>2 DEF Handle, Works, PostIncomingMessage, Refused, Abort, outcome
<1>2. CASE \/ \E e \in Event : Enqueue(e)
           \/ BufferHistory \/ SyncInbound \/ EventFails \/ Restart \/ UNCHANGED vars
           \/ \E k \in Syncs : LoadBuffer(k) \/ DeleteBuffer(k)
           \/ \E a \in Accounts \cup {None} : Reconfigure(a)
           \/ \E r \in Replies : AgentReplies(r) \/ Forward(r) \/ ReplyFails(r)
  BY <1>2 DEF Enqueue, BufferHistory, SaveHistoryMessages, SyncInbound, EventFails, Restart,
              LoadBuffer, DeleteBuffer, Reconfigure, AgentReplies, Forward, HandleWebhook,
              ForwardReply, ReplyFails, vars, outcome
<1>3. QED BY <1>1, <1>2 DEF Next

\* Nothing crosses into another chat while the account stays, but where the search does.
LEMMA StraysStep ==
  ASSUME TypeOK, ShapeInv, ReplyInv, OwnInv, NothingStraysUnlessMoved, [Next]_vars
  PROVE  NothingStraysUnlessMoved'
<1>1. SUFFICES ASSUME ~moved'
               PROVE  /\ strays' = {}
                      /\ \A r \in Replies : reply'[r] # None /\ reply'[r].to # None
                           => <<reply'[r].to, reply'[r].chat>> \in Hits
  BY DEF NothingStraysUnlessMoved
<1>2. ~moved
  BY <1>1, AccountStays
<1>3. strays' = {}
  <2>1. ASSUME NEW k \in Callers, Arrive(k) PROVE strays' = strays
    <3>1. Found(k) /\ call[k].step = "post"
      BY <1>2, <2>1 DEF Arrive, At, OwnInv
    <3>2. <<ChatInHand(k), Owner(call[k].account, call[k].conv)>> \in Hits
      BY <3>1 DEF Found, Reaches, Fits
    <3>3. QED BY <2>1, <3>2 DEF Arrive
  <2>2. QED BY <1>2, <2>1, StraysMove DEF NothingStraysUnlessMoved
<1>4. ASSUME NEW r \in Replies, reply[r] # None, account = reply[r].account,
             NEW c \in ChatsOfConversation(reply[r].conv)
      PROVE  <<c, reply[r].chat>> \in Hits
  <2>1. IsOf(reply[r].account, reply[r].conv, reply[r].chat)
    BY <1>4 DEF ReplyInv
  <2>2. reply[r].account \in Accounts
    BY <1>4 DEF TypeOK, Reply
  <2>3. reply[r].conv # 0
    BY <2>1, <2>2, IdType DEF IsOf
  <2>4. Reaches(account, reply[r].conv, c)
    BY <1>2, <1>4, <2>3 DEF OwnInv, ChatsOfConversation
  <2>5. QED BY <1>4, <2>1, <2>4 DEF IsOf, Reaches, Fits
<1>5. ASSUME NEW r \in Replies, reply'[r] # None, reply'[r].to # None
      PROVE  <<reply'[r].to, reply'[r].chat>> \in Hits
  BY <1>2, <1>4, <1>5, RepliesMove DEF NothingStraysUnlessMoved
<1>6. QED BY <1>3, <1>5

-----------------------------------------------------------------------------

\* An event waits in the channel, or is the live message the worker has in hand.
InChannel(e) == \E i \in DOMAIN eventCh : eventCh[i] = e
InHand(e) == call[Worker] # None /\ e = [type |-> "MessageReceived", msgs |-> Pending(Worker)]

\* The worker's call is about one live message.
OneLive ==
  call[Worker] # None =>
    \E m \in Live : IF call[Worker].step = "next" THEN call[Worker].todo = {m}
                    ELSE call[Worker].todo = {} /\ call[Worker].msg = m

\* An event that is not settled is in one place.
HeldOnce ==
  /\ \A e \in Event : status[e] = "open" <=> InChannel(e) \/ InHand(e)
  /\ \A e \in Event : ~(InChannel(e) /\ InHand(e))
  /\ \A i, j \in DOMAIN eventCh : eventCh[i] = eventCh[j] => i = j

\* Taking the head of a channel without duplicates takes one event out of it.
LEMMA TailHolds ==
  ASSUME TypeOK, HeldOnce, eventCh # <<>>, eventCh' = Tail(eventCh)
  PROVE  /\ Head(eventCh) \in Event /\ InChannel(Head(eventCh))
         /\ \A e \in Event : InChannel(e)' <=> InChannel(e) /\ e # Head(eventCh)
         /\ \A i, j \in DOMAIN eventCh' : eventCh'[i] = eventCh'[j] => i = j
<1>1. /\ eventCh \in Seq(Event) /\ Len(eventCh) \in Nat \ {0} /\ DOMAIN eventCh = 1 .. Len(eventCh)
      /\ Head(eventCh) = eventCh[1] /\ Head(eventCh) \in Event
  BY DEF TypeOK
<1>2. /\ DOMAIN eventCh' = 1 .. Len(eventCh) - 1
      /\ \A i \in 1 .. Len(eventCh) - 1 : eventCh'[i] = eventCh[i + 1]
  BY <1>1
<1>3. InChannel(Head(eventCh))
  BY <1>1 DEF InChannel
<1>4. ASSUME NEW e \in Event, InChannel(e)' PROVE InChannel(e) /\ e # Head(eventCh)
  <2>1. PICK i \in 1 .. Len(eventCh) - 1 : eventCh[i + 1] = e
    BY <1>2, <1>4 DEF InChannel
  <2>2. i + 1 \in DOMAIN eventCh /\ 1 \in DOMAIN eventCh /\ i + 1 # 1
    BY <1>1, <2>1
  <2>3. QED BY <1>1, <2>1, <2>2 DEF InChannel, HeldOnce
<1>5. ASSUME NEW e \in Event, InChannel(e), e # Head(eventCh) PROVE InChannel(e)'
  <2>1. PICK i \in 1 .. Len(eventCh) : eventCh[i] = e
    BY <1>1, <1>5 DEF InChannel
  <2>2. i - 1 \in 1 .. Len(eventCh) - 1 /\ (i - 1) + 1 = i
    BY <1>1, <1>5, <2>1
  <2>3. eventCh'[i - 1] = e
    BY <1>2, <2>1, <2>2
  <2>4. QED BY <1>2, <2>2, <2>3 DEF InChannel
<1>6. ASSUME NEW i \in DOMAIN eventCh', NEW j \in DOMAIN eventCh', eventCh'[i] = eventCh'[j] PROVE i = j
  <2>1. i + 1 \in DOMAIN eventCh /\ j + 1 \in DOMAIN eventCh /\ eventCh[i + 1] = eventCh[j + 1]
    BY <1>1, <1>2, <1>6
  <2>2. i + 1 = j + 1
    BY <2>1 DEF HeldOnce
  <2>3. i \in Nat /\ j \in Nat
    BY <1>1, <1>2, <1>6
  <2>4. QED BY <2>2, <2>3
<1>7. QED BY <1>1, <1>3, <1>4, <1>5, <1>6

\* Only what the worker has in hand changes with its call.
LEMMA HandStays ==
  ASSUME call'[Worker] = call[Worker]
  PROVE  /\ \A e : InHand(e)' <=> InHand(e)
         /\ OneLive => OneLive'
BY DEF InHand, Pending, OneLive

\* An event enters the channel once.
LEMMA EnqueueHolds ==
  ASSUME TypeOK, HeldOnce, OneLive, NEW e \in Event, Enqueue(e)
  PROVE  HeldOnce' /\ OneLive'
<1>1. (\A f : InHand(f)' <=> InHand(f)) /\ OneLive'
  BY HandStays DEF Enqueue
<1>2. /\ eventCh \in Seq(Event) /\ Len(eventCh) \in Nat /\ DOMAIN eventCh = 1 .. Len(eventCh)
      /\ status[e] = "unraised" /\ status \in [Event -> {"unraised", "open", "settled"}]
      /\ ~InChannel(e) /\ ~InHand(e)
  BY DEF TypeOK, Enqueue, HeldOnce
<1>3. CASE eventCh' = Append(eventCh, e) /\ status' = [status EXCEPT ![e] = "open"]
  <2>1. /\ DOMAIN eventCh' = 1 .. Len(eventCh) + 1 /\ eventCh'[Len(eventCh) + 1] = e
        /\ \A i \in 1 .. Len(eventCh) : eventCh'[i] = eventCh[i]
    BY <1>2, <1>3
  <2>2. \A f \in Event : InChannel(f)' <=> InChannel(f) \/ f = e
    <3>1. ASSUME NEW f \in Event, InChannel(f)' PROVE InChannel(f) \/ f = e
      <4>1. PICK i \in 1 .. Len(eventCh) + 1 : eventCh'[i] = f
        BY <2>1, <3>1 DEF InChannel
      <4>2. i \in 1 .. Len(eventCh) \/ i = Len(eventCh) + 1
        BY <1>2, <4>1
      <4>3. QED BY <1>2, <2>1, <4>1, <4>2 DEF InChannel
    <3>2. ASSUME NEW f \in Event, InChannel(f) PROVE InChannel(f)'
      <4>1. PICK i \in 1 .. Len(eventCh) : eventCh[i] = f
        BY <1>2, <3>2 DEF InChannel
      <4>2. i \in DOMAIN eventCh' /\ eventCh'[i] = f
        BY <1>2, <2>1, <4>1
      <4>3. QED BY <4>2 DEF InChannel
    <3>3. InChannel(e)'
      <4>1. Len(eventCh) + 1 \in DOMAIN eventCh'
        BY <1>2, <2>1
      <4>2. QED BY <2>1, <4>1 DEF InChannel
    <3>4. QED BY <3>1, <3>2, <3>3
  <2>3. ASSUME NEW i \in DOMAIN eventCh', NEW j \in DOMAIN eventCh', eventCh'[i] = eventCh'[j] PROVE i = j
    <3>1. /\ i \in 1 .. Len(eventCh) \/ i = Len(eventCh) + 1
          /\ j \in 1 .. Len(eventCh) \/ j = Len(eventCh) + 1
      BY <1>2, <2>1, <2>3
    <3>2. \A n \in 1 .. Len(eventCh) : eventCh[n] # e
      BY <1>2 DEF InChannel
    <3>3. QED BY <1>2, <2>1, <2>3, <3>1, <3>2 DEF HeldOnce
  <2>4. \A f \in Event : status'[f] = IF f = e THEN "open" ELSE status[f]
    BY <1>2, <1>3
  <2>5. \A f \in Event : status'[f] = "open" <=> InChannel(f)' \/ InHand(f)'
    BY <1>1, <2>2, <2>4 DEF HeldOnce
  <2>6. \A f \in Event : ~(InChannel(f)' /\ InHand(f)')
    BY <1>1, <1>2, <2>2 DEF HeldOnce
  <2>7. QED BY <1>1, <2>3, <2>5, <2>6 DEF HeldOnce
<1>4. CASE eventCh' = eventCh /\ status' = [status EXCEPT ![e] = "settled"]
  <2>1. /\ \A f \in Event : InChannel(f)' <=> InChannel(f)
        /\ \A f \in Event : status'[f] = IF f = e THEN "settled" ELSE status[f]
    BY <1>2, <1>4 DEF InChannel
  <2>2. \A f \in Event : status'[f] = "open" <=> InChannel(f)' \/ InHand(f)'
    BY <1>1, <1>2, <2>1 DEF HeldOnce
  <2>3. \A f \in Event : ~(InChannel(f)' /\ InHand(f)')
    BY <1>1, <2>1 DEF HeldOnce
  <2>4. \A i, j \in DOMAIN eventCh' : eventCh'[i] = eventCh'[j] => i = j
    BY <1>4 DEF HeldOnce
  <2>5. QED BY <1>1, <2>2, <2>3, <2>4 DEF HeldOnce
<1>5. QED BY <1>3, <1>4 DEF Enqueue

\* An event leaves the channel settled, or into the worker's hand.
LEMMA TakeHolds ==
  ASSUME TypeOK, HeldOnce, OneLive, BufferHistory \/ SyncInbound \/ EventFails
  PROVE  HeldOnce' /\ OneLive'
<1> DEFINE h == Head(eventCh)
<1>1. call[Worker] = None /\ eventCh # <<>> /\ eventCh' = Tail(eventCh)
  BY DEF BufferHistory, SyncInbound, EventFails, Take
<1>2. /\ h \in Event /\ InChannel(h)
      /\ \A e \in Event : InChannel(e)' <=> InChannel(e) /\ e # h
      /\ \A i, j \in DOMAIN eventCh' : eventCh'[i] = eventCh'[j] => i = j
  BY <1>1, TailHolds
<1>3. \A e : ~InHand(e)
  BY <1>1 DEF InHand
<1>4. CASE status' = [status EXCEPT ![h] = "settled"] /\ UNCHANGED call
  <2>1. (\A e : ~InHand(e)') /\ OneLive'
    BY <1>3, <1>4, HandStays
  <2>2. \A e \in Event : status'[e] = IF e = h THEN "settled" ELSE status[e]
    BY <1>2, <1>4 DEF TypeOK
  <2>3. \A e \in Event : status'[e] = "open" <=> InChannel(e)' \/ InHand(e)'
    BY <1>2, <1>3, <2>1, <2>2 DEF HeldOnce
  <2>4. QED BY <1>2, <2>1, <2>3 DEF HeldOnce
<1>5. CASE SyncInbound /\ Configured /\ call' = [call EXCEPT ![Worker] = NewCall(account, h.msgs)] /\ UNCHANGED status
  <2>1. h.type = "MessageReceived"
    BY <1>5 DEF SyncInbound, Take
  <2>2. PICK m \in Live : h = [type |-> "MessageReceived", msgs |-> {m}]
    <3>1. h \in [type : {"MessageReceived"}, msgs : {{m} : m \in Live}]
      BY <1>2, <2>1 DEF Event
    <3>2. QED BY <3>1
  <2>3. call'[Worker] = NewCall(account, {m})
    <3>1. h.msgs = {m} /\ Worker \in Callers
      BY <2>2 DEF Callers
    <3>2. call'[Worker] = NewCall(account, h.msgs)
      BY <1>5, <3>1 DEF TypeOK
    <3>3. QED BY <3>1, <3>2
  <2>4. call'[Worker] # None
    <3>1. account \in Accounts
      BY <1>5 DEF Configured, TypeOK
    <3>2. NewCall(account, {m}) \in Call
      BY <3>1, NewCallType, BridgeAssumption
    <3>3. QED BY <2>3, <3>2, NoValueAssumption
  <2>5. call'[Worker].step = "next" /\ call'[Worker].todo = {m}
    BY <2>3 DEF NewCall
  <2>6. OneLive' /\ Pending(Worker)' = {m}
    BY <2>5 DEF OneLive, Pending
  <2>7. \A e : InHand(e)' <=> e = h
    BY <2>2, <2>4, <2>6 DEF InHand
  <2>8. \A e \in Event : status'[e] = "open" <=> InChannel(e)' \/ InHand(e)'
    BY <1>2, <1>3, <1>5, <2>7 DEF HeldOnce
  <2>9. QED BY <1>2, <2>6, <2>7, <2>8 DEF HeldOnce
<1>6. QED BY <1>4, <1>5 DEF BufferHistory, SyncInbound, EventFails

\* The worker settles the event it has in hand, and no other.
LEMMA LeaveHolds ==
  ASSUME TypeOK, HeldOnce, OneLive, NEW k \in Callers, call[k] # None,
         k = Worker => call[k].step # "next", Leave(k), eventCh' = eventCh
  PROVE  HeldOnce' /\ OneLive'
<1>1. \A e : InChannel(e)' <=> InChannel(e)
  BY DEF InChannel
<1>2. CASE k = Worker
  <2>1. PICK m \in Live : call[Worker].step # "next" /\ call[Worker].todo = {} /\ call[Worker].msg = m
    BY <1>2 DEF OneLive
  <2> DEFINE h == [type |-> "MessageReceived", msgs |-> {m}]
  <2>2. h \in Event
    BY DEF Event
  <2>3. \A e : InHand(e) <=> e = h
    BY <1>2, <2>1 DEF InHand, Pending
  <2>4. status' = [status EXCEPT ![h] = "settled"] /\ call' = [call EXCEPT ![Worker] = None]
    BY <1>2, <2>1 DEF Leave
  <2>5. call'[Worker] = None
    BY <2>4 DEF TypeOK, Callers
  <2>6. (\A e : ~InHand(e)') /\ OneLive'
    BY <2>5 DEF InHand, OneLive
  <2>7. \A e \in Event : status'[e] = IF e = h THEN "settled" ELSE status[e]
    BY <2>2, <2>4 DEF TypeOK
  <2>8. \A e \in Event : status'[e] = "open" <=> InChannel(e)' \/ InHand(e)'
    BY <1>1, <2>3, <2>6, <2>7 DEF HeldOnce
  <2>9. QED BY <2>6, <2>8 DEF HeldOnce
<1>3. CASE k # Worker
  <2>1. call'[Worker] = call[Worker] /\ status' = status
    BY <1>3 DEF Leave, TypeOK, Callers
  <2>2. (\A e : InHand(e)' <=> InHand(e)) /\ OneLive'
    BY <2>1, HandStays
  <2>3. \A e \in Event : status'[e] = "open" <=> InChannel(e)' \/ InHand(e)'
    BY <1>1, <2>1, <2>2 DEF HeldOnce
  <2>4. \A e \in Event : ~(InChannel(e)' /\ InHand(e)')
    BY <1>1, <2>2 DEF HeldOnce
  <2>5. QED BY <2>2, <2>3, <2>4 DEF HeldOnce
<1>4. QED BY <1>2, <1>3

\* A step on a message changes nothing of this.
LEMMA QuietHolds ==
  ASSUME TypeOK, ShapeInv, HeldOnce, OneLive, UNCHANGED events,
         (call'[Worker] = call[Worker]) \/ Works(Worker)
  PROVE  HeldOnce' /\ OneLive'
<1>1. Worker \in Callers
  BY DEF Callers
<1>2. (\A e : InHand(e)' <=> InHand(e)) /\ OneLive'
  <2>1. CASE Works(Worker)
    <3>1. /\ call[Worker] # None /\ call'[Worker].step # "next" /\ Pending(Worker)' = Pending(Worker)
          /\ IF call[Worker].step = "next" THEN call'[Worker].todo = call[Worker].todo \ {call'[Worker].msg}
             ELSE call'[Worker].msg = call[Worker].msg /\ call'[Worker].todo = call[Worker].todo
      BY <1>1, <2>1, WorkKeeps
    <3>2. call'[Worker] # None
      BY <1>1, <2>1, WorkKeeps
    <3>3. PICK m \in Live : IF call[Worker].step = "next" THEN call[Worker].todo = {m}
                            ELSE call[Worker].todo = {} /\ call[Worker].msg = m
      BY <3>1 DEF OneLive
    <3>4. call'[Worker].todo = {} /\ call'[Worker].msg = m
      BY <3>1, <3>3 DEF Pending
    <3>5. QED BY <3>1, <3>2, <3>4 DEF InHand, OneLive
  <2>2. QED BY <2>1, HandStays
<1>3. \A e : InChannel(e)' <=> InChannel(e)
  BY DEF InChannel, events
<1>4. \A e \in Event : status'[e] = "open" <=> InChannel(e)' \/ InHand(e)'
  BY <1>2, <1>3 DEF HeldOnce, events
<1>5. \A e \in Event : ~(InChannel(e)' /\ InHand(e)')
  BY <1>2, <1>3 DEF HeldOnce
<1>6. \A i, j \in DOMAIN eventCh' : eventCh'[i] = eventCh'[j] => i = j
  BY DEF HeldOnce, events
<1>7. QED BY <1>2, <1>4, <1>5, <1>6 DEF HeldOnce

\* Nothing but the channel, the worker and the end of the process moves an event.
LEMMA EventStep ==
  ASSUME TypeOK, ShapeInv, HeldOnce, OneLive, [Next]_vars
  PROVE  HeldOnce' /\ OneLive'
<1>1. Worker \in Callers /\ Worker \notin Syncs
  BY BridgeAssumption DEF Callers
<1>2. ASSUME NEW e \in Event, Enqueue(e) PROVE HeldOnce' /\ OneLive'
  BY <1>2, EnqueueHolds
<1>3. CASE BufferHistory \/ SyncInbound \/ EventFails
  BY <1>3, TakeHolds
<1>4. ASSUME NEW k \in Callers, Works(k) PROVE HeldOnce' /\ OneLive'
  <2>1. UNCHANGED events
    BY <1>4 DEF Works, GetContactID, SearchContact, CreateContact, SaveContactID,
                GetConversationID, FindConversation, CreateConversation, SaveConversationID
  <2>2. call'[Worker] = call[Worker] \/ Works(Worker)
    BY <1>1, <1>4, WorkIsOwn
  <2>3. QED BY <2>1, <2>2, QuietHolds
<1>5. ASSUME NEW k \in Callers, PostIncomingMessage(k) \/ Refused(k) \/ NoAnswer(k)
      PROVE  HeldOnce' /\ OneLive'
  <2>1. call[k] # None /\ call[k].step # "next" /\ Leave(k) /\ eventCh' = eventCh
    BY <1>5 DEF PostIncomingMessage, Arrive, Refused, NoAnswer, GiveUp, At
  <2>2. QED BY <2>1, LeaveHolds
<1>6. ASSUME NEW k \in Callers, Abort(k) PROVE HeldOnce' /\ OneLive'
  <2>1. CASE k = Worker
    <3>1. call[k] # None /\ call[k].step # "next" /\ Leave(k) /\ eventCh' = eventCh
      BY <1>6, <2>1 DEF Abort, At
    <3>2. QED BY <3>1, LeaveHolds
  <2>2. CASE k # Worker
    <3>1. UNCHANGED events /\ call'[Worker] = call[Worker]
      BY <1>1, <1>6, <2>2 DEF Abort, TypeOK, events
    <3>2. QED BY <3>1, QuietHolds
  <2>3. QED BY <2>1, <2>2
<1>7. ASSUME NEW k \in Syncs, LoadBuffer(k) \/ DeleteBuffer(k) PROVE HeldOnce' /\ OneLive'
  <2>1. UNCHANGED events /\ call'[Worker] = call[Worker]
    BY <1>1, <1>7 DEF LoadBuffer, DeleteBuffer, TypeOK
  <2>2. QED BY <2>1, QuietHolds
<1>8. CASE \/ \E r \in Replies : AgentReplies(r) \/ Forward(r) \/ ReplyFails(r)
           \/ \E a \in Accounts \cup {None} : Reconfigure(a)
           \/ UNCHANGED vars
  <2>1. UNCHANGED events /\ UNCHANGED call
    BY <1>8 DEF AgentReplies, Forward, HandleWebhook, ForwardReply, ReplyFails, Reconfigure, vars
  <2>2. QED BY <2>1, QuietHolds
<1>9. CASE Restart
  <2>1. eventCh' = <<>> /\ call'[Worker] = None
    BY <1>1, <1>9 DEF Restart
  <2>2. (\A e : ~InChannel(e)' /\ ~InHand(e)') /\ OneLive'
    BY <2>1 DEF InChannel, InHand, OneLive
  <2>3. \A e \in Event : status'[e] # "open"
    BY <1>9 DEF Restart
  <2>4. QED BY <2>1, <2>2, <2>3 DEF HeldOnce
<1>10. QED BY <1>2, <1>3, <1>4, <1>5, <1>6, <1>7, <1>8, <1>9 DEF Next, Handle, Works

-----------------------------------------------------------------------------

LEMMA InitInv ==
  ASSUME Init
  PROVE  IInv
<1> USE BridgeAssumption, NoValueAssumption
<1>1. TypeOK
  <2>1. eventCh \in Seq(Event) /\ Len(eventCh) <= Capacity
    BY DEF Init
  <2>2. contacts \in [Accounts -> Seq(Chats)] /\ conversations \in [Accounts -> Seq(Nat)]
    BY DEF Init
  <2>3. /\ status \in [Event -> {"unraised", "open", "settled"}]
        /\ contactID \in [Chats -> Nat] /\ conversationID \in [Chats -> Nat]
        /\ call \in [Callers -> Call \cup {None}] /\ reply \in [Replies -> Reply \cup {None}]
    BY DEF Init
  <2>4. /\ buffer \subseteq Messages /\ posted \subseteq Messages /\ strays \subseteq Messages
        /\ lost \subseteq Messages /\ excused \subseteq Messages /\ tangled \subseteq Chats
        /\ account \in Accounts \cup {None}
    BY DEF Init
  <2>5. moved \in BOOLEAN
    BY DEF Init
  <2>6. faults \in 0 .. MaxFaults
    BY DEF Init
  <2>7. QED BY <2>1, <2>2, <2>3, <2>4, <2>5, <2>6 DEF TypeOK
<1>2. ShapeInv /\ ReplayInv /\ LossIsExcused /\ ReplyInv
  BY DEF Init, ShapeInv, ReplayInv, LossIsExcused, ReplyInv, Callers
<1>3. OwnInv /\ NothingStraysUnlessMoved
  BY DEF Init, OwnInv, NothingStraysUnlessMoved
<1>4. QED BY <1>1, <1>2, <1>3 DEF IInv

\* The whole invariant is inductive.
THEOREM Invariance == Spec => []IInv
<1>1. Init => IInv
  BY InitInv
<1>2. IInv /\ [Next]_vars => IInv'
  BY TypeStep, ShapeStep, ReplayStep, ReplyStep, OwnStep, StraysStep DEF IInv
<1>3. QED BY <1>1, <1>2, PTL DEF Spec

\* Every variable keeps its type, the channel its capacity, and the faults their bound.
THEOREM TypeCorrect == Spec => []TypeOK
<1>1. IInv => TypeOK
  BY DEF IInv
<1>2. QED BY <1>1, Invariance, PTL

\* SyncHistory deletes a buffered message that has reached no conversation only if
\* it, or another replay, failed on that message, or a history event saved it while
\* a replay was going on: however many replays run, abort and restart.
THEOREM LossesAreExcused == Spec => []LossIsExcused
<1>1. IInv => LossIsExcused
  BY DEF IInv
<1>2. QED BY <1>1, Invariance, PTL

\* While the account of the settings stays, a message is posted to another chat's
\* conversation, and an agent's reply forwarded to another chat, only where Chatwoot's
\* search takes the one for the other, whatever the worker, the replays and Chatwoot
\* race to find, create and map.
THEOREM NothingStrays == Spec => []NothingStraysUnlessMoved
<1>1. IInv => NothingStraysUnlessMoved
  BY DEF IInv
<1>2. QED BY <1>1, Invariance, PTL

\* Between its acceptance and its end an event is in one place, one entry of the
\* channel or the worker's hand, however messages, failures and restarts interleave:
\* none is forgotten open, and none is worked on twice.
THEOREM EventsAreHeldOnce == Spec => []HeldOnce
<1>1. Init => HeldOnce /\ OneLive
  BY DEF Init, HeldOnce, OneLive, InChannel, InHand, Callers
<1>2. IInv /\ HeldOnce /\ OneLive /\ [Next]_vars => HeldOnce' /\ OneLive'
  BY EventStep DEF IInv
<1>3. QED BY <1>1, <1>2, Invariance, PTL DEF Spec
=============================================================================

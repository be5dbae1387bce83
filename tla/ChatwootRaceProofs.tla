-------------------------- MODULE ChatwootRaceProofs ---------------------------
(***************************************************************************)
(* Proofs about ChatwootBridge for any messages, chats, replays, replies   *)
(* and accounts: that as long as no call fails, a chat gets a second       *)
(* conversation only if it is tangled, and a reply is forgotten only then  *)
(* or before its conversation is mapped.  The argument: a chat that is not *)
(* tangled has one contact and one conversation at most, whoever is about  *)
(* to create one has still none beside it, and the conversation is mapped  *)
(* or in the hands of a caller that is about to map it.                    *)
(***************************************************************************)
EXTENDS ChatwootBridgeProofs, FiniteSetTheorems

\* Caller k is about to map conversation n to chat c.
Holds(k, n, c) == At(k, "mapConversation") /\ ChatInHand(k) = c /\ call[k].conv = n

\* What a chat has that is not tangled.
Sole(c) ==
  /\ \A m, n \in ContactsOf(account, c) : m = n
  /\ \A m, n : IsOf(account, m, c) /\ IsOf(account, n, c) => m = n
  /\ \A k \in Callers : At(k, "create") /\ ChatInHand(k) = c => ContactsOf(account, c) = {}
  /\ \A k \in Callers : At(k, "open") /\ ChatInHand(k) = c => \A n : ~IsOf(account, n, c)
  /\ \A n : IsOf(account, n, c) => conversationID[c] = n \/ \E k \in Callers : Holds(k, n, c)

\* Unless something has failed, the settings are the first ones, the other accounts
\* are empty, and the chats that are not tangled have one contact and one
\* conversation at most.
SoleInv ==
  faults = 0 =>
    /\ ~moved
    /\ \A a \in Accounts \ {account} : contacts[a] = <<>> /\ conversations[a] = <<>>
    /\ \A c \in Chats \ tangled : Sole(c)

-----------------------------------------------------------------------------

\* Faults are counted, and only a fault changes the settings.
LEMMA BoundsMove ==
  ASSUME TypeOK, [Next]_vars
  PROVE  /\ UNCHANGED faults \/ Fault
         /\ UNCHANGED <<account, moved>> \/ Fault
<1>1. ASSUME NEW k \in Callers, Works(k)
      PROVE  (UNCHANGED faults \/ Fault) /\ UNCHANGED <<account, moved>>
  BY <1>1 DEF Works, GetContactID, SearchContact, CreateContact, SaveContactID, GetConversationID,
              FindConversation, CreateConversation, SaveConversationID, bounds
<1>2. ASSUME NEW k \in Callers, PostIncomingMessage(k) \/ Refused(k) \/ NoAnswer(k) \/ Abort(k)
      PROVE  (UNCHANGED faults \/ Fault) /\ UNCHANGED <<account, moved>>
  BY <1>2 DEF PostIncomingMessage, Refused, NoAnswer, Abort, bounds
<1>3. CASE \/ \E e \in Event : Enqueue(e)
           \/ BufferHistory \/ SyncInbound \/ EventFails \/ Restart \/ UNCHANGED vars
           \/ \E k \in Syncs : LoadBuffer(k) \/ DeleteBuffer(k)
           \/ \E r \in Replies : AgentReplies(r) \/ Forward(r) \/ ReplyFails(r)
  BY <1>3 DEF Enqueue, BufferHistory, SyncInbound, EventFails, Restart, LoadBuffer, DeleteBuffer,
              AgentReplies, Forward, HandleWebhook, ForwardReply, ReplyFails, vars, bounds
<1>4. CASE \E a \in Accounts \cup {None} : Reconfigure(a)
  BY <1>4 DEF Reconfigure
<1>5. QED BY <1>1, <1>2, <1>3, <1>4 DEF Next, Handle, Works

\* Where nothing has failed, no step so far was a fault.
LEMMA FaultFree ==
  ASSUME TypeOK, [Next]_vars, faults' = 0
  PROVE  faults = 0 /\ ~Fault /\ UNCHANGED <<account, moved>> /\ tangled \subseteq tangled'
<1>1. faults \in Nat
  BY BridgeAssumption DEF TypeOK
<1>2. QED BY <1>1, BoundsMove, TangledGrows DEF Fault

\* Where nothing fails, Chatwoot gets what is created and answered for.
LEMMA CreationsMove ==
  ASSUME TypeOK, ShapeInv, [Next]_vars, faults' = 0
  PROVE  /\ UNCHANGED contacts \/ \E k \in Callers : CreateContact(k)
         /\ UNCHANGED conversations \/ \E k \in Callers : CreateConversation(k)
<1>1. ~Fault
  BY FaultFree
<1>2. ASSUME NEW k \in Callers, Works(k)
      PROVE  /\ UNCHANGED contacts \/ CreateContact(k)
             /\ UNCHANGED conversations \/ CreateConversation(k)
  BY <1>2 DEF Works, GetContactID, SearchContact, CreateContact, SaveContactID, GetConversationID,
              FindConversation, CreateConversation, SaveConversationID, chatwoot
<1>3. ASSUME ~\E k \in Callers : Works(k)
      PROVE  UNCHANGED chatwoot
  BY <1>1, <1>3
     DEF Next, Handle, Works, Enqueue, BufferHistory, SyncInbound, EventFails, PostIncomingMessage, Refused,
         NoAnswer, Abort, LoadBuffer, DeleteBuffer, AgentReplies, Forward, HandleWebhook, ForwardReply,
         ReplyFails, Reconfigure, Restart, vars
<1>4. QED BY <1>2, <1>3 DEF chatwoot

\* Who is about to create was so before, or has just searched in vain.
LEMMA CreatorsMove ==
  ASSUME TypeOK, ShapeInv, [Next]_vars, faults' = 0, NEW k \in Callers, NEW step \in {"create", "open"},
         At(k, step)'
  PROVE  \/ call'[k] = call[k]
         \/ /\ step = "create" /\ SearchContact(k)
            /\ HitsOf(call[k].account, ChatInHand(k)) = {} /\ ChatInHand(k)' = ChatInHand(k)
         \/ /\ step = "open" /\ FindConversation(k)
            /\ ConversationsOf(call[k].account, call[k].contact) = {} /\ ChatInHand(k)' = ChatInHand(k)
<1>1. ~Fault /\ call'[k] # None /\ call'[k].step = step
  BY FaultFree DEF At
<1>2. SUFFICES ASSUME call'[k] # call[k]
               PROVE  \/ /\ step = "create" /\ SearchContact(k)
                         /\ HitsOf(call[k].account, ChatInHand(k)) = {} /\ ChatInHand(k)' = ChatInHand(k)
                      \/ /\ step = "open" /\ FindConversation(k)
                         /\ ConversationsOf(call[k].account, call[k].contact) = {}
                         /\ ChatInHand(k)' = ChatInHand(k)
  OBVIOUS
<1>3. Works(k)
  BY <1>1, <1>2, CallMoves, NextStep
<1>4. call[k] # None /\ call[k] \in Call
  BY <1>3, WorkKeeps, CallType
<1>5. ASSUME NEW id \in Nat, HoldContact(k, id) \/ HoldConversation(k, id) PROVE FALSE
  <2>1. PICK new \in Call : call' = [call EXCEPT ![k] = new] /\ new.step \in {"mapContact", "mapConversation"}
    BY <1>4, <1>5, HoldContactMoves, HoldConversationMoves
  <2>2. call'[k] = new
    BY <2>1 DEF TypeOK
  <2>3. QED BY <1>1, <2>1, <2>2
<1>6. ASSUME NEW s \in Step, GoTo(k, s) PROVE s = step /\ ChatInHand(k)' = ChatInHand(k)
  <2>1. PICK new \in Call : call' = [call EXCEPT ![k] = new] /\ new.msg = call[k].msg /\ new.step = s
    BY <1>4, <1>6, StepMoves
  <2>2. call'[k] = new
    BY <2>1 DEF TypeOK
  <2>3. QED BY <1>1, <2>1, <2>2 DEF ChatInHand
<1>7. ASSUME NEW m \in Messages, GetContactID(k, m) PROVE FALSE
  <2>1. PICK new \in Call : call' = [call EXCEPT ![k] = new] /\ new.step \in {"conversation", "search"}
    BY <1>7, GetContactMoves
  <2>2. call'[k] = new
    BY <2>1 DEF TypeOK
  <2>3. QED BY <1>1, <2>1, <2>2
<1>8. ASSUME GetConversationID(k) PROVE FALSE
  <2>1. PICK new \in Call : call' = [call EXCEPT ![k] = new] /\ new.step \in {"post", "find"}
    BY <1>8, GetConversationMoves
  <2>2. call'[k] = new
    BY <2>1 DEF TypeOK
  <2>3. QED BY <1>1, <2>1, <2>2
<1>9. "create" \in Step /\ "open" \in Step /\ "conversation" \in Step /\ "post" \in Step
  BY DEF Step
<1>10. CASE SearchContact(k)
  BY <1>1, <1>4, <1>5, <1>6, <1>9, <1>10, FoundType DEF SearchContact
<1>11. CASE FindConversation(k)
  BY <1>1, <1>4, <1>5, <1>6, <1>9, <1>11, FoundType DEF FindConversation
<1>12. ~CreateContact(k) /\ ~CreateConversation(k)
  BY <1>4, <1>5, FoundType DEF CreateContact, CreateConversation
<1>13. ~SaveContactID(k) /\ ~SaveConversationID(k)
  <2>1. SaveContactID(k) \/ SaveConversationID(k) => GoTo(k, "conversation") \/ GoTo(k, "post")
    BY DEF SaveContactID, SaveConversationID, GoTo
  <2>2. QED BY <1>6, <1>9, <2>1
<1>14. QED
  BY <1>3, <1>7, <1>8, <1>10, <1>11, <1>12, <1>13 DEF Works

\* Who is about to map a conversation stays so until it does.
LEMMA HoldersMove ==
  ASSUME TypeOK, ShapeInv, [Next]_vars, faults' = 0, NEW k \in Callers, At(k, "mapConversation")
  PROVE  call'[k] = call[k] \/ SaveConversationID(k)
<1>1. ~Fault /\ call[k] # None /\ call[k].step = "mapConversation"
  BY FaultFree DEF At
<1>2. ASSUME NEW j \in Callers, Works(j) PROVE call'[k] = call[k] \/ SaveConversationID(k)
  <2>1. CASE j = k
    BY <1>1, <1>2, <2>1 DEF Works, GetContactID, SearchContact, CreateContact, SaveContactID,
                GetConversationID, FindConversation, CreateConversation, At
  <2>2. QED BY <1>2, <2>1, WorkIsOwn
<1>3. ASSUME NEW j \in Callers, PostIncomingMessage(j) \/ Refused(j) PROVE call'[k] = call[k]
  <2>1. Leave(j) /\ j # k
    BY <1>1, <1>3 DEF PostIncomingMessage, Arrive, Refused, GiveUp, At
  <2>2. QED BY <2>1 DEF Leave, TypeOK
<1>4. ASSUME NEW j \in Syncs, LoadBuffer(j) \/ DeleteBuffer(j) PROVE call'[k] = call[k]
  <2>1. j # k
    BY <1>1, <1>4 DEF LoadBuffer, DeleteBuffer, At
  <2>2. QED BY <1>4, <2>1 DEF LoadBuffer, DeleteBuffer, TypeOK
<1>5. CASE SyncInbound
  BY <1>1, <1>5 DEF SyncInbound, Take, TypeOK
<1>6. CASE \/ \E e \in Event : Enqueue(e)
           \/ BufferHistory \/ EventFails \/ Restart \/ UNCHANGED vars
           \/ \E j \in Callers : NoAnswer(j) \/ Abort(j)
           \/ \E a \in Accounts \cup {None} : Reconfigure(a)
           \/ \E r \in Replies : AgentReplies(r) \/ Forward(r) \/ ReplyFails(r)
  BY <1>1, <1>6 DEF Enqueue, BufferHistory, EventFails, Restart, NoAnswer, Abort, Reconfigure, AgentReplies,
              Forward, HandleWebhook, ForwardReply, ReplyFails, vars
<1>7. QED BY <1>2, <1>3, <1>4, <1>5, <1>6 DEF Next, Handle, Works

-----------------------------------------------------------------------------

\* While nothing has failed, every caller works with the settings' account.
LEMMA OneAccount ==
  ASSUME TypeOK, ShapeInv, OwnInv, SoleInv, [Next]_vars, faults' = 0
  PROVE  /\ faults = 0 /\ ~moved /\ ~moved' /\ account' = account /\ account \in Accounts
         /\ \A k \in Callers : call[k] # None => call[k].account = account /\ Found(k)
BY FaultFree DEF SoleInv, OwnInv, Found

\* What will do for a chat that is not tangled is its own.
LEMMA OwnFits ==
  ASSUME NEW c \in Chats \ tangled
  PROVE  /\ \A d : Fits(c, d) => d = c
         /\ \A d : Fits(d, c) => d = c
         /\ \A n : Knows(account, n, c) => n \in ContactsOf(account, c)
         /\ \A n : Reaches(account, n, c) => IsOf(account, n, c)
BY DEF Fits, Knows, Reaches, ContactsOf, IsOf

\* The other accounts stay empty.
LEMMA OthersEmpty ==
  ASSUME TypeOK, ShapeInv, OwnInv, SoleInv, [Next]_vars, faults' = 0, NEW a \in Accounts \ {account}
  PROVE  contacts'[a] = <<>> /\ conversations'[a] = <<>>
<1>1. contacts[a] = <<>> /\ conversations[a] = <<>>
  BY OneAccount DEF SoleInv
<1>2. contacts'[a] = contacts[a]
  <2>1. ASSUME NEW k \in Callers, CreateContact(k) PROVE contacts'[a] = contacts[a]
    <3>1. call[k].account = account
      BY <2>1, OneAccount DEF CreateContact, At
    <3>2. QED BY <2>1, <3>1 DEF CreateContact, TypeOK
  <2>2. QED BY <2>1, CreationsMove
<1>3. conversations'[a] = conversations[a]
  <2>1. ASSUME NEW k \in Callers, CreateConversation(k) PROVE conversations'[a] = conversations[a]
    <3>1. call[k].account = account
      BY <2>1, OneAccount DEF CreateConversation, At
    <3>2. QED BY <2>1, <3>1 DEF CreateConversation, TypeOK
  <2>2. QED BY <2>1, CreationsMove
<1>4. QED BY <1>1, <1>2, <1>3

\* A contact that is created is the first of its chat, and no other caller is about
\* to create one; the contacts of the other chats stay as they are.
LEMMA ContactAdded ==
  ASSUME TypeOK, ShapeInv, OwnInv, SoleInv, [Next]_vars, faults' = 0, NEW c \in Chats \ tangled',
         NEW k \in Callers, CreateContact(k)
  PROVE  /\ ChatInHand(k) = c =>
              /\ ContactsOf(account, c)' = {Len(contacts[account]) + 1}
              /\ \A j \in Callers : At(j, "create")' => ChatInHand(j)' # c
         /\ ChatInHand(k) # c => ContactsOf(account, c)' = ContactsOf(account, c)
<1>1. /\ call[k] # None /\ call[k].step = "create" /\ call[k].account = account /\ account' = account
      /\ account \in Accounts /\ contacts[account] \in Seq(Chats) /\ c \in Chats \ tangled
  BY OneAccount, FaultFree DEF CreateContact, At, TypeOK
<1>2. contacts'[account] = Append(contacts[account], ChatInHand(k))
  BY <1>1 DEF CreateContact, TypeOK
<1>3. DOMAIN contacts'[account] = DOMAIN contacts[account] \cup {Len(contacts[account]) + 1}
      /\ contacts'[account][Len(contacts[account]) + 1] = ChatInHand(k)
      /\ \A n \in DOMAIN contacts[account] : contacts'[account][n] = contacts[account][n]
  <2>1. ChatInHand(k) \in Chats
    BY <1>1, HandType
  <2>2. QED BY <1>1, <1>2, <2>1
<1>4. CASE ChatInHand(k) # c
  BY <1>1, <1>3, <1>4 DEF ContactsOf
<1>5. CASE ChatInHand(k) = c
  <2>1. ContactsOf(account, c) = {}
    BY <1>1, <1>5, OneAccount DEF SoleInv, Sole, At
  <2>2. ContactsOf(account, c)' = {Len(contacts[account]) + 1}
    BY <1>1, <1>3, <1>5, <2>1 DEF ContactsOf
  <2>3. ASSUME NEW j \in Callers, At(j, "create")', ChatInHand(j)' = c PROVE FALSE
    <3>1. call'[k].step = "mapContact"
      <4>1. PICK id \in Nat : HoldContact(k, id)
        BY <1>1, FoundType DEF CreateContact
      <4>2. PICK new \in Call : call' = [call EXCEPT ![k] = new] /\ new.step = "mapContact"
        BY <1>1, <4>1, HoldContactMoves
      <4>3. QED BY <4>2 DEF TypeOK
    <3>2. j # k
      BY <2>3, <3>1 DEF At
    <3>3. call'[j] = call[j]
      BY <3>2, WorkIsOwn DEF Works
    <3>4. At(j, "create") /\ ChatInHand(j) = c /\ call[j].account = account
      BY <2>3, <3>3, OneAccount DEF At, ChatInHand
    <3>5. Overtaken(k, "create")
      BY <1>1, <1>5, <3>2, <3>4 DEF Overtaken
    <3>6. QED BY <1>5, <3>5 DEF CreateContact
  <2>4. QED BY <1>5, <2>2, <2>3
<1>6. QED BY <1>4, <1>5

\* What was of a chat stays so, and no conversation becomes one of a chat but a new one.
LEMMA ConversationsStay ==
  ASSUME TypeOK, ShapeInv, [Next]_vars, UNCHANGED conversations, NEW a \in Accounts, NEW c, NEW n
  PROVE  IsOf(a, n, c)' <=> IsOf(a, n, c)
<1>1. ASSUME n \in DOMAIN conversations[a] PROVE Owner(a, n)' = Owner(a, n)
  BY <1>1, Grows DEF ShapeInv, Owner
<1>2. QED BY <1>1 DEF IsOf

\* So is it with a conversation that is created, which its creator is about to map.
LEMMA ConversationAdded ==
  ASSUME TypeOK, ShapeInv, OwnInv, SoleInv, [Next]_vars, faults' = 0, NEW c \in Chats \ tangled',
         NEW k \in Callers, CreateConversation(k)
  PROVE  /\ ChatInHand(k) = c =>
              /\ \A n : ~IsOf(account, n, c)
              /\ \A n : IsOf(account, n, c)' => n = Len(conversations[account]) + 1 /\ Holds(k, n, c)'
              /\ \A j \in Callers : At(j, "open")' => ChatInHand(j)' # c
         /\ ChatInHand(k) # c => \A n : IsOf(account, n, c)' => IsOf(account, n, c)
<1>1. /\ call[k] # None /\ call[k].step = "open" /\ call[k].account = account /\ account' = account
      /\ account \in Accounts /\ conversations[account] \in Seq(Nat) /\ c \in Chats \ tangled
      /\ Knows(account, call[k].contact, ChatInHand(k)) /\ call[k].contact \in Nat
      /\ UNCHANGED contacts /\ (~Overtaken(k, "open") \/ ChatInHand(k) # c)
  BY OneAccount, FaultFree, CallType DEF CreateConversation, At, TypeOK, Found
<1>2. conversations'[account] = Append(conversations[account], call[k].contact)
  BY <1>1 DEF CreateConversation, TypeOK
<1>3. /\ DOMAIN conversations'[account] = DOMAIN conversations[account] \cup {Len(conversations[account]) + 1}
      /\ conversations'[account][Len(conversations[account]) + 1] = call[k].contact
      /\ \A n \in DOMAIN conversations[account] : conversations'[account][n] = conversations[account][n]
  BY <1>1, <1>2
<1>4. \A n : IsOf(account, n, c)'
        => IsOf(account, n, c) \/ (n = Len(conversations[account]) + 1 /\ c = ChatInHand(k))
  <2>1. PICK a \in Accounts : a = account /\ a = account'
    BY <1>1
  <2>2. UNCHANGED contacts
    BY DEF CreateConversation
  <2>3. ASSUME NEW n, IsOf(account, n, c)', n \in DOMAIN conversations[a] PROVE IsOf(account, n, c)
    BY <1>3, <2>1, <2>2, <2>3 DEF IsOf, Owner
  <2>4. ASSUME NEW n, IsOf(account, n, c)', n \notin DOMAIN conversations[a]
        PROVE  n = Len(conversations[account]) + 1 /\ c = ChatInHand(k)
    <3>1. n = Len(conversations[a]) + 1 /\ contacts[a][call[k].contact] = c
      BY <1>3, <2>1, <2>2, <2>4 DEF IsOf, Owner
    <3>2. Fits(ChatInHand(k), c)
      BY <1>1, <2>1, <3>1 DEF Knows
    <3>3. QED BY <1>1, <2>1, <3>1, <3>2, OwnFits
  <2>5. QED BY <2>1, <2>3, <2>4
<1>5. CASE ChatInHand(k) # c
  BY <1>4, <1>5
<1>6. CASE ChatInHand(k) = c
  <2>1. \A n : ~IsOf(account, n, c)
    BY <1>1, <1>6, OneAccount DEF SoleInv, Sole, At
  <2>2. PICK id \in Nat : id = Len(conversations[account]) + 1 /\ HoldConversation(k, id)
    BY <1>1, FoundType DEF CreateConversation
  <2>3. PICK new \in Call : /\ call' = [call EXCEPT ![k] = new] /\ new.msg = call[k].msg
                             /\ new.conv = id /\ new.step = "mapConversation"
    BY <1>1, <2>2, HoldConversationMoves
  <2>4. call'[k] = new /\ call'[k] # None
    BY <2>3, NoValueAssumption DEF TypeOK
  <2>5. Holds(k, id, c)'
    BY <1>6, <2>3, <2>4 DEF Holds, At, ChatInHand
  <2>6. ASSUME NEW j \in Callers, At(j, "open")', ChatInHand(j)' = c PROVE FALSE
    <3>1. j # k
      BY <2>3, <2>4, <2>6 DEF At
    <3>2. call'[j] = call[j]
      BY <3>1, WorkIsOwn DEF Works
    <3>3. At(j, "open") /\ ChatInHand(j) = c /\ call[j].account = account
      BY <2>6, <3>2, OneAccount DEF At, ChatInHand
    <3>4. Overtaken(k, "open")
      BY <1>1, <1>6, <3>1, <3>3 DEF Overtaken
    <3>5. QED BY <1>6, <3>4 DEF CreateConversation
  <2>7. ASSUME NEW n, IsOf(account, n, c)' PROVE n = Len(conversations[account]) + 1 /\ Holds(k, n, c)'
    <3>1. n = id
      BY <1>4, <2>1, <2>2, <2>7
    <3>2. QED BY <2>2, <2>5, <3>1 DEF Holds
  <2>8. QED BY <1>6, <2>1, <2>6, <2>7
<1>7. QED BY <1>5, <1>6

-----------------------------------------------------------------------------

\* A chat that is not tangled keeps its only contact, and whoever creates has none beside it.
LEMMA SoleContact ==
  ASSUME TypeOK, ShapeInv, OwnInv, SoleInv, [Next]_vars, faults' = 0, NEW c \in Chats \ tangled'
  PROVE  /\ \A m, n \in ContactsOf(account, c)' : m = n
         /\ \A j \in Callers : At(j, "create")' /\ ChatInHand(j)' = c => ContactsOf(account, c)' = {}
<1>1. account' = account /\ account \in Accounts /\ Sole(c)
  BY OneAccount, FaultFree DEF SoleInv
<1>2. \A m, n \in ContactsOf(account, c)' : m = n
  <2>1. CASE UNCHANGED contacts
    BY <1>1, <2>1 DEF Sole, ContactsOf
  <2>2. ASSUME NEW k \in Callers, CreateContact(k)
        PROVE  \A m, n \in ContactsOf(account, c)' : m = n
    BY <1>1, <2>2, ContactAdded DEF Sole
  <2>3. QED BY <2>1, <2>2, CreationsMove
<1>3. ASSUME NEW j \in Callers, At(j, "create")', ChatInHand(j)' = c
      PROVE  ContactsOf(account, c)' = {}
  <2>1. ContactsOf(account, c) = {}
    <3>1. CASE call'[j] = call[j]
      BY <1>1, <1>3, <3>1 DEF Sole, At, ChatInHand
    <3>2. CASE SearchContact(j) /\ HitsOf(call[j].account, ChatInHand(j)) = {} /\ ChatInHand(j)' = ChatInHand(j)
      <4>1. HitsOf(account, c) = {}
        BY <1>3, <3>2, OneAccount DEF SearchContact, At
      <4>2. QED BY <4>1, BridgeAssumption DEF HitsOf, ContactsOf
    <3>3. QED BY <1>3, <3>1, <3>2, CreatorsMove
  <2>2. CASE UNCHANGED contacts
    BY <1>1, <2>1, <2>2 DEF ContactsOf
  <2>3. CASE \E k \in Callers : CreateContact(k)
    BY <1>3, <2>1, <2>3, ContactAdded
  <2>4. QED BY <2>2, <2>3, CreationsMove
<1>4. QED BY <1>2, <1>3

\* It keeps its only conversation likewise, mapped or about to be.
LEMMA SoleConversation ==
  ASSUME TypeOK, ShapeInv, OwnInv, SoleInv, [Next]_vars, faults' = 0, NEW c \in Chats \ tangled'
  PROVE  /\ \A m, n : IsOf(account, m, c)' /\ IsOf(account, n, c)' => m = n
         /\ \A j \in Callers : At(j, "open")' /\ ChatInHand(j)' = c => \A n : ~IsOf(account, n, c)'
         /\ \A n : IsOf(account, n, c)' =>
              conversationID'[c] = n \/ \E k \in Callers : Holds(k, n, c)'
<1>1. account' = account /\ account \in Accounts /\ Sole(c) /\ c \in Chats \ tangled
  BY OneAccount, FaultFree DEF SoleInv
<1>2. UNCHANGED conversations => \A n : IsOf(account, n, c)' => IsOf(account, n, c)
  <2>1. PICK a \in Accounts : a = account /\ a = account'
    BY <1>1
  <2>2. \A n : IsOf(account, n, c)' <=> IsOf(a, n, c)'
    BY <2>1 DEF IsOf, Owner
  <2>3. QED BY <2>1, <2>2, ConversationsStay
<1>3. \A m, n : IsOf(account, m, c)' /\ IsOf(account, n, c)' => m = n
  <2>1. CASE UNCHANGED conversations
    BY <1>1, <1>2, <2>1 DEF Sole
  <2>2. ASSUME NEW k \in Callers, CreateConversation(k)
        PROVE  \A m, n : IsOf(account, m, c)' /\ IsOf(account, n, c)' => m = n
    BY <1>1, <2>2, ConversationAdded DEF Sole
  <2>3. QED BY <2>1, <2>2, CreationsMove
<1>4. ASSUME NEW j \in Callers, At(j, "open")', ChatInHand(j)' = c
      PROVE  \A n : ~IsOf(account, n, c)'
  <2>1. \A n : ~IsOf(account, n, c)
    <3>1. CASE call'[j] = call[j]
      BY <1>1, <1>4, <3>1 DEF Sole, At, ChatInHand
    <3>2. CASE /\ FindConversation(j) /\ ChatInHand(j)' = ChatInHand(j)
               /\ ConversationsOf(call[j].account, call[j].contact) = {}
      <4>1. call[j].account = account /\ Knows(account, call[j].contact, c)
        BY <1>4, <3>2, OneAccount DEF FindConversation, At, Found
      <4>2. call[j].contact \in ContactsOf(account, c)
        BY <1>1, <4>1, OwnFits
      <4>3. ASSUME NEW n, IsOf(account, n, c) PROVE FALSE
        <5>1. conversations[account][n] \in ContactsOf(account, c)
          BY <1>1, <4>3 DEF IsOf, Owner, ContactsOf, ShapeInv
        <5>2. conversations[account][n] = call[j].contact
          BY <1>1, <4>2, <5>1 DEF Sole
        <5>3. QED BY <3>2, <4>1, <4>3, <5>2 DEF ConversationsOf, IsOf
      <4>4. QED BY <4>3
    <3>3. QED BY <1>4, <3>1, <3>2, CreatorsMove
  <2>2. CASE UNCHANGED conversations
    BY <1>2, <2>1, <2>2
  <2>3. CASE \E k \in Callers : CreateConversation(k)
    BY <1>4, <2>1, <2>3, ConversationAdded
  <2>4. QED BY <2>2, <2>3, CreationsMove
<1>5. ASSUME NEW n, IsOf(account, n, c)'
      PROVE  conversationID'[c] = n \/ \E k \in Callers : Holds(k, n, c)'
  <2>1. CASE IsOf(account, n, c)
    <3>1. CASE conversationID[c] = n /\ conversationID'[c] # n
      <4>1. PICK k \in Callers : Works(k) /\ conversationID'[c] # conversationID[c]
        BY <3>1, MappingsMove DEF mappings
      <4>2. call[k].step # "next" \/ \E m \in Messages : GetContactID(k, m)
        BY <4>1 DEF Works, SearchContact, CreateContact, SaveContactID, GetConversationID, FindConversation,
             CreateConversation, SaveConversationID, At
      <4>3. SaveConversationID(k) /\ c = ChatInHand(k) /\ conversationID'[c] = call[k].conv
        BY <4>1, <4>2, SavesMove DEF GetContactID, mappings
      <4>4. Reaches(account, call[k].conv, c)
        BY <4>3, OneAccount DEF SaveConversationID, At, Found
      <4>5. IsOf(account, call[k].conv, c)
        BY <1>1, <4>4, OwnFits
      <4>6. QED BY <1>1, <2>1, <3>1, <4>3, <4>5 DEF Sole
    <3>2. ASSUME NEW k \in Callers, Holds(k, n, c)
          PROVE  conversationID'[c] = n \/ Holds(k, n, c)'
      <4>1. CASE call'[k] = call[k]
        BY <3>2, <4>1 DEF Holds, At, ChatInHand
      <4>2. CASE SaveConversationID(k)
        BY <3>2, <4>2, FaultFree DEF SaveConversationID, Holds, TypeOK
      <4>3. QED BY <3>2, <4>1, <4>2, HoldersMove DEF Holds
    <3>3. QED BY <1>1, <2>1, <3>1, <3>2 DEF Sole
  <2>2. CASE ~IsOf(account, n, c)
    <3>1. PICK k \in Callers : CreateConversation(k)
      BY <1>2, <1>5, <2>2, CreationsMove
    <3>2. ChatInHand(k) = c
      BY <1>5, <2>2, <3>1, ConversationAdded
    <3>3. QED BY <1>5, <3>1, <3>2, ConversationAdded
  <2>3. QED BY <2>1, <2>2
<1>6. QED BY <1>3, <1>4, <1>5

\* The invariant is kept.
LEMMA SoleStep ==
  ASSUME TypeOK, ShapeInv, OwnInv, SoleInv, [Next]_vars
  PROVE  SoleInv'
<1>1. SUFFICES ASSUME faults' = 0
               PROVE  /\ ~moved'
                      /\ \A a \in Accounts \ {account'} : contacts'[a] = <<>> /\ conversations'[a] = <<>>
                      /\ \A c \in Chats \ tangled' : Sole(c)'
  BY DEF SoleInv
<1>2. ~moved' /\ account' = account
  BY <1>1, OneAccount
<1>3. ASSUME NEW c \in Chats \ tangled' PROVE Sole(c)'
  BY <1>1, <1>3, SoleContact, SoleConversation DEF Sole
<1>4. QED BY <1>1, <1>2, <1>3, OthersEmpty

-----------------------------------------------------------------------------

\* A reply is forgotten by a fault, or because no chat is mapped to its conversation.
LEMMA RepliesEnd ==
  ASSUME TypeOK, [Next]_vars, faults' = 0, NEW r \in Replies, reply[r] # None, reply'[r] # reply[r],
         reply'[r].step \in {"dropped", "failed"}
  PROVE  {c \in ChatsOfConversation(reply[r].conv) : InboxIsOurs(r)} = {}
<1>1. ~Fault
  BY FaultFree
<1>3. ASSUME NEW q \in Replies, AgentReplies(q) PROVE FALSE
  BY <1>3 DEF AgentReplies, TypeOK
<1>4. ASSUME NEW q \in Replies, HandleWebhook(q)
      PROVE  {c \in ChatsOfConversation(reply[r].conv) : InboxIsOurs(r)} = {}
  <2>1. q = r /\ reply[r] # None /\ reply[r] \in Reply
    BY <1>4 DEF HandleWebhook, TypeOK, ReplyAt
  <2>2. ASSUME NEW c, reply' = [reply EXCEPT ![r].to = c, ![r].step = "known"] PROVE FALSE
    <3>1. reply'[r] = [reply[r] EXCEPT !.to = c, !.step = "known"]
      BY <2>2 DEF TypeOK
    <3>2. reply'[r].step = "known"
      BY <2>1, <3>1 DEF Reply
    <3>3. QED BY <3>2
  <2>3. QED BY <1>4, <2>1, <2>2 DEF HandleWebhook
<1>5. ASSUME NEW q \in Replies, ForwardReply(q) PROVE FALSE
  <2>1. q = r /\ reply[r] # None /\ reply[r] \in Reply
    BY <1>5 DEF ForwardReply, TypeOK, ReplyAt
  <2>2. reply'[r] = [reply[r] EXCEPT !.step = "done"]
    BY <1>5, <2>1 DEF ForwardReply, TypeOK
  <2>3. QED BY <2>1, <2>2 DEF Reply
<1>6. ASSUME NEW k \in Callers, Handle(k) \/ NoAnswer(k) \/ Abort(k)
      PROVE  FALSE
  <2>1. CASE Works(k)
    BY <2>1 DEF Works, GetContactID, SearchContact, CreateContact, SaveContactID,
                GetConversationID, FindConversation, CreateConversation, SaveConversationID
  <2>2. QED BY <1>6, <2>1 DEF Handle, Works, PostIncomingMessage, Refused, NoAnswer, Abort
<1>7. CASE \/ \E e \in Event : Enqueue(e)
           \/ BufferHistory \/ SyncInbound \/ EventFails \/ Restart \/ UNCHANGED vars
           \/ \E k \in Syncs : LoadBuffer(k) \/ DeleteBuffer(k)
           \/ \E a \in Accounts \cup {None} : Reconfigure(a)
           \/ \E q \in Replies : ReplyFails(q)
  BY <1>1, <1>7 DEF Enqueue, BufferHistory, SyncInbound, EventFails, Restart, LoadBuffer, DeleteBuffer,
              Reconfigure, ReplyFails, vars
<1>8. QED BY <1>3, <1>4, <1>5, <1>6, <1>7 DEF Next, Forward

\* A reply of a chat that is not tangled is forgotten only while a caller is about to
\* map its conversation.
LEMMA ForgottenStep ==
  ASSUME TypeOK, ShapeInv, ReplyInv, OwnInv, SoleInv, [Next]_vars, NEW r \in Replies,
         reply[r] # None, reply'[r] # reply[r], reply'[r].step \in {"dropped", "failed"}
  PROVE  reply[r].chat \in tangled \/ BeingMapped(r) \/ faults' > 0
<1>1. SUFFICES ASSUME ~(faults' > 0), reply[r].chat \notin tangled
               PROVE  BeingMapped(r)
  OBVIOUS
<1>2. faults' = 0
  <2>1. faults' \in Nat
    BY TypeStep, BridgeAssumption DEF TypeOK
  <2>2. QED BY <1>1, <2>1
<1>3. {c \in ChatsOfConversation(reply[r].conv) : InboxIsOurs(r)} = {}
  BY <1>2, RepliesEnd
<1>4. /\ reply[r].account \in Accounts /\ reply[r].chat \in Chats
      /\ IsOf(reply[r].account, reply[r].conv, reply[r].chat)
  BY DEF ReplyInv, TypeOK, Reply
<1>5. reply[r].account = account
  <2>1. DOMAIN conversations[reply[r].account] # {}
    BY <1>4 DEF IsOf
  <2>2. conversations[reply[r].account] # <<>>
    BY <2>1
  <2>3. QED BY <1>2, <1>4, <2>2, FaultFree DEF SoleInv
<1>6. conversationID[reply[r].chat] # reply[r].conv
  BY <1>3, <1>4, <1>5 DEF ChatsOfConversation, InboxIsOurs
<1>7. PICK k \in Callers : Holds(k, reply[r].conv, reply[r].chat)
  BY <1>1, <1>2, <1>4, <1>5, <1>6, FaultFree DEF SoleInv, Sole
<1>8. call[k].account = account
  BY <1>2, <1>7, OneAccount DEF Holds, At
<1>9. QED BY <1>5, <1>7, <1>8 DEF BeingMapped, Holds

-----------------------------------------------------------------------------

\* The chats that are not tangled have one contact and one conversation at most.
THEOREM SolesStay == Spec => [](IInv /\ SoleInv)
<1>1. Init => SoleInv
  BY DEF Init, SoleInv, Sole, ContactsOf, IsOf, At, Callers
<1>2. IInv /\ SoleInv /\ [Next]_vars => SoleInv'
  BY SoleStep DEF IInv
<1>3. QED BY <1>1, <1>2, Invariance, PTL DEF Spec

\* Whatever the worker and the replays search and create for a chat, and in whatever
\* order, it gets a second conversation only if two of them were about to create one
\* at once, if a search took one chat for another, or if a call failed.
THEOREM SecondConversationsHaveACause == Spec => []SecondConversationHasACause
<1>1. IInv /\ SoleInv => SecondConversationHasACause
  <2>1. SUFFICES ASSUME IInv, SoleInv, NEW a \in Accounts, NEW c \in Chats, c \notin tangled, ~(faults > 0)
                 PROVE  ~(Cardinality({n \in DOMAIN conversations[a] : Owner(a, n) = c}) > 1)
    BY DEF SecondConversationHasACause
  <2> DEFINE S == {n \in DOMAIN conversations[a] : Owner(a, n) = c}
  <2>2. faults = 0
    BY <2>1, BridgeAssumption DEF IInv, TypeOK
  <2>3. \A m, n \in S : m = n
    <3>1. CASE a = account
      BY <2>1, <2>2, <3>1 DEF SoleInv, Sole, IsOf
    <3>2. CASE a # account
      BY <2>1, <2>2, <3>2 DEF SoleInv
    <3>3. QED BY <3>1, <3>2
  <2>4. Cardinality(S) <= 1 /\ Cardinality(S) \in Nat
    <3>1. PICK m : S \in SUBSET {m}
      BY <2>3
    <3>2. IsFiniteSet({m}) /\ Cardinality({m}) = 1
      BY FS_Singleton
    <3>3. IsFiniteSet(S) /\ Cardinality(S) <= Cardinality({m})
      BY <3>1, <3>2, FS_Subset
    <3>4. QED BY <3>2, <3>3, FS_CardinalityType
  <2>5. QED BY <2>4
<1>2. QED BY <1>1, SolesStay, PTL

\* No agent's reply is forgotten, by the webhook that has said 200 already, unless a
\* caller has found or made its conversation and not mapped it yet, its chat is
\* tangled, a call failed or the account changed.
THEOREM ForgottenRepliesHaveACause == Spec => ForgottenReplyHasACause
<1>1. IInv /\ SoleInv /\ [Next]_vars =>
        [\A r \in Replies :
           reply[r] # None /\ reply'[r] # reply[r] /\ reply'[r].step \in {"dropped", "failed"}
             => reply[r].chat \in tangled \/ BeingMapped(r) \/ faults' > 0]_vars
  BY ForgottenStep DEF IInv
<1>2. QED BY <1>1, SolesStay, PTL DEF Spec, ForgottenReplyHasACause
=============================================================================

---------------------------- MODULE ChatwootBridge ----------------------------
(***************************************************************************)
(* The bridge between the chats of one instance and the conversations of a *)
(* Chatwoot account (internal/domain/chatwoot, infra/repo/chatwoot_repo.go,*)
(* api/chatwoot/handler.go): the event worker that mirrors live messages   *)
(* and buffers history, the SyncHistory requests that replay the buffer,   *)
(* the mappings both find or create, and the webhook that forwards an      *)
(* agent's replies.  The buffer and the mappings are rows of the database; *)
(* the event channel and everything under way is lost with the process.    *)
(***************************************************************************)
EXTENDS Integers, Sequences, FiniteSets

CONSTANTS
  Messages,   \* messages of individual chats; the live ones are not from this account
  Chats,
  ChatOf,     \* the chat of each message
  Live,       \* the messages that arrive as live events
  Batches,    \* the history payloads, sets of messages
  Syncs,      \* requests that call SyncHistory
  Worker,     \* the event worker
  Replies,    \* messages agents write in Chatwoot, text with an attachment
  Accounts,   \* Chatwoot accounts, each with its inbox
  Hits,       \* pairs <<c, d>>: the search for the phone of c finds the contact of d
  Capacity,   \* events the channel holds (500 in the code)
  MaxFaults,  \* bound: failed calls, panics, cancelled requests, restarts and
              \* changes of the account, together
  None        \* no account, no call, no reply, no chat

ASSUME BridgeAssumption ==
  /\ ChatOf \in [Messages -> Chats]
  /\ Live \subseteq Messages /\ Batches \subseteq SUBSET Messages
  /\ Worker \notin Syncs
  /\ Hits \subseteq Chats \X Chats /\ \A c \in Chats : <<c, c>> \in Hits
  /\ Capacity \in Nat \ {0} /\ MaxFaults \in Nat

Callers == Syncs \cup {Worker}

Event == [type : {"MessageReceived"}, msgs : {{m} : m \in Live}]
           \cup [type : {"HistorySync"}, msgs : Batches]

Step == {"next", "search", "create", "mapContact", "conversation", "find", "open",
         "mapConversation", "post"}

\* A replay, or the sync of one live message: account is the client it works
\* with, todo the messages it has still to try, msg the one in hand, contact
\* and conv the ids found for it.
Call == [account : Accounts, todo : SUBSET Messages, msg : Messages \cup {None},
         step : Step, contact : Nat, conv : Nat]

\* A reply: chat is whose conversation it is, to the chat it is forwarded to.
Reply == [account : Accounts, conv : Nat, chat : Chats, to : Chats \cup {None},
          step : {"received", "known", "done", "dropped", "failed"}]

ASSUME NoValueAssumption ==
  None \notin Accounts /\ None \notin Call /\ None \notin Reply /\ None \notin Chats

VARIABLES
  account,        \* the account in the instance's settings, None if disabled
  eventCh,        \* the event channel
  status,         \* history: whether each event was raised and has been dealt with
  contactID,      \* rows: the mapped contact of each chat, 0 if there is none
  conversationID, \* rows: the mapped conversation of each chat
  buffer,         \* rows: the history buffer
  call,           \* what each caller is doing
  contacts,       \* Chatwoot: the phone, that is the chat, of each contact
  conversations,  \* Chatwoot: the contact of each conversation
  reply,          \* agents' replies and their webhook calls
  posted,         \* history: messages that have reached a conversation
  strays,         \* history: messages posted to the conversation of a chat that the
                  \* search for their own does not find
  lost,           \* history: messages deleted from the buffer and not posted
  excused,        \* history: messages a caller failed on, or saved during a replay
  tangled,        \* history: chats for which callers overtook each other between a
                  \* search and a creation, or one of which was found for the other
  moved,          \* history: whether the account was ever changed
  faults          \* how many faults have happened

mappings == <<contactID, conversationID>>
chatwoot == <<contacts, conversations>>
events == <<eventCh, status>>
outcome == <<posted, strays, lost, excused>>
bounds == <<moved, faults>>
vars == <<account, events, mappings, buffer, call, chatwoot, reply, outcome, tangled, bounds>>

Init ==
  /\ account \in Accounts
  /\ eventCh = <<>> /\ status = [e \in Event |-> "unraised"]
  /\ contactID = [c \in Chats |-> 0] /\ conversationID = [c \in Chats |-> 0]
  /\ buffer = {}
  /\ call = [k \in Callers |-> None]
  /\ contacts = [a \in Accounts |-> <<>>] /\ conversations = [a \in Accounts |-> <<>>]
  /\ reply = [r \in Replies |-> None]
  /\ posted = {} /\ strays = {} /\ lost = {} /\ excused = {} /\ tangled = {}
  /\ moved = FALSE /\ faults = 0

Fault == faults < MaxFaults /\ faults' = faults + 1

\* Whose conversation n of account a is.
Owner(a, n) == contacts[a][conversations[a][n]]

ContactsOf(a, c) == {n \in DOMAIN contacts[a] : contacts[a][n] = c}

HitsOf(a, c) == {n \in DOMAIN contacts[a] : <<c, contacts[a][n]>> \in Hits}

ConversationsOf(a, n) == {i \in DOMAIN conversations[a] : conversations[a][i] = n}

NewCall(a, msgs) == [account |-> a, todo |-> msgs, msg |-> None, step |-> "next",
                     contact |-> 0, conv |-> 0]

At(k, step) == call[k] # None /\ call[k].step = step

ChatInHand(k) == ChatOf[call[k].msg]

\* The settings enable Chatwoot and are complete.
Configured == account # None

Replaying == \E k \in Syncs : call[k] # None

\* Another caller is about to create for the same chat what k creates now.
Overtaken(k, step) ==
  \E j \in Callers \ {k} : /\ At(j, step) /\ ChatInHand(j) = ChatInHand(k)
                            /\ call[j].account = call[k].account

-----------------------------------------------------------------------------
(* The event worker.                                                       *)

\* Faulty variant: the channel takes one event more than it was made for.
EnqueueOneMore(e) ==
  /\ status[e] = "unraised"
  /\ IF Len(eventCh) <= Capacity
     THEN eventCh' = Append(eventCh, e) /\ status' = [status EXCEPT ![e] = "open"]
     ELSE eventCh' = eventCh /\ status' = [status EXCEPT ![e] = "settled"]
  /\ UNCHANGED <<account, mappings, buffer, call, chatwoot, reply, outcome, tangled,
                 bounds>>

\* enqueueEvent, in a goroutine of the engine: a full channel drops the event.
Enqueue(e) ==
  /\ status[e] = "unraised"
  /\ IF Len(eventCh) < Capacity
     THEN eventCh' = Append(eventCh, e) /\ status' = [status EXCEPT ![e] = "open"]
     ELSE eventCh' = eventCh /\ status' = [status EXCEPT ![e] = "settled"]
  /\ UNCHANGED <<account, mappings, buffer, call, chatwoot, reply, outcome, tangled,
                 bounds>>

\* The worker takes the next event.
Take(type) ==
  /\ call[Worker] = None /\ eventCh # <<>> /\ Head(eventCh).type = type
  /\ eventCh' = Tail(eventCh)

\* Rows that are there already are left alone.
SaveHistoryMessages(msgs) ==
  /\ buffer' = buffer \cup msgs
  /\ excused' = IF Replaying THEN excused \cup msgs ELSE excused

\* bufferHistorySync.
BufferHistory ==
  /\ Take("HistorySync")
  /\ SaveHistoryMessages(Head(eventCh).msgs)
  /\ status' = [status EXCEPT ![Head(eventCh)] = "settled"]
  /\ UNCHANGED <<account, mappings, call, chatwoot, reply, posted, strays, lost, tangled,
                 bounds>>

\* syncInbound reads the settings once, before its first call.
SyncInbound ==
  /\ Take("MessageReceived")
  /\ LET e == Head(eventCh) IN
     IF Configured
     THEN call' = [call EXCEPT ![Worker] = NewCall(account, e.msgs)] /\ UNCHANGED status
     ELSE status' = [status EXCEPT ![e] = "settled"] /\ UNCHANGED call
  /\ UNCHANGED <<account, mappings, buffer, chatwoot, reply, outcome, tangled, bounds>>

\* The settings cannot be read, the rows not be saved, or the handler panics.
EventFails ==
  /\ \E type \in {"MessageReceived", "HistorySync"} : Take(type)
  /\ status' = [status EXCEPT ![Head(eventCh)] = "settled"]
  /\ Fault
  /\ UNCHANGED <<account, mappings, buffer, call, chatwoot, reply, outcome, tangled, moved>>

\* A caller is through with the message in hand: a live message is the whole of
\* the worker's call, a replay goes on with the next one.
Leave(k) ==
  IF k = Worker
  THEN /\ call' = [call EXCEPT ![k] = None]
       /\ LET e == [type |-> "MessageReceived", msgs |-> {call[k].msg}] IN
          status' = [status EXCEPT ![e] = "settled"]
  ELSE /\ call' = [call EXCEPT ![k] = NewCall(@.account, @.todo)]
       /\ UNCHANGED status

\* The message is given up; a replay counts an error and goes on.
GiveUp(k) ==
  /\ Leave(k)
  /\ excused' = excused \cup {call[k].msg}

-----------------------------------------------------------------------------
(* One message, by the worker or by a replay.                              *)

\* findOrCreateContact first asks the mapping, where a query that fails is taken for
\* one without result...
GetContactID(k, m) ==
  /\ At(k, "next") /\ m \in call[k].todo
  /\ \E id \in {contactID[ChatOf[m]], 0} :
       /\ call' = [call EXCEPT ![k].todo = @ \ {m}, ![k].msg = m, ![k].contact = id,
                               ![k].step = IF id # 0 THEN "conversation" ELSE "search"]
       /\ IF id = contactID[ChatOf[m]] THEN UNCHANGED faults ELSE Fault
  /\ UNCHANGED <<account, events, mappings, buffer, chatwoot, reply, outcome, tangled,
                 moved>>

GoTo(k, step) == call' = [call EXCEPT ![k].step = step]

HoldContact(k, id) ==
  call' = [call EXCEPT ![k].contact = id, ![k].step = "mapContact"]

\* ...then Chatwoot, where so is a search.  The first result is taken, whoever it is...
SearchContact(k) ==
  /\ At(k, "search")
  /\ LET a == call[k].account
         found == HitsOf(a, ChatInHand(k))
     IN
     \/ /\ \E id \in found :
             /\ HoldContact(k, id)
             /\ tangled' = IF contacts[a][id] = ChatInHand(k) THEN tangled
                           ELSE tangled \cup {ChatInHand(k), contacts[a][id]}
        /\ UNCHANGED faults
     \/ /\ GoTo(k, "create")
        /\ IF found = {} THEN UNCHANGED faults ELSE Fault
        /\ UNCHANGED tangled
  /\ UNCHANGED <<account, events, mappings, buffer, chatwoot, reply, outcome, moved>>

\* ...and creates the contact...
CreateContact(k) ==
  /\ At(k, "create")
  /\ LET a == call[k].account IN
     /\ contacts' = [contacts EXCEPT ![a] = Append(@, ChatInHand(k))]
     /\ HoldContact(k, Len(contacts[a]) + 1)
  /\ tangled' = IF Overtaken(k, "create") THEN tangled \cup {ChatInHand(k)} ELSE tangled
  /\ UNCHANGED <<account, events, mappings, buffer, conversations, reply, outcome,
                 bounds>>

\* ...which it then maps, unless the update fails.
SaveContactID(k) ==
  /\ At(k, "mapContact")
  /\ GoTo(k, "conversation")
  /\ \/ /\ contactID' = [contactID EXCEPT ![ChatInHand(k)] = call[k].contact]
        /\ UNCHANGED faults
     \/ Fault /\ UNCHANGED contactID
  /\ UNCHANGED <<account, events, conversationID, buffer, chatwoot, reply, outcome,
                 tangled, moved>>

\* Faulty variant: the conversation is looked up under a key it is not saved under,
\* and one is created whenever the mapping has none.
GetConversationIDNever(k) ==
  /\ At(k, "conversation")
  /\ GoTo(k, "open")
  /\ UNCHANGED <<account, events, mappings, buffer, chatwoot, reply, outcome, tangled,
                 bounds>>

\* findOrCreateConversation goes the same way, among the contact's conversations.
GetConversationID(k) ==
  /\ At(k, "conversation")
  /\ \E id \in {conversationID[ChatInHand(k)], 0} :
       /\ call' = [call EXCEPT ![k].conv = id,
                               ![k].step = IF id # 0 THEN "post" ELSE "find"]
       /\ IF id = conversationID[ChatInHand(k)] THEN UNCHANGED faults ELSE Fault
  /\ UNCHANGED <<account, events, mappings, buffer, chatwoot, reply, outcome, tangled,
                 moved>>

HoldConversation(k, id) ==
  call' = [call EXCEPT ![k].conv = id, ![k].step = "mapConversation"]

\* Faulty variant: the list asked for is that of the inbox, not of the contact.
FindConversationOfInbox(k) ==
  /\ At(k, "find")
  /\ LET found == DOMAIN conversations[call[k].account] IN
     \/ (\E id \in found : HoldConversation(k, id)) /\ UNCHANGED faults
     \/ /\ GoTo(k, "open")
        /\ IF found = {} THEN UNCHANGED faults ELSE Fault
  /\ UNCHANGED <<account, events, mappings, buffer, chatwoot, reply, outcome, tangled,
                 moved>>

FindConversation(k) ==
  /\ At(k, "find")
  /\ LET found == ConversationsOf(call[k].account, call[k].contact) IN
     \/ (\E id \in found : HoldConversation(k, id)) /\ UNCHANGED faults
     \/ /\ GoTo(k, "open")
        /\ IF found = {} THEN UNCHANGED faults ELSE Fault
  /\ UNCHANGED <<account, events, mappings, buffer, chatwoot, reply, outcome, tangled,
                 moved>>

CreateConversation(k) ==
  /\ At(k, "open")
  /\ LET a == call[k].account IN
     /\ call[k].contact \in DOMAIN contacts[a]
     /\ conversations' = [conversations EXCEPT ![a] = Append(@, call[k].contact)]
     /\ HoldConversation(k, Len(conversations[a]) + 1)
  /\ tangled' = IF Overtaken(k, "open") THEN tangled \cup {ChatInHand(k)} ELSE tangled
  /\ UNCHANGED <<account, events, mappings, buffer, contacts, reply, outcome, bounds>>

\* Faulty variant: the mapping is saved by the replay alone.
SaveConversationIDOfReplay(k) ==
  /\ At(k, "mapConversation")
  /\ GoTo(k, "post")
  /\ IF k = Worker THEN UNCHANGED conversationID
     ELSE conversationID' = [conversationID EXCEPT ![ChatInHand(k)] = call[k].conv]
  /\ UNCHANGED <<account, events, contactID, buffer, chatwoot, reply, outcome, tangled,
                 bounds>>

SaveConversationID(k) ==
  /\ At(k, "mapConversation")
  /\ GoTo(k, "post")
  /\ \/ /\ conversationID' = [conversationID EXCEPT ![ChatInHand(k)] = call[k].conv]
        /\ UNCHANGED faults
     \/ Fault /\ UNCHANGED conversationID
  /\ UNCHANGED <<account, events, contactID, buffer, chatwoot, reply, outcome, tangled,
                 moved>>

\* The message is in the conversation.
Arrive(k) ==
  /\ At(k, "post") /\ call[k].conv \in DOMAIN conversations[call[k].account]
  /\ posted' = posted \cup {call[k].msg}
  /\ strays' = IF <<ChatInHand(k), Owner(call[k].account, call[k].conv)>> \in Hits
               THEN strays ELSE strays \cup {call[k].msg}

PostIncomingMessage(k) ==
  /\ Arrive(k)
  /\ Leave(k)
  /\ UNCHANGED <<account, eventCh, mappings, buffer, chatwoot, reply, lost, excused,
                 tangled, bounds>>

\* Faulty variant: a refused call is repeated until Chatwoot takes it.
RefusedForever(k) ==
  /\ \/ At(k, "create") /\ ContactsOf(call[k].account, ChatInHand(k)) # {}
     \/ At(k, "open") /\ call[k].contact \notin DOMAIN contacts[call[k].account]
     \/ At(k, "post") /\ call[k].conv \notin DOMAIN conversations[call[k].account]
  /\ UNCHANGED vars

\* Chatwoot refuses: the contact exists already, or the id is of no such record.
Refused(k) ==
  /\ \/ At(k, "create") /\ ContactsOf(call[k].account, ChatInHand(k)) # {}
     \/ At(k, "open") /\ call[k].contact \notin DOMAIN contacts[call[k].account]
     \/ At(k, "post") /\ call[k].conv \notin DOMAIN conversations[call[k].account]
  /\ GiveUp(k)
  /\ UNCHANGED <<account, eventCh, mappings, buffer, chatwoot, reply, posted, strays,
                 lost, tangled, bounds>>

\* No answer comes, whether or not the request has arrived.
NoAnswer(k) ==
  /\ \E step \in {"create", "open", "post"} : At(k, step)
  /\ GiveUp(k)
  /\ LET a == call[k].account IN
     \/ UNCHANGED <<chatwoot, posted, strays>>
     \/ /\ At(k, "create")
        /\ contacts' = [contacts EXCEPT ![a] = Append(@, ChatInHand(k))]
        /\ UNCHANGED <<conversations, posted, strays>>
     \/ /\ At(k, "open") /\ call[k].contact \in DOMAIN contacts[a]
        /\ conversations' = [conversations EXCEPT ![a] = Append(@, call[k].contact)]
        /\ UNCHANGED <<contacts, posted, strays>>
     \/ Arrive(k) /\ UNCHANGED chatwoot
  /\ Fault
  /\ UNCHANGED <<account, eventCh, mappings, buffer, reply, lost, tangled, moved>>

Handle(k) ==
  \/ \E m \in Messages : GetContactID(k, m)
  \/ SearchContact(k) \/ CreateContact(k) \/ SaveContactID(k)
  \/ GetConversationID(k) \/ FindConversation(k) \/ CreateConversation(k)
  \/ SaveConversationID(k)
  \/ PostIncomingMessage(k) \/ Refused(k)

\* All rows of the instance go, whoever saved them and when.
DeleteHistoryMessages ==
  /\ buffer' = {}
  /\ lost' = lost \cup (buffer \ posted)

\* Faulty variant: the buffer is deleted however the replay ends.
AbortAndCleanUp(k) ==
  /\ call[k] # None /\ k \in Syncs
  /\ call' = [call EXCEPT ![k] = None]
  /\ DeleteHistoryMessages
  /\ Fault
  /\ UNCHANGED <<account, events, mappings, chatwoot, reply, posted, strays, excused,
                 tangled, moved>>

\* The handler panics and is recovered, or the context of the request ends.
Abort(k) ==
  /\ call[k] # None /\ ~(k = Worker /\ At(k, "next"))
  /\ IF k = Worker THEN Leave(k) ELSE call' = [call EXCEPT ![k] = None] /\ UNCHANGED status
  /\ Fault
  /\ UNCHANGED <<account, eventCh, mappings, buffer, chatwoot, reply, outcome, tangled,
                 moved>>

-----------------------------------------------------------------------------
(* SyncHistory.                                                            *)

\* The buffer is read whole, and by every request: two may replay the same rows.
LoadBuffer(k) ==
  /\ call[k] = None /\ Configured /\ buffer # {}
  /\ call' = [call EXCEPT ![k] = NewCall(account, buffer)]
  /\ UNCHANGED <<account, events, mappings, buffer, chatwoot, reply, outcome, tangled,
                 bounds>>

\* Every loaded message was tried: the replay ends with the buffer.
DeleteBuffer(k) ==
  /\ At(k, "next") /\ call[k].todo = {}
  /\ call' = [call EXCEPT ![k] = None]
  /\ DeleteHistoryMessages
  /\ UNCHANGED <<account, events, mappings, chatwoot, reply, posted, strays, excused,
                 tangled, bounds>>

-----------------------------------------------------------------------------
(* Agents' replies.                                                        *)

\* An agent answers in a conversation, and the webhook is called, which says 200
\* before anything is done.  Notes, bots and other events go no further.
AgentReplies(r) ==
  /\ reply[r] = None
  /\ \E a \in Accounts : \E n \in DOMAIN conversations[a] :
       reply' = [reply EXCEPT ![r] = [account |-> a, conv |-> n, chat |-> Owner(a, n),
                                      to |-> None, step |-> "received"]]
  /\ UNCHANGED <<account, events, mappings, buffer, call, chatwoot, outcome, tangled,
                 bounds>>

ReplyAt(r, step) == reply[r] # None /\ reply[r].step = step

\* The instance whose settings name the inbox, and the chat mapped to the
\* conversation: any, if there are several.
InboxIsOurs(r) == account = reply[r].account

ChatsOfConversation(n) == {c \in Chats : conversationID[c] = n}

\* HandleWebhook looks for the instance of the inbox and the chat of the
\* conversation, and forgets the reply when there is none.
HandleWebhook(r) ==
  /\ ReplyAt(r, "received")
  /\ LET known == {c \in ChatsOfConversation(reply[r].conv) : InboxIsOurs(r)} IN
     \/ \E c \in known : reply' = [reply EXCEPT ![r].to = c, ![r].step = "known"]
     \/ known = {} /\ reply' = [reply EXCEPT ![r].step = "dropped"]
  /\ UNCHANGED <<account, events, mappings, buffer, call, chatwoot, outcome, tangled,
                 bounds>>

\* The text goes to WhatsApp, then the attachments, each without heed to the others.
ForwardReply(r) ==
  /\ ReplyAt(r, "known")
  /\ reply' = [reply EXCEPT ![r].step = "done"]
  /\ UNCHANGED <<account, events, mappings, buffer, call, chatwoot, outcome, tangled,
                 bounds>>

\* A lookup, the text or an attachment fails, or the 30 seconds are over.
ReplyFails(r) ==
  /\ \E step \in {"received", "known"} : ReplyAt(r, step)
  /\ reply' = [reply EXCEPT ![r].step = "failed"]
  /\ Fault
  /\ UNCHANGED <<account, events, mappings, buffer, call, chatwoot, outcome, tangled,
                 moved>>

Forward(r) == HandleWebhook(r) \/ ForwardReply(r)

-----------------------------------------------------------------------------
(* Settings and the process.                                               *)

\* The settings name another account, or none; the mappings stay.
Reconfigure(a) ==
  /\ Fault /\ moved' = TRUE
  /\ account # a /\ account' = a
  /\ UNCHANGED <<events, mappings, buffer, call, chatwoot, reply, outcome, tangled>>

\* The process ends, in order or not, and is started again.
Restart ==
  /\ eventCh' = <<>>
  /\ status' = [e \in Event |-> IF status[e] = "open" THEN "settled" ELSE status[e]]
  /\ call' = [k \in Callers |-> None]
  /\ reply' = [r \in Replies |->
       IF \E step \in {"received", "known"} : ReplyAt(r, step)
       THEN [reply[r] EXCEPT !.step = "failed"] ELSE reply[r]]
  /\ Fault
  /\ UNCHANGED <<account, mappings, buffer, chatwoot, outcome, tangled, moved>>

Next ==
  \/ \E e \in Event : Enqueue(e)
  \/ BufferHistory \/ SyncInbound \/ EventFails
  \/ \E k \in Callers : Handle(k) \/ NoAnswer(k) \/ Abort(k)
  \/ \E k \in Syncs : LoadBuffer(k) \/ DeleteBuffer(k)
  \/ \E r \in Replies : AgentReplies(r) \/ Forward(r) \/ ReplyFails(r)
  \/ \E a \in Accounts \cup {None} : Reconfigure(a)
  \/ Restart

\* Goroutines run, and every call ends within its timeout.
Fairness ==
  /\ WF_vars(BufferHistory \/ SyncInbound \/ Handle(Worker))
  /\ \A k \in Syncs : WF_vars(Handle(k) \/ DeleteBuffer(k))
  /\ \A r \in Replies : WF_vars(Forward(r))

Spec == Init /\ [][Next]_vars

FairSpec == Spec /\ Fairness

-----------------------------------------------------------------------------
(* Properties.                                                             *)

\* Every variable keeps its type.
TypeOK ==
  /\ account \in Accounts \cup {None}
  /\ eventCh \in Seq(Event) /\ Len(eventCh) <= Capacity
  /\ status \in [Event -> {"unraised", "open", "settled"}]
  /\ contactID \in [Chats -> Nat] /\ conversationID \in [Chats -> Nat]
  /\ buffer \subseteq Messages
  /\ call \in [Callers -> Call \cup {None}]
  /\ contacts \in [Accounts -> Seq(Chats)] /\ conversations \in [Accounts -> Seq(Nat)]
  /\ reply \in [Replies -> Reply \cup {None}]
  /\ posted \subseteq Messages /\ strays \subseteq Messages
  /\ lost \subseteq Messages /\ excused \subseteq Messages
  /\ tangled \subseteq Chats
  /\ moved \in BOOLEAN /\ faults \in 0 .. MaxFaults

\* While the account stays the same, messages and replies cross between two chats only
\* where Chatwoot's search for the phone of the one finds the contact of the other:
\* nothing that is retried, raced or left half done adds to it.
NothingStraysUnlessMoved ==
  ~moved =>
    /\ strays = {}
    /\ \A r \in Replies :
         reply[r] # None /\ reply[r].to # None => <<reply[r].to, reply[r].chat>> \in Hits

\* A chat gets a second conversation only when one caller creates what another
\* has searched for in vain, when a search took it for another chat or another for
\* it, or when a call failed.
SecondConversationHasACause ==
  \A a \in Accounts, c \in Chats :
    Cardinality({n \in DOMAIN conversations[a] : Owner(a, n) = c}) > 1
      => c \in tangled \/ faults > 0

\* A caller has found or made the conversation of a reply, and not mapped it yet.
BeingMapped(r) ==
  \E k \in Callers : /\ At(k, "mapConversation")
                     /\ call[k].conv = reply[r].conv /\ call[k].account = reply[r].account

\* The webhook has said 200, so nobody repeats a reply: it is forgotten only if its
\* conversation was not mapped yet, its chat is tangled with another or has raced to
\* two conversations, a call failed or the account changed.
ForgottenReplyHasACause ==
  [][\A r \in Replies :
       reply[r] # None /\ reply'[r] # reply[r] /\ reply'[r].step \in {"dropped", "failed"}
         => reply[r].chat \in tangled \/ BeingMapped(r) \/ faults' > 0]_vars

\* A buffered message is deleted unposted only if a replay failed on it or a
\* history event saved it during a replay.
LossIsExcused == lost \subseteq excused

\* Every event in the channel, every replay and every webhook call comes to an end:
\* with each event and reply raised once, the bridge comes to rest again and again.
AtRest ==
  /\ \A e \in Event : status[e] # "open"
  /\ \A k \in Callers : call[k] = None
  /\ \A r \in Replies : ~ReplyAt(r, "received") /\ ~ReplyAt(r, "known")

WorkSettles == []<>AtRest
=============================================================================

SPECIFICATION MCSpec
CONSTANTS
  m1 = m1
  m2 = m2
  c1 = c1
  c2 = c2
  a1 = a1
  Messages = {m1, m2}
  Chats = {c1, c2}
  ChatOf <- MCChatOf
  Live = {m1}
  Batches = {{m1}, {m2}}
  Syncs = {s1}
  Worker = worker
  Replies = {r1}
  Accounts = {a1, a2}
  Hits <- MCHits
  Capacity = 1
  MaxFaults = 1
  None = None
INVARIANTS
  TypeOK
  NothingStraysUnlessMoved
  SecondConversationHasACause
  LossIsExcused
PROPERTIES
  ForgottenReplyHasACause
  WorkSettles
CHECK_DEADLOCK FALSE

---------------------------- MODULE AccountsProofs ----------------------------
(***************************************************************************)
(* Proofs about Accounts for any workspaces, users, tokens, keys, requests *)
(* and attempts, and any number of faults: its type, when a second         *)
(* workspace appears, which keys outlive their maker, who can take a       *)
(* workspace's last admin, and how many guesses the lock lets through.     *)
(***************************************************************************)
EXTENDS Accounts, FiniteSetTheorems, TLAPS

\* Ids are given once.
Known(u) == user[u] # None \/ u \in gone

IdsInv == \A u \in gone : user[u] = None

\* The claims were true of somebody, who is in that workspace while he is at all.
Was(c) == Known(c.user) /\ (user[c.user] # None => user[c.user].ws = c.ws)

ClaimsInv ==
  /\ \A t \in Tokens : token[t] # None => Was(token[t])
  /\ \A r \in Requests : request[r] # None /\ request[r].claims # None => Was(request[r].claims)

\* A deletion under way is of another user of the caller's workspace, whose keys
\* are revoked but for those made since.
RemoveInv ==
  \A r \in Requests : At(r, "remove") =>
    /\ request[r].user # request[r].claims.user
    /\ Known(request[r].user)
    /\ user[request[r].user] # None => user[request[r].user].ws = request[r].claims.ws
    /\ \A k \in Keys : Accepted(k) /\ key[k].by = request[r].user => k \in slipped

\* An update under way is of a user of the caller's workspace, and leaves the caller
\* an admin.
UpdateInv ==
  \A r \in Requests : At(r, "update") =>
    /\ Known(request[r].user)
    /\ user[request[r].user] # None => user[request[r].user].ws = request[r].claims.ws
    /\ request[r].user = request[r].claims.user => request[r].role = "admin"

\* Passwords, updates and deletions are of a user; a registration and a creation are
\* for a workspace.
PhaseInv ==
  \A r \in Requests :
    /\ At(r, "compare") \/ At(r, "update") \/ At(r, "remove") => request[r].user \in Users
    /\ At(r, "update") \/ At(r, "remove") => request[r].claims \in Claims
    /\ At(r, "create") \/ At(r, "update") => request[r].role \in Role
    /\ At(r, "register") \/ At(r, "enrol") \/ At(r, "create") => request[r].ws \in Workspaces

\* A registration that waits while there is a workspace is a rival's.
RivalInv ==
  ~RegistrationEnabled /\ HasAnyWorkspace /\ (\E r \in Requests : At(r, "register")) => rivals

\* The logins to the address that are past the lock.
Comparing(a) == {r \in Requests : At(r, "compare") /\ AddressOf[request[r].user] = a}

\* The lock counts all guesses but those a fault hid from it; whoever is past it was
\* let through below the limit, with the other requests, or by a fault.
GuessInvOf(a) ==
  /\ guesses[a] <= failures[a] + faults
  /\ guesses[a] + Cardinality(Comparing(a)) <= MaxAttempts + Cardinality(Requests) - 1 + faults

GuessInv == \A a \in Addresses : GuessInvOf(a)

IInv ==
  /\ TypeOK /\ PhaseInv
  /\ IdsInv /\ ClaimsInv /\ UpdateInv /\ RemoveInv /\ OrphanKeysSlippedThrough
  /\ RivalInv /\ SecondWorkspaceHadARival /\ NobodyLeftAfterAFault
  /\ GuessInv

-----------------------------------------------------------------------------

\* What a request that begins or goes on is like.
LEMMA RequestType ==
  ASSUME TypeOK, NEW r \in Requests, request[r] # None
  PROVE  /\ request[r] \in Request
         /\ request[r].claims \in Claims \cup {None}
         /\ request[r].user \in Users \cup {None} /\ request[r].ws \in Workspaces \cup {None}
BY DEF TypeOK, Request

\* A new key is one, and nothing else changes its type.
LEMMA KeyType ==
  ASSUME TypeOK, NEW w \in Workspaces, NEW u \in Users \cup {None}, NEW j, NEW k \in Keys,
         CreateAPIKey(w, u, j, k)
  PROVE  TypeOK'
<1>1. [ws |-> w, by |-> u] \in APIKey
  BY DEF APIKey
<1>2. key' \in [Keys -> APIKey \cup {None}] /\ slipped' \subseteq Keys
  BY <1>1 DEF TypeOK, CreateAPIKey, InsertAPIKey
<1>3. QED BY <1>2 DEF TypeOK, CreateAPIKey

\* Whoever creates an instance is known by a token or by a key.
LEMMA KeyIsMade ==
  ASSUME TypeOK, NEW k \in Keys, CreateInstance(k)
  PROVE  \/ \E t \in Tokens : token[t] # None /\ CreateAPIKey(token[t].ws, token[t].user, None, k)
         \/ \E j \in Keys : Accepted(j) /\ CreateAPIKey(key[j].ws, key[j].by, j, k)
BY DEF CreateInstance, Authenticate, KeyUser

\* Every variable keeps its type.
LEMMA TypeStep ==
  ASSUME TypeOK, PhaseInv, [Next]_vars
  PROVE  TypeOK'
<1> USE AccountsAssumption, NoValueAssumption
<1>1. ASSUME NEW r \in Requests, NEW w \in Workspaces, Register(r, w) PROVE TypeOK'
  BY <1>1 DEF TypeOK, Register, Begin, Request, rows, history
<1>2. ASSUME NEW r \in Requests, CreateWorkspace(r) PROVE TypeOK'
  <2>1. request[r].ws \in Workspaces
    BY <1>2 DEF CreateWorkspace, InsertWorkspace, PhaseInv
  <2>2. [request[r] EXCEPT !.phase = "enrol"] \in Request
    BY <1>2, RequestType DEF CreateWorkspace, InsertWorkspace, At, Request
  <2>3. request' \in [Requests -> Request \cup {None}] /\ workspaces' \subseteq Workspaces
    BY <1>2, <2>1, <2>2 DEF TypeOK, CreateWorkspace, InsertWorkspace, End
  <2>4. rivals' \in BOOLEAN
    BY <1>2 DEF TypeOK, CreateWorkspace, InsertWorkspace
  <2>5. QED BY <1>2, <2>3, <2>4 DEF TypeOK, CreateWorkspace, InsertWorkspace
<1>3. ASSUME NEW r \in Requests, NEW u \in Users, CreateFirstUser(r, u) PROVE TypeOK'
  <2> DEFINE row == [ws |-> request[r].ws, role |-> "admin"]
  <2>1. row \in User /\ ClaimsOf(u, row) \in Claims
    BY <1>3 DEF CreateFirstUser, PhaseInv, User, Claims, Role, ClaimsOf
  <2>2. user' \in [Users -> User \cup {None}] /\ token' \in [Tokens -> Claims \cup {None}]
    BY <1>3, <2>1 DEF TypeOK, CreateFirstUser, InsertUser, Sign
  <2>3. QED BY <1>3, <2>2 DEF TypeOK, CreateFirstUser, End, history
<1>4. ASSUME NEW r \in Requests, AddressTaken(r) \/ WeakPassword(r) PROVE TypeOK'
  BY <1>4 DEF TypeOK, AddressTaken, WeakPassword, End, rows, history
<1>5. ASSUME NEW r \in Requests, NEW u \in Users, Login(r, u) PROVE TypeOK'
  <2>1. user[u] # None => ClaimsOf(u, user[u]) \in Claims
    BY DEF TypeOK, User, Claims, ClaimsOf
  <2>2. request' \in [Requests -> Request \cup {None}]
    BY <1>5, <2>1 DEF TypeOK, Login, GetUserByEmail, Begin, Request
  <2>3. faults' \in 0 .. MaxFaults
    BY <1>5 DEF TypeOK, Login, GetUserByEmail, Unlocked, Fault
  <2>4. QED BY <1>5, <2>2, <2>3 DEF TypeOK, Login, GetUserByEmail, rows, history
<1>6. ASSUME NEW r \in Requests, WrongPassword(r) PROVE TypeOK'
  BY <1>6, AccountsAssumption
     DEF TypeOK, WrongPassword, RecordLoginFailure, End, Fault, rows, PhaseInv
<1>7. ASSUME NEW r \in Requests, RightPassword(r) PROVE TypeOK'
  <2>1. request[r].claims \in Claims
    BY <1>7, RequestType DEF RightPassword, ClearLoginFailures, At
  <2>2. token' \in [Tokens -> Claims \cup {None}]
    BY <1>7, <2>1 DEF TypeOK, RightPassword, ClearLoginFailures, Sign
  <2>3. QED BY <1>7, <2>2
               DEF TypeOK, RightPassword, ClearLoginFailures, End, Fault, rows, PhaseInv
<1>8. ASSUME NEW r \in Requests, DeleteUser(r) PROVE TypeOK'
  <2>1. request[r].user \in Users
    BY <1>8 DEF DeleteUser, PhaseInv
  <2>2. \A k \in Keys : key[k] # None => [key[k] EXCEPT !.by = None] \in APIKey
    BY DEF TypeOK, APIKey
  <2>3. key' \in [Keys -> APIKey \cup {None}]
    BY <1>8, <2>2 DEF TypeOK, DeleteUser, OfUser
  <2>4. QED BY <1>8, <2>1, <2>3 DEF TypeOK, DeleteUser, End
<1>9. ASSUME NEW r \in Requests, Fails(r) PROVE TypeOK'
  BY <1>9 DEF TypeOK, Fails, End, Fault, rows, history
<1>10. CASE Crash
  BY <1>10 DEF TypeOK, Crash, Fault, rows, history
<1>11. ASSUME NEW t \in Tokens, Logout(t) \/ ExpireToken(t) PROVE TypeOK'
  BY <1>11 DEF TypeOK, Logout, Blacklist, ExpireToken, Fault, rows, history
<1>12. ASSUME NEW a \in Addresses, LockExpires(a) PROVE TypeOK'
  BY <1>12 DEF TypeOK, LockExpires, rows
<1>13. ASSUME NEW t \in Tokens, AdminCall(t) PROVE TypeOK'
  <2> DEFINE c == token[t]
  <2>1. c \in Claims
    BY <1>13 DEF AdminCall, UserCall, KeyCall, Authenticate, TypeOK
  <2>2. ASSUME NEW r \in Requests, NEW role \in Role, CreateUser(r, c, role) PROVE TypeOK'
    <3>1. request' \in [Requests -> Request \cup {None}]
      BY <2>1, <2>2 DEF TypeOK, CreateUser, Begin, Request, Claims
    <3>2. QED BY <2>2, <3>1 DEF TypeOK, CreateUser, rows, history
  <2>3. ASSUME NEW r \in Requests, NEW u \in Users, NEW role \in Role, UpdateUser(r, c, u, role)
        PROVE  TypeOK'
    <3>1. request' \in [Requests -> Request \cup {None}]
      BY <2>1, <2>3 DEF TypeOK, UpdateUser, Begin, Request
    <3>2. QED BY <2>3, <3>1 DEF TypeOK, UpdateUser, rows, history
  <2>4. ASSUME NEW r \in Requests, NEW u \in Users, RevokeAPIKeysByUser(r, c, u) PROVE TypeOK'
    <3>2. key' \in [Keys -> APIKey \cup {None}] /\ slipped' \subseteq Keys
      BY <2>4 DEF TypeOK, RevokeAPIKeysByUser
    <3>3. request' \in [Requests -> Request \cup {None}]
      BY <2>1, <2>4 DEF TypeOK, RevokeAPIKeysByUser, Begin, Request
    <3>4. QED BY <2>4, <3>2, <3>3 DEF TypeOK, RevokeAPIKeysByUser
  <2>5. ASSUME NEW k \in Keys, CreateAPIKey(c.ws, c.user, None, k) PROVE TypeOK'
    BY <2>1, <2>5, KeyType DEF Claims
  <2>6. ASSUME NEW k \in Keys, RevokeAPIKey(c, k) PROVE TypeOK'
    BY <2>6 DEF TypeOK, RevokeAPIKey
  <2>7. QED BY <1>13, <2>2, <2>3, <2>4, <2>5, <2>6 DEF AdminCall, UserCall, KeyCall
<1>14. CASE UNCHANGED vars
  BY <1>14 DEF TypeOK, vars, rows, history
<1>15. ASSUME NEW k \in Keys, CreateInstance(k) PROVE TypeOK'
  <2>1. PICK w, u, j : CreateAPIKey(w, u, j, k) /\ w \in Workspaces /\ u \in Users \cup {None}
    BY <1>15 DEF CreateInstance, Authenticate, Accepted, KeyUser, TypeOK, Claims, APIKey
  <2>2. QED BY <2>1, KeyType
<1>16. ASSUME NEW r \in Requests, NEW u \in Users, AddUser(r, u) PROVE TypeOK'
  <2>1. [ws |-> request[r].ws, role |-> request[r].role] \in User
    BY <1>16 DEF AddUser, PhaseInv, User
  <2>2. user' \in [Users -> User \cup {None}]
    BY <1>16, <2>1 DEF TypeOK, AddUser, InsertUser
  <2>3. QED BY <1>16, <2>2 DEF TypeOK, AddUser, End, history
<1>17. ASSUME NEW r \in Requests, SetRole(r) PROVE TypeOK'
  <2> DEFINE u == request[r].user
  <2>1. user[u] # None => [user[u] EXCEPT !.role = request[r].role] \in User
    BY <1>17 DEF SetRole, PhaseInv, TypeOK, User
  <2>2. user' \in [Users -> User \cup {None}]
    BY <1>17, <2>1 DEF TypeOK, SetRole
  <2>3. QED BY <1>17, <2>2 DEF TypeOK, SetRole, End, history
<1>18. QED
  BY <1>1, <1>2, <1>3, <1>4, <1>5, <1>6, <1>7, <1>8, <1>9, <1>10, <1>11, <1>12, <1>13, <1>14,
     <1>15, <1>16, <1>17
     DEF Next

\* Who was there once does not come again, and never moves to another workspace.
LEMMA UsersStay ==
  ASSUME TypeOK, PhaseInv, IdsInv, [Next]_vars, NEW v \in Users, Known(v)
  PROVE  Known(v)' /\ (user'[v] # None => user[v] # None /\ user'[v].ws = user[v].ws)
<1> USE NoValueAssumption DEF Known, IdsInv
<1>1. ASSUME NEW r \in Requests, NEW u \in Users, CreateFirstUser(r, u)
      PROVE  Known(v)' /\ (user'[v] # None => user[v] # None /\ user'[v].ws = user[v].ws)
  BY <1>1 DEF TypeOK, CreateFirstUser, InsertUser, history
<1>2. ASSUME NEW r \in Requests, DeleteUser(r)
      PROVE  Known(v)' /\ (user'[v] # None => user[v] # None /\ user'[v].ws = user[v].ws)
  BY <1>2 DEF TypeOK, DeleteUser
<1>3. ASSUME NEW r \in Requests, NEW u \in Users, AddUser(r, u)
      PROVE  Known(v)' /\ (user'[v] # None => user[v] # None /\ user'[v].ws = user[v].ws)
  BY <1>3 DEF TypeOK, AddUser, InsertUser, history
<1>4. ASSUME NEW r \in Requests, SetRole(r)
      PROVE  Known(v)' /\ (user'[v] # None => user[v] # None /\ user'[v].ws = user[v].ws)
  <2> DEFINE u == request[r].user
  <2>1. CASE user[u] = None
    BY <1>4, <2>1 DEF SetRole, history
  <2>2. CASE user[u] # None
    <3>1. user[u] \in User /\ user' = [user EXCEPT ![u].role = request[r].role]
      BY <1>4, <2>2 DEF TypeOK, SetRole, PhaseInv
    <3>2. user'[v].ws = user[v].ws
      BY <3>1 DEF TypeOK, User
    <3>3. [user[u] EXCEPT !.role = request[r].role] \in User
      BY <1>4, <3>1 DEF User, SetRole, PhaseInv
    <3>4. user'[v] # None <=> user[v] # None
      BY <3>1, <3>3 DEF TypeOK
    <3>5. QED BY <1>4, <3>2, <3>4 DEF SetRole, history
  <2>3. QED BY <2>1, <2>2
<1>5. CASE UNCHANGED <<user, gone>>
  BY <1>5
<1>6. QED
  BY <1>1, <1>2, <1>3, <1>4, <1>5
     DEF Next, AdminCall, UserCall, KeyCall, Register, CreateWorkspace, AddressTaken,
         WeakPassword, Login, WrongPassword, RightPassword, Fails, Crash, Logout, ExpireToken,
         LockExpires, CreateUser, UpdateUser, RevokeAPIKeysByUser, CreateAPIKey, RevokeAPIKey,
         CreateInstance, vars, rows, history

\* How a request goes on: not at all, to its end, from its beginning, or from the
\* workspace to its first user.
LEMMA RequestMoves ==
  ASSUME TypeOK, PhaseInv, [Next]_vars, NEW q \in Requests, request'[q] # request[q],
         request'[q] # None
  PROVE  \/ /\ request[q] = None /\ request'[q].claims = None
            /\ request'[q].phase = "register" /\ request'[q].ws \in Workspaces
            /\ RegistrationEnabled \/ ~HasAnyWorkspace
            /\ UNCHANGED <<rows, history, faults>>
         \/ /\ request[q] # None /\ request[q].phase = "register"
            /\ request'[q].claims = request[q].claims
            /\ request'[q].phase = "enrol" /\ request'[q].ws \in Workspaces
         \/ /\ request[q] = None /\ request'[q].phase = "compare"
            /\ request'[q].user \in Users
            /\ \/ request'[q].claims = None
               \/ /\ user[request'[q].user] # None
                  /\ request'[q].claims = ClaimsOf(request'[q].user, user[request'[q].user])
         \/ /\ request[q] = None /\ request'[q].claims = None
            /\ request'[q].phase = "create" /\ request'[q].ws \in Workspaces
            /\ request'[q].role \in Role
         \/ /\ request[q] = None /\ request'[q].phase = "update"
            /\ request'[q].user \in Users /\ request'[q].claims \in Claims
            /\ request'[q].role \in Role
            /\ request'[q].user = request'[q].claims.user => request'[q].role = "admin"
            /\ InWorkspace(request'[q].claims, request'[q].user)
            /\ \E t \in Tokens : token[t] # None /\ request'[q].claims = token[t]
            /\ UNCHANGED <<user, gone>>
         \/ /\ request[q] = None /\ request'[q].phase = "remove"
            /\ request'[q].user \in Users /\ request'[q].claims \in Claims
            /\ request'[q].user # request'[q].claims.user
            /\ InWorkspace(request'[q].claims, request'[q].user)
            /\ \E t \in Tokens : token[t] # None /\ request'[q].claims = token[t]
            /\ key' = [k \in Keys |-> IF OfUser(k, request'[q].user) THEN None ELSE key[k]]
            /\ UNCHANGED <<user, gone>>
<1>1. ASSUME NEW r \in Requests, NEW w \in Workspaces, Register(r, w)
      PROVE  /\ request[q] = None /\ request'[q].claims = None
             /\ request'[q].phase = "register" /\ request'[q].ws \in Workspaces
             /\ RegistrationEnabled \/ ~HasAnyWorkspace
             /\ UNCHANGED <<rows, history, faults>>
  BY <1>1 DEF Register, Begin, TypeOK
<1>2. ASSUME NEW r \in Requests, CreateWorkspace(r)
      PROVE  /\ request[q] # None /\ request[q].phase = "register"
             /\ request'[q].claims = request[q].claims
             /\ request'[q].phase = "enrol" /\ request'[q].ws \in Workspaces
  <2>1. q = r /\ request' = [request EXCEPT ![r].phase = "enrol"] /\ At(r, "register")
    BY <1>2 DEF CreateWorkspace, InsertWorkspace, End, TypeOK
  <2>2. request[q] \in Request
    BY <2>1, RequestType DEF At
  <2>3. QED BY <2>1, <2>2 DEF TypeOK, Request, At, PhaseInv
<1>3. ASSUME NEW r \in Requests, NEW u \in Users, Login(r, u)
      PROVE  /\ request[q] = None /\ request'[q].phase = "compare"
             /\ request'[q].user \in Users
             /\ \/ request'[q].claims = None
                \/ /\ user[request'[q].user] # None
                   /\ request'[q].claims = ClaimsOf(request'[q].user, user[request'[q].user])
  BY <1>3 DEF Login, GetUserByEmail, Begin, TypeOK
<1>4. ASSUME NEW t \in Tokens, token[t] # None, NEW r \in Requests, NEW u \in Users,
             RevokeAPIKeysByUser(r, token[t], u)
      PROVE  /\ request[q] = None /\ request'[q].phase = "remove"
             /\ request'[q].user \in Users /\ request'[q].claims \in Claims
             /\ request'[q].user # request'[q].claims.user
             /\ InWorkspace(request'[q].claims, request'[q].user)
             /\ request'[q].claims = token[t]
             /\ key' = [k \in Keys |-> IF OfUser(k, request'[q].user) THEN None ELSE key[k]]
             /\ UNCHANGED <<user, gone>>
  <2>1. q = r /\ request' = [request EXCEPT ![r] =
                    [phase |-> "remove", claims |-> token[t], user |-> u, ws |-> None,
                     role |-> None]]
    BY <1>4 DEF RevokeAPIKeysByUser, Begin, TypeOK
  <2>2. request'[q] = [phase |-> "remove", claims |-> token[t], user |-> u, ws |-> None,
                       role |-> None]
    BY <2>1 DEF TypeOK
  <2>3. QED BY <1>4, <2>1, <2>2 DEF RevokeAPIKeysByUser, Begin, TypeOK, history
<1>5. ASSUME NEW r \in Requests, request' = [request EXCEPT ![r] = None] PROVE FALSE
  BY <1>5 DEF TypeOK
<1>6. CASE Crash
  BY <1>6 DEF Crash
<1>7. CASE UNCHANGED request
  BY <1>7
<1>8. ASSUME NEW t \in Tokens, token[t] # None, NEW r \in Requests, NEW role \in Role,
             CreateUser(r, token[t], role)
      PROVE  /\ request[q] = None /\ request'[q].claims = None
             /\ request'[q].phase = "create" /\ request'[q].ws \in Workspaces
             /\ request'[q].role \in Role
  <2>1. token[t].ws \in Workspaces
    BY <1>8 DEF TypeOK, Claims
  <2>2. QED BY <1>8, <2>1 DEF CreateUser, Begin, TypeOK
<1>9. ASSUME NEW t \in Tokens, token[t] # None, NEW r \in Requests, NEW u \in Users,
             NEW role \in Role, UpdateUser(r, token[t], u, role)
      PROVE  /\ request[q] = None /\ request'[q].phase = "update"
             /\ request'[q].user \in Users /\ request'[q].claims \in Claims
             /\ request'[q].role \in Role
             /\ request'[q].user = request'[q].claims.user => request'[q].role = "admin"
             /\ InWorkspace(request'[q].claims, request'[q].user)
             /\ request'[q].claims = token[t]
             /\ UNCHANGED <<user, gone>>
  <2>1. q = r /\ request' = [request EXCEPT ![r] =
                    [phase |-> "update", claims |-> token[t], user |-> u, ws |-> None,
                     role |-> role]]
    BY <1>9 DEF UpdateUser, Begin, TypeOK
  <2>2. request'[q] = [phase |-> "update", claims |-> token[t], user |-> u, ws |-> None,
                       role |-> role]
    BY <2>1 DEF TypeOK
  <2>3. QED BY <1>9, <2>1, <2>2 DEF UpdateUser, Begin, TypeOK, rows, history
<1>10. QED
  BY <1>1, <1>2, <1>3, <1>4, <1>5, <1>6, <1>7, <1>8, <1>9
     DEF Next, AdminCall, UserCall, KeyCall, Authenticate, CreateFirstUser, AddressTaken,
         WeakPassword, WrongPassword, RightPassword, AddUser, SetRole, DeleteUser, End, Fails,
         Logout, ExpireToken, LockExpires, CreateAPIKey, RevokeAPIKey, CreateInstance, vars

\* What a request is about to do keeps its shape.
LEMMA PhaseStep ==
  ASSUME TypeOK, PhaseInv, [Next]_vars
  PROVE  PhaseInv'
<1> SUFFICES ASSUME NEW q \in Requests, request'[q] # None
             PROVE  /\ request'[q].phase \in {"compare", "update", "remove"}
                       => request'[q].user \in Users
                    /\ request'[q].phase \in {"update", "remove"} => request'[q].claims \in Claims
                    /\ request'[q].phase \in {"create", "update"} => request'[q].role \in Role
                    /\ request'[q].phase \in {"register", "enrol", "create"}
                       => request'[q].ws \in Workspaces
  BY DEF PhaseInv, At
<1>1. CASE request'[q] = request[q]
  BY <1>1 DEF PhaseInv, At
<1>2. CASE request'[q] # request[q]
  BY <1>2, RequestMoves
<1>3. QED BY <1>1, <1>2

\* What was true of somebody stays so, for users stay where they are.
LEMMA WasStays ==
  ASSUME TypeOK, PhaseInv, IdsInv, [Next]_vars, NEW c, c.user \in Users, Was(c)
  PROVE  Was(c)'
BY UsersStay DEF Was

\* Who was deleted has no row; claims stay true of somebody.
LEMMA ClaimsStep ==
  ASSUME TypeOK, TypeOK', PhaseInv, IdsInv, ClaimsInv, [Next]_vars
  PROVE  IdsInv' /\ ClaimsInv'
<1> USE NoValueAssumption
<1>1. IdsInv'
  <2> SUFFICES ASSUME NEW v \in gone' PROVE user'[v] = None
    BY DEF IdsInv
  <2>1. v \in Users
    BY DEF TypeOK
  <2>2. CASE v \in gone
    BY <2>1, <2>2, UsersStay DEF Known, IdsInv
  <2>3. CASE v \notin gone
    <3>1. PICK r \in Requests : DeleteUser(r)
      BY <2>3 DEF Next, AdminCall, UserCall, KeyCall, CreateFirstUser, Register,
                  CreateWorkspace, AddressTaken, WeakPassword, Login, WrongPassword,
                  RightPassword, Fails, Crash, Logout, ExpireToken, LockExpires, CreateUser,
                  AddUser, UpdateUser, SetRole, RevokeAPIKeysByUser, CreateAPIKey,
                  RevokeAPIKey, CreateInstance, vars, history
    <3>2. QED BY <2>1, <2>3, <3>1 DEF DeleteUser, TypeOK
  <2>4. QED BY <2>2, <2>3
<1>2. ASSUME NEW t \in Tokens, token'[t] # None, NEW c, c = token'[t] PROVE Was(c)'
  <2>1. CASE token'[t] = token[t]
    <3>1. c.user \in Users /\ Was(c)
      BY <1>2, <2>1 DEF TypeOK, Claims, ClaimsInv
    <3>2. QED BY <3>1, WasStays
  <2>2. ASSUME NEW r \in Requests, NEW u \in Users, CreateFirstUser(r, u), token'[t] # token[t]
        PROVE  Was(c)'
    <3>1. c = ClaimsOf(u, [ws |-> request[r].ws, role |-> "admin"])
      BY <1>2, <2>2 DEF CreateFirstUser, Sign, TypeOK
    <3>2. user'[u] = [ws |-> request[r].ws, role |-> "admin"]
      BY <2>2 DEF CreateFirstUser, InsertUser, TypeOK
    <3>3. user'[u] # None
      BY <2>2, <3>2 DEF PhaseInv, CreateFirstUser, User, Role
    <3>4. QED BY <3>1, <3>2, <3>3 DEF Was, Known, ClaimsOf
  <2>3. ASSUME NEW r \in Requests, RightPassword(r), token'[t] # token[t]
        PROVE  Was(c)'
    <3>1. c = request[r].claims /\ request[r] # None /\ request[r].claims # None
      BY <1>2, <2>3 DEF RightPassword, ClearLoginFailures, Sign, At, TypeOK
    <3>2. c.user \in Users
      BY <3>1, RequestType DEF Claims
    <3>3. Was(c)
      BY <3>1 DEF ClaimsInv
    <3>4. QED BY <3>2, <3>3, WasStays
  <2>4. ASSUME NEW s \in Tokens, Logout(s) \/ ExpireToken(s), token'[t] # token[t] PROVE FALSE
    BY <1>2, <2>4 DEF Logout, Blacklist, ExpireToken, TypeOK
  <2>5. QED
    BY <2>1, <2>2, <2>3, <2>4
       DEF Next, AdminCall, UserCall, KeyCall, Register, CreateWorkspace, AddressTaken,
           WeakPassword, Login, WrongPassword, DeleteUser, Fails, Crash, LockExpires,
           CreateUser, AddUser, UpdateUser, SetRole, RevokeAPIKeysByUser, CreateAPIKey,
           RevokeAPIKey, CreateInstance, vars
<1>3. ASSUME NEW q \in Requests, request'[q] # None, request'[q].claims # None,
             NEW c, c = request'[q].claims
      PROVE  Was(c)'
  <2>1. c.user \in Users
    BY <1>3 DEF TypeOK, Request, Claims
  <2>2. SUFFICES Was(c)
    BY <2>1, <2>2, WasStays
  <2>3. CASE request'[q] = request[q]
    BY <1>3, <2>3 DEF ClaimsInv
  <2>4. CASE request'[q] # request[q]
    <3>1. \/ request[q] # None /\ c = request[q].claims
          \/ /\ user[request'[q].user] # None
             /\ c = ClaimsOf(request'[q].user, user[request'[q].user])
          \/ \E t \in Tokens : token[t] # None /\ c = token[t]
      BY <1>3, <2>4, RequestMoves
    <3>2. ASSUME NEW v, user[v] # None, c = ClaimsOf(v, user[v]) PROVE Was(c)
      BY <3>2 DEF Was, Known, ClaimsOf
    <3>3. QED BY <1>3, <3>1, <3>2 DEF ClaimsInv
  <2>5. QED BY <2>3, <2>4
<1>4. QED BY <1>1, <1>2, <1>3 DEF ClaimsInv, Was, Known

\* An update under way keeps its target, and what the caller may not do to himself.
LEMMA UpdateStep ==
  ASSUME TypeOK, PhaseInv, IdsInv, UpdateInv, [Next]_vars
  PROVE  UpdateInv'
<1> SUFFICES ASSUME NEW q \in Requests, request'[q] # None, request'[q].phase = "update",
                    NEW u, u = request'[q].user, NEW c, c = request'[q].claims
             PROVE  /\ Known(u)'
                    /\ user'[u] # None => user'[u].ws = c.ws
                    /\ u = c.user => request'[q].role = "admin"
  BY DEF UpdateInv, At, Known
<1>1. CASE request'[q] # request[q]
  BY <1>1, RequestMoves DEF InWorkspace, Known
<1>2. CASE request'[q] = request[q]
  <2>1. /\ u \in Users /\ Known(u)
        /\ u = c.user => request[q].role = "admin"
        /\ user[u] # None => user[u].ws = c.ws
    BY <1>2 DEF UpdateInv, PhaseInv, At
  <2>2. Known(u)' /\ (user'[u] # None => user[u] # None /\ user'[u].ws = user[u].ws)
    BY <1>2, <2>1, UsersStay DEF UpdateInv, At
  <2>3. QED BY <1>2, <2>1, <2>2
<1>3. QED BY <1>1, <1>2

\* A deletion under way keeps its target and, but for keys made since, its effect.
LEMMA RemoveStep ==
  ASSUME TypeOK, TypeOK', PhaseInv, IdsInv, ClaimsInv, RemoveInv, [Next]_vars
  PROVE  RemoveInv'
<1> USE NoValueAssumption
<1> SUFFICES ASSUME NEW q \in Requests, request'[q] # None, request'[q].phase = "remove",
                    NEW u, u = request'[q].user, NEW c, c = request'[q].claims
             PROVE  /\ u # c.user
                    /\ Known(u)'
                    /\ user'[u] # None => user'[u].ws = c.ws
                    /\ \A k \in Keys : Accepted(k)' /\ key'[k].by = u => k \in slipped'
  BY DEF RemoveInv, At, Known
<1>1. CASE request'[q] # request[q]
  <2>1. /\ InWorkspace(c, u) /\ u \in Users /\ u # c.user
        /\ key' = [k \in Keys |-> IF OfUser(k, u) THEN None ELSE key[k]]
        /\ UNCHANGED <<user, gone>>
    BY <1>1, RequestMoves
  <2>2. ASSUME NEW k \in Keys, Accepted(k)', key'[k].by = u PROVE FALSE
    BY <2>1, <2>2 DEF OfUser, Accepted
  <2>3. QED BY <2>1, <2>2 DEF InWorkspace, Known
<1>2. CASE request'[q] = request[q]
  <2>1. /\ u \in Users /\ u # c.user /\ Known(u) /\ At(q, "remove")
        /\ request[q].user = u
        /\ user[u] # None => user[u].ws = c.ws
        /\ \A k \in Keys : Accepted(k) /\ key[k].by = u => k \in slipped
    BY <1>2 DEF RemoveInv, PhaseInv, At
  <2>2. Known(u)' /\ (user'[u] # None => user[u] # None /\ user'[u].ws = user[u].ws)
    BY <2>1, UsersStay
  <2>3. ASSUME NEW k \in Keys, Accepted(k)', key'[k].by = u PROVE k \in slipped'
    <3>1. CASE key'[k] = key[k] /\ slipped \subseteq slipped'
      BY <2>1, <2>3, <3>1 DEF Accepted
    <3>2. ASSUME NEW w, NEW v, NEW i, NEW j \in Keys, CreateAPIKey(w, v, i, j) PROVE k \in slipped'
      <4>1. CASE k = j
        <5>1. key'[k].by = v
          BY <3>2, <4>1 DEF CreateAPIKey, InsertAPIKey, TypeOK
        <5>2. QED BY <2>1, <2>3, <3>2, <4>1, <5>1 DEF CreateAPIKey
      <4>2. CASE k # j
        <5>1. key'[k] = key[k] /\ slipped \subseteq slipped'
          BY <3>2, <4>2 DEF CreateAPIKey, InsertAPIKey, TypeOK
        <5>2. QED BY <3>1, <5>1
      <4>3. QED BY <4>1, <4>2
    <3>3. ASSUME NEW t \in Tokens, NEW j \in Keys, RevokeAPIKey(token[t], j) PROVE k \in slipped'
      BY <2>1, <2>3, <3>3 DEF RevokeAPIKey, TypeOK, Accepted
    <3>4. ASSUME NEW t \in Tokens, NEW r \in Requests, NEW v \in Users,
                 RevokeAPIKeysByUser(r, token[t], v)
          PROVE  k \in slipped'
      BY <2>1, <2>3, <3>4 DEF RevokeAPIKeysByUser, Accepted
    <3>5. ASSUME NEW r \in Requests, DeleteUser(r) PROVE k \in slipped'
      <4>1. CASE OfUser(k, request[r].user)
        <5>1. key'[k].by = None
          BY <3>5, <4>1 DEF DeleteUser, OfUser, TypeOK, APIKey
        <5>2. QED BY <2>1, <2>3, <5>1, AccountsAssumption
      <4>2. CASE ~OfUser(k, request[r].user)
        BY <3>1, <3>5, <4>2 DEF DeleteUser
      <4>3. QED BY <4>1, <4>2
    <3>6. QED
      BY <3>1, <3>2, <3>3, <3>4, <3>5
         DEF Next, AdminCall, UserCall, KeyCall, Register, CreateFirstUser, CreateWorkspace,
             AddressTaken, WeakPassword, Login, WrongPassword, RightPassword, Fails, Crash,
             LockExpires, Logout, ExpireToken, CreateUser, AddUser, UpdateUser, SetRole,
             CreateInstance, vars, rows, history
  <2>4. QED BY <1>2, <2>1, <2>2, <2>3
<1>3. QED BY <1>1, <1>2

\* No key that works is left of the deleted, but for those made meanwhile.
LEMMA KeysStep ==
  ASSUME TypeOK, TypeOK', PhaseInv, IdsInv, ClaimsInv, RemoveInv, OrphanKeysSlippedThrough,
         [Next]_vars
  PROVE  OrphanKeysSlippedThrough'
<1> USE NoValueAssumption
<1> SUFFICES ASSUME NEW k \in Keys, Accepted(k)', key'[k].by = None PROVE k \in slipped'
  BY DEF OrphanKeysSlippedThrough
<1>2. CASE key'[k] = key[k] /\ slipped \subseteq slipped'
  BY <1>2 DEF OrphanKeysSlippedThrough, Accepted
<1>3. ASSUME NEW r \in Requests, DeleteUser(r) PROVE k \in slipped'
  <2>1. CASE OfUser(k, request[r].user)
    BY <1>3, <2>1 DEF DeleteUser, RemoveInv, OfUser, Accepted
  <2>2. CASE ~OfUser(k, request[r].user)
    BY <1>2, <1>3, <2>2 DEF DeleteUser
  <2>3. QED BY <2>1, <2>2
<1>4. ASSUME NEW w, NEW v, NEW i, NEW j \in Keys, CreateAPIKey(w, v, i, j),
             v \in Users \/ (i \in Keys /\ Accepted(i) /\ v = key[i].by)
      PROVE  k \in slipped'
  <2>1. CASE k = j
    <3>1. v = None
      BY <1>4, <2>1 DEF CreateAPIKey, InsertAPIKey, TypeOK
    <3>2. i \in slipped
      BY <1>4, <3>1, AccountsAssumption DEF OrphanKeysSlippedThrough
    <3>3. QED BY <1>4, <2>1, <3>1, <3>2 DEF CreateAPIKey
  <2>2. CASE k # j
    BY <1>2, <1>4, <2>2 DEF CreateAPIKey, InsertAPIKey, TypeOK
  <2>3. QED BY <2>1, <2>2
<1>5. ASSUME NEW t \in Tokens, NEW j \in Keys, RevokeAPIKey(token[t], j) PROVE k \in slipped'
  BY <1>5 DEF RevokeAPIKey, TypeOK, Accepted, OrphanKeysSlippedThrough
<1>6. ASSUME NEW t \in Tokens, NEW r \in Requests, NEW u \in Users,
             RevokeAPIKeysByUser(r, token[t], u)
      PROVE  k \in slipped'
  BY <1>6 DEF RevokeAPIKeysByUser, Accepted, OrphanKeysSlippedThrough
<1>7. ASSUME NEW t \in Tokens, NEW j \in Keys, AdminCall(t),
             CreateAPIKey(token[t].ws, token[t].user, None, j)
      PROVE  k \in slipped'
  BY <1>4, <1>7 DEF AdminCall, Authenticate, TypeOK, Claims
<1>8. ASSUME NEW j \in Keys, CreateInstance(j) PROVE k \in slipped'
  <2>1. ASSUME NEW t \in Tokens, token[t] # None,
               CreateAPIKey(token[t].ws, token[t].user, None, j)
        PROVE  k \in slipped'
    BY <1>4, <2>1 DEF TypeOK, Claims
  <2>2. QED BY <1>4, <1>8, <2>1, KeyIsMade
<1>9. QED
  BY <1>2, <1>3, <1>5, <1>6, <1>7, <1>8
     DEF Next, AdminCall, UserCall, KeyCall, Register, CreateFirstUser, CreateWorkspace,
         AddressTaken, WeakPassword, Login, WrongPassword, RightPassword, Fails, Crash,
         LockExpires, Logout, ExpireToken, CreateUser, AddUser, UpdateUser, SetRole, vars, rows,
         history

\* Who waits at the registration while a workspace is made, or after, has a rival;
\* a workspace nobody can enter has a reason.
LEMMA RegistrationStep ==
  ASSUME TypeOK, TypeOK', PhaseInv, RivalInv, SecondWorkspaceHadARival, NobodyLeftAfterAFault,
         [Next]_vars
  PROVE  RivalInv' /\ SecondWorkspaceHadARival' /\ NobodyLeftAfterAFault'
<1> USE NoValueAssumption
<1> DEFINE Good == RivalInv' /\ SecondWorkspaceHadARival' /\ NobodyLeftAfterAFault'
<1>1. ASSUME NEW r \in Requests, NEW w \in Workspaces, Register(r, w) PROVE Good
  <2>1. \A q \in Requests : At(q, "enrol")' <=> At(q, "enrol")
    BY <1>1 DEF Register, Begin, At, TypeOK
  <2>2. QED
    BY <1>1, <2>1 DEF Register, RivalInv, SecondWorkspaceHadARival, NobodyLeftAfterAFault,
                      HasAnyWorkspace, rows, history
<1>2. ASSUME NEW r \in Requests, CreateWorkspace(r) PROVE Good
  <2>1. \A q \in Requests \ {r} : request'[q] = request[q]
    BY <1>2 DEF CreateWorkspace, InsertWorkspace, End, TypeOK
  <2>2. At(r, "register") /\ ~At(r, "register")'
    <3>1. request[r] \in Request
      BY <1>2, RequestType DEF CreateWorkspace, InsertWorkspace, At
    <3>2. QED BY <1>2, <3>1 DEF CreateWorkspace, InsertWorkspace, End, At, TypeOK, Request
  <2>3. RivalInv'
    BY <1>2, <2>1, <2>2 DEF CreateWorkspace, InsertWorkspace, RivalInv, At
  <2>4. SecondWorkspaceHadARival'
    <3>1. CASE workspaces = {}
      BY <1>2, <3>1 DEF CreateWorkspace, InsertWorkspace, SecondWorkspaceHadARival
    <3>2. CASE workspaces # {}
      BY <1>2, <2>2, <3>2
         DEF CreateWorkspace, InsertWorkspace, SecondWorkspaceHadARival, RivalInv,
             HasAnyWorkspace
    <3>3. QED BY <3>1, <3>2
  <2>5. NobodyLeftAfterAFault'
    <3>1. CASE request[r].ws \in workspaces
      <4>1. \A q \in Requests : At(q, "enrol") => At(q, "enrol")'
        BY <2>1, <2>2 DEF At
      <4>2. QED BY <1>2, <3>1, <4>1
                   DEF CreateWorkspace, InsertWorkspace, NobodyLeftAfterAFault, HasAnyWorkspace
    <3>2. CASE request[r].ws \notin workspaces
      <4>1. request' = [request EXCEPT ![r].phase = "enrol"] /\ request[r] \in Request
        BY <1>2, <2>2, <3>2, RequestType DEF CreateWorkspace, InsertWorkspace, At
      <4>2. request'[r] \in Request /\ request'[r].phase = "enrol"
        BY <4>1 DEF TypeOK, Request
      <4>3. QED BY <4>2 DEF NobodyLeftAfterAFault, At
    <3>3. QED BY <3>1, <3>2
  <2>6. QED BY <2>3, <2>4, <2>5
<1>3. ASSUME NEW q \in Requests, UNCHANGED workspaces, UNCHANGED rivals, At(q, "register")'
      PROVE  At(q, "register") \/ RegistrationEnabled \/ ~HasAnyWorkspace
  BY <1>3, RequestMoves DEF At
<1>4. ASSUME UNCHANGED workspaces, UNCHANGED rivals, NobodyLeftAfterAFault' PROVE Good
  BY <1>3, <1>4 DEF RivalInv, SecondWorkspaceHadARival, HasAnyWorkspace
<1>5. ASSUME NEW r \in Requests, NEW u \in Users, CreateFirstUser(r, u) PROVE Good
  <2>1. user'[u] = [ws |-> request[r].ws, role |-> "admin"] /\ request[r].ws \in Workspaces
    BY <1>5 DEF CreateFirstUser, InsertUser, TypeOK, PhaseInv
  <2>2. user'[u] # None
    BY <2>1 DEF User, Role
  <2>3. QED BY <1>4, <1>5, <2>2 DEF CreateFirstUser, NobodyLeftAfterAFault, history
<1>6. ASSUME NEW r \in Requests, AddressTaken(r) \/ WeakPassword(r) PROVE Good
  <2>1. CASE AddressTaken(r)
    BY <1>4, <2>1 DEF AddressTaken, NobodyLeftAfterAFault, rows, history
  <2>2. CASE WeakPassword(r)
    <3>1. \A q \in Requests : At(q, "enrol") => At(q, "enrol")'
      BY <2>2 DEF WeakPassword, End, At, TypeOK
    <3>2. QED BY <1>4, <2>2, <3>1 DEF WeakPassword, NobodyLeftAfterAFault, HasAnyWorkspace, rows,
                                      history
  <2>3. QED BY <1>6, <2>1, <2>2
<1>7. ASSUME NEW r \in Requests, DeleteUser(r) PROVE Good
  BY <1>4, <1>7 DEF DeleteUser, NobodyLeftAfterAFault
<1>8. ASSUME Fault, UNCHANGED workspaces, UNCHANGED rivals PROVE Good
  <2>1. faults' > 0
    BY <1>8 DEF Fault, TypeOK
  <2>2. QED BY <1>4, <1>8, <2>1 DEF NobodyLeftAfterAFault
<1>9. ASSUME UNCHANGED <<workspaces, gone, faults, rivals>>,
             \A u \in Users : user[u] # None => user'[u] # None,
             \A q \in Requests : At(q, "enrol") => At(q, "enrol")'
      PROVE  Good
  BY <1>4, <1>9 DEF NobodyLeftAfterAFault, HasAnyWorkspace
<1>10. ASSUME NEW r \in Requests, WrongPassword(r) \/ RightPassword(r) PROVE Good
  <2>1. \A q \in Requests : At(q, "enrol") => At(q, "enrol")'
    BY <1>10
       DEF WrongPassword, RecordLoginFailure, RightPassword, ClearLoginFailures, End, At, TypeOK
  <2>2. QED BY <1>8, <1>9, <1>10, <2>1
               DEF WrongPassword, RecordLoginFailure, RightPassword, ClearLoginFailures, rows
<1>11. ASSUME NEW r \in Requests, NEW u \in Users, Login(r, u) PROVE Good
  <2>1. \A q \in Requests : At(q, "enrol") => At(q, "enrol")'
    BY <1>11 DEF Login, GetUserByEmail, Begin, At, TypeOK
  <2>2. QED BY <1>8, <1>9, <1>11, <2>1 DEF Login, GetUserByEmail, Unlocked, rows, history
<1>12. ASSUME NEW r \in Requests,
              (\E u \in Users : AddUser(r, u)) \/ SetRole(r) PROVE Good
  <2>1. \A v \in Users : user[v] # None => user'[v] # None
    <3>1. ASSUME NEW u \in Users, AddUser(r, u)
          PROVE  \A v \in Users : user[v] # None => user'[v] # None
      BY <3>1 DEF AddUser, InsertUser, TypeOK
    <3>2. ASSUME SetRole(r) PROVE \A v \in Users : user[v] # None => user'[v] # None
      <4> DEFINE u == request[r].user
      <4>1. user[u] # None => [user[u] EXCEPT !.role = request[r].role] \in User
        BY <3>2 DEF SetRole, PhaseInv, TypeOK, User
      <4>2. QED BY <3>2, <4>1 DEF SetRole, TypeOK
    <3>3. QED BY <1>12, <3>1, <3>2
  <2>2. \A q \in Requests : At(q, "enrol") => At(q, "enrol")'
    BY <1>12 DEF AddUser, SetRole, End, At, TypeOK
  <2>3. QED BY <1>9, <1>12, <2>1, <2>2 DEF AddUser, SetRole, history
<1>13. ASSUME NEW t \in Tokens, NEW r \in Requests, NEW u \in Users,
              RevokeAPIKeysByUser(r, token[t], u)
       PROVE  Good
  <2>1. \A q \in Requests : At(q, "enrol") => At(q, "enrol")'
    BY <1>13 DEF RevokeAPIKeysByUser, Begin, At, TypeOK
  <2>2. QED BY <1>9, <1>13, <2>1 DEF RevokeAPIKeysByUser, history
<1>14. ASSUME UNCHANGED <<workspaces, user, request, gone, rivals>>, UNCHANGED faults \/ Fault
       PROVE  Good
  BY <1>8, <1>9, <1>14 DEF At
<1>15. ASSUME NEW c, NEW r \in Requests, NEW u, NEW role,
              CreateUser(r, c, role) \/ UpdateUser(r, c, u, role)
       PROVE  Good
  <2>1. \A q \in Requests : At(q, "enrol") => At(q, "enrol")'
    BY <1>15 DEF CreateUser, UpdateUser, Begin, At, TypeOK
  <2>2. QED BY <1>9, <1>15, <2>1 DEF CreateUser, UpdateUser, rows, history
<1>16. QED
  BY <1>1, <1>2, <1>5, <1>6, <1>7, <1>8, <1>10, <1>11, <1>12, <1>13, <1>14, <1>15
     DEF Next, AdminCall, UserCall, KeyCall, Fails, Crash, Logout, Blacklist, ExpireToken,
         LockExpires, CreateAPIKey, RevokeAPIKey, CreateInstance, vars, rows, history

\* The requests are finitely many, and so are those comparing.
LEMMA ComparingIsFinite ==
  ASSUME NEW a
  PROVE  /\ IsFiniteSet(Comparing(a)) /\ Cardinality(Comparing(a)) \in Nat
         /\ Cardinality(Requests) \in Nat
         /\ Cardinality(Comparing(a)) <= Cardinality(Requests)
<1>1. Comparing(a) \in SUBSET Requests /\ IsFiniteSet(Requests)
  BY AccountsAssumption DEF Comparing
<1>2. QED BY <1>1, FS_Subset, FS_CardinalityType

\* A step that begins no login and leaves the counters alone keeps the bounds.
LEMMA GuessesUntouched ==
  ASSUME TypeOK, TypeOK', NEW a \in Addresses, GuessInvOf(a), faults' >= faults,
         guesses'[a] = guesses[a], failures'[a] = failures[a],
         \A r \in Requests : /\ request'[r] # None /\ request'[r].phase = "compare"
                             /\ AddressOf[request'[r].user] = a
                             => request'[r] = request[r]
  PROVE  GuessInvOf(a)'
<1>1. Comparing(a)' \in SUBSET Comparing(a)
  BY DEF Comparing, At
<1>2. /\ Cardinality(Comparing(a)') <= Cardinality(Comparing(a))
      /\ Cardinality(Comparing(a)') \in Nat /\ Cardinality(Comparing(a)) \in Nat
      /\ Cardinality(Requests) \in Nat
  BY <1>1, ComparingIsFinite, FS_Subset, FS_CardinalityType
<1>3. QED BY <1>2, AccountsAssumption DEF GuessInvOf, TypeOK

\* A login passes the lock below the limit, or by a fault.
LEMMA LoginKeepsGuesses ==
  ASSUME TypeOK, TypeOK', NEW a \in Addresses, GuessInvOf(a),
         NEW r \in Requests, NEW v \in Users, Login(r, v)
  PROVE  GuessInvOf(a)'
<1> USE NoValueAssumption, AccountsAssumption
<1> DEFINE C == Cardinality(Comparing(a))
           D == Cardinality(Comparing(a)')
           N == Cardinality(Requests)
<1>1. r \notin Comparing(a) /\ Comparing(a)' \subseteq Comparing(a) \cup {r}
  BY DEF Login, GetUserByEmail, Begin, Comparing, At, TypeOK
<1>2. C \in Nat /\ D \in Nat /\ N \in Nat /\ IsFiniteSet(Comparing(a)) /\ IsFiniteSet(Requests)
  <2>1. IsFiniteSet(Comparing(a)) /\ IsFiniteSet(Requests)
    BY ComparingIsFinite, AccountsAssumption
  <2>2. IsFiniteSet(Comparing(a) \cup {r})
    BY <2>1, FS_AddElement
  <2>3. IsFiniteSet(Comparing(a)')
    BY <1>1, <2>2, FS_Subset
  <2>4. QED BY <2>1, <2>3, FS_CardinalityType
<1>3. D <= C + 1 /\ C + 1 <= N
  <2>1. Cardinality(Comparing(a) \cup {r}) = C + 1 /\ IsFiniteSet(Comparing(a) \cup {r})
    BY <1>1, <1>2, FS_AddElement
  <2>2. Comparing(a)' \in SUBSET (Comparing(a) \cup {r}) /\ Comparing(a) \cup {r} \in SUBSET Requests
    BY <1>1 DEF Comparing
  <2>3. D <= Cardinality(Comparing(a) \cup {r})
    BY <2>1, <2>2, FS_Subset
  <2>4. Cardinality(Comparing(a) \cup {r}) <= N
    BY <1>2, <2>2, FS_Subset
  <2>5. QED BY <2>1, <2>3, <2>4
<1>4. guesses'[a] = guesses[a] /\ failures'[a] = failures[a]
  BY DEF Login, GetUserByEmail, history
<1>5. AddressOf[v] # a => D <= C
  <2>1. ASSUME AddressOf[v] # a PROVE Comparing(a)' \in SUBSET Comparing(a)
    BY <2>1 DEF Login, GetUserByEmail, Begin, Comparing, At, TypeOK
  <2>2. QED BY <1>2, <2>1, FS_Subset
<1>6. faults' = faults + 1 \/ (faults' = faults /\ (AddressOf[v] = a => failures[a] < MaxAttempts))
  BY DEF Login, GetUserByEmail, Unlocked, Fault
<1>7. GuessInvOf(a)' <=> /\ guesses'[a] <= failures'[a] + faults'
                        /\ guesses'[a] + D <= MaxAttempts + N - 1 + faults'
  BY DEF GuessInvOf
<1>8. /\ guesses[a] <= failures[a] + faults
      /\ guesses[a] + C <= MaxAttempts + N - 1 + faults
  BY DEF GuessInvOf
<1>9. guesses[a] \in Nat /\ failures[a] \in Nat /\ faults \in Nat /\ MaxAttempts \in Nat
  BY AccountsAssumption DEF TypeOK
<1> HIDE DEF C, D, N
<1>10. QED BY <1>2, <1>3, <1>4, <1>5, <1>6, <1>7, <1>8, <1>9

\* A wrong password makes a guess of a login, counted or hidden by a fault; a right
\* one, and the end of the counter's time, start anew.
LEMMA PasswordKeepsGuesses ==
  ASSUME TypeOK, TypeOK', PhaseInv, NEW a \in Addresses, GuessInvOf(a),
         \/ \E r \in Requests : WrongPassword(r) \/ RightPassword(r)
         \/ \E b \in Addresses : LockExpires(b)
  PROVE  GuessInvOf(a)'
<1> USE NoValueAssumption, AccountsAssumption
<1> DEFINE C == Cardinality(Comparing(a))
           D == Cardinality(Comparing(a)')
           N == Cardinality(Requests)
<1>1. /\ guesses[a] \in Nat /\ failures[a] \in Nat /\ faults \in Nat /\ MaxAttempts \in Nat \ {0}
      /\ guesses'[a] \in Nat /\ failures'[a] \in Nat
  BY AccountsAssumption DEF TypeOK
<1>2. IsFiniteSet(Comparing(a)) /\ C \in Nat /\ N \in Nat /\ C <= N
  BY ComparingIsFinite
<1>3. Comparing(a)' \in SUBSET Comparing(a)
  BY DEF WrongPassword, RecordLoginFailure, RightPassword, ClearLoginFailures, LockExpires, End,
         Comparing, At, TypeOK
<1>4. D \in Nat /\ D <= C
  BY <1>2, <1>3, FS_Subset, FS_CardinalityType
<1>5. faults' = faults \/ faults' = faults + 1
  BY DEF WrongPassword, RecordLoginFailure, RightPassword, ClearLoginFailures, LockExpires, Fault
<1>6. \/ guesses'[a] = guesses[a] /\ failures'[a] = failures[a]
      \/ guesses'[a] = 0
      \/ /\ D = C - 1 /\ guesses'[a] = guesses[a] + 1
         /\ \/ failures'[a] = failures[a] + 1
            \/ failures'[a] = failures[a] /\ faults' = faults + 1
  <2>1. ASSUME NEW r \in Requests, WrongPassword(r), AddressOf[request[r].user] = a
        PROVE  /\ D = C - 1 /\ guesses'[a] = guesses[a] + 1
               /\ \/ failures'[a] = failures[a] + 1
                  \/ failures'[a] = failures[a] /\ faults' = faults + 1
    <3>1. r \in Comparing(a) /\ Comparing(a)' = Comparing(a) \ {r}
      BY <2>1 DEF WrongPassword, RecordLoginFailure, End, Comparing, At, TypeOK
    <3>2. D = C - 1
      BY <1>2, <3>1, FS_RemoveElement
    <3>3. QED BY <2>1, <3>2 DEF WrongPassword, RecordLoginFailure, Fault, TypeOK
  <2>2. ASSUME NEW r \in Requests, WrongPassword(r), AddressOf[request[r].user] # a
        PROVE  guesses'[a] = guesses[a] /\ failures'[a] = failures[a]
    BY <2>2 DEF WrongPassword, RecordLoginFailure, PhaseInv, TypeOK
  <2>3. ASSUME NEW r \in Requests, RightPassword(r)
        PROVE  guesses'[a] = 0 \/ (guesses'[a] = guesses[a] /\ failures'[a] = failures[a])
    BY <2>3 DEF RightPassword, ClearLoginFailures, PhaseInv, TypeOK
  <2>4. ASSUME NEW b \in Addresses, LockExpires(b)
        PROVE  guesses'[a] = 0 \/ (guesses'[a] = guesses[a] /\ failures'[a] = failures[a])
    BY <2>4 DEF LockExpires, TypeOK
  <2>5. QED BY <2>1, <2>2, <2>3, <2>4
<1>7. GuessInvOf(a)' <=> /\ guesses'[a] <= failures'[a] + faults'
                        /\ guesses'[a] + D <= MaxAttempts + N - 1 + faults'
  BY DEF GuessInvOf
<1>8. /\ guesses[a] <= failures[a] + faults
      /\ guesses[a] + C <= MaxAttempts + N - 1 + faults
  BY DEF GuessInvOf
<1> HIDE DEF C, D, N
<1>9. QED BY <1>1, <1>2, <1>4, <1>5, <1>6, <1>7, <1>8

\* The bounds on guesses are kept.
LEMMA GuessStep ==
  ASSUME TypeOK, TypeOK', PhaseInv, GuessInv, [Next]_vars
  PROVE  GuessInv'
<1> USE NoValueAssumption
<1> SUFFICES ASSUME NEW a \in Addresses PROVE GuessInvOf(a)'
  BY DEF GuessInv
<1>1. GuessInvOf(a)
  BY DEF GuessInv
<1>2. CASE \E r \in Requests, v \in Users : Login(r, v)
  BY <1>1, <1>2, LoginKeepsGuesses
<1>3. CASE \/ \E r \in Requests : WrongPassword(r) \/ RightPassword(r)
           \/ \E b \in Addresses : LockExpires(b)
  BY <1>1, <1>3, PasswordKeepsGuesses
<1>4. ASSUME UNCHANGED <<guesses, failures>>, UNCHANGED faults \/ Fault,
             \A r \in Requests : \/ request'[r] = request[r] \/ request'[r] = None
                                 \/ request'[r].phase \in
                                      {"register", "enrol", "create", "update", "remove"}
      PROVE  GuessInvOf(a)'
  <2>1. faults' >= faults
    BY <1>4 DEF Fault, TypeOK
  <2>2. QED BY <1>1, <1>4, <2>1, GuessesUntouched
<1>5. ASSUME NEW r \in Requests, CreateWorkspace(r) PROVE GuessInvOf(a)'
  <2>1. request[r] \in Request
    BY <1>5, RequestType DEF CreateWorkspace, InsertWorkspace, At
  <2>2. \A q \in Requests : \/ request'[q] = request[q] \/ request'[q] = None
                            \/ request'[q].phase = "enrol"
    BY <1>5, <2>1 DEF CreateWorkspace, InsertWorkspace, End, TypeOK, Request
  <2>3. QED BY <1>4, <1>5, <2>2 DEF CreateWorkspace, InsertWorkspace
<1>6. ASSUME NEW r \in Requests, NEW c, NEW v, NEW w, NEW role,
             NEW p \in {"register", "create", "update", "remove"}, Begin(r, p, c, v, w, role)
      PROVE  \A q \in Requests : \/ request'[q] = request[q]
                                \/ request'[q].phase \in {"register", "create", "update", "remove"}
  BY <1>6 DEF Begin, TypeOK
<1>7. ASSUME NEW r \in Requests, End(r)
      PROVE  \A q \in Requests : request'[q] = request[q] \/ request'[q] = None
  BY <1>7 DEF End, TypeOK
<1>8. CASE Crash
  BY <1>4, <1>8 DEF Crash, history
<1>9. CASE UNCHANGED <<guesses, failures, request>> /\ (UNCHANGED faults \/ Fault)
  BY <1>4, <1>9
<1>10. ASSUME NEW r \in Requests, NEW v,
              \/ CreateFirstUser(r, v) \/ AddressTaken(r) \/ WeakPassword(r)
              \/ AddUser(r, v) \/ SetRole(r) \/ DeleteUser(r) \/ Fails(r)
       PROVE  GuessInvOf(a)'
  BY <1>4, <1>7, <1>10
     DEF CreateFirstUser, AddressTaken, WeakPassword, AddUser, SetRole, DeleteUser, Fails, history
<1>11. ASSUME NEW r \in Requests, NEW w \in Workspaces, Register(r, w) PROVE GuessInvOf(a)'
  BY <1>4, <1>6, <1>11 DEF Register, history
<1>12. ASSUME NEW c, NEW r \in Requests, NEW v \in Users, RevokeAPIKeysByUser(r, c, v)
       PROVE  GuessInvOf(a)'
  BY <1>4, <1>6, <1>12 DEF RevokeAPIKeysByUser, history
<1>13. ASSUME NEW c, NEW r \in Requests, NEW role, CreateUser(r, c, role) PROVE GuessInvOf(a)'
  BY <1>4, <1>6, <1>13 DEF CreateUser, history
<1>14. ASSUME NEW c, NEW r \in Requests, NEW v, NEW role, UpdateUser(r, c, v, role)
       PROVE  GuessInvOf(a)'
  BY <1>4, <1>6, <1>14 DEF UpdateUser, history
<1>15. QED
  BY <1>2, <1>3, <1>5, <1>8, <1>9, <1>10, <1>11, <1>12, <1>13, <1>14
     DEF Next, AdminCall, UserCall, KeyCall, Logout, Blacklist, ExpireToken, CreateAPIKey,
         RevokeAPIKey, CreateInstance, vars, history

-----------------------------------------------------------------------------

\* The strengthened invariant holds in every behaviour.
THEOREM InductiveInvariant == Spec => []IInv
<1>1. Init => IInv
  <2> SUFFICES ASSUME Init PROVE IInv
    OBVIOUS
  <2>1. GuessInv
    <3>1. \A a \in Addresses : Cardinality(Comparing(a)) = 0
      <4>1. ASSUME NEW a \in Addresses PROVE Comparing(a) = {}
        BY DEF Init, Comparing, At
      <4>2. QED BY <4>1, FS_EmptySet
    <3>2. Cardinality(Requests) \in Nat
      BY FS_CardinalityType, AccountsAssumption
    <3>3. \A a \in Addresses : guesses[a] = 0 /\ failures[a] = 0 /\ faults = 0
      BY DEF Init
    <3>4. MaxAttempts \in Nat \ {0}
      BY AccountsAssumption
    <3>5. QED BY <3>1, <3>2, <3>3, <3>4 DEF GuessInv, GuessInvOf
  <2>2. TypeOK
    <3>1. faults \in 0 .. MaxFaults /\ failures \in [Addresses -> Nat]
          /\ guesses \in [Addresses -> Nat]
      BY AccountsAssumption DEF Init
    <3>2. QED BY <3>1 DEF Init, TypeOK
  <2>3. QED
    BY <2>1, <2>2
       DEF Init, IInv, PhaseInv, IdsInv, ClaimsInv, UpdateInv, RemoveInv,
           OrphanKeysSlippedThrough, RivalInv, SecondWorkspaceHadARival,
           NobodyLeftAfterAFault, HasAnyWorkspace, Accepted, At
<1>2. IInv /\ [Next]_vars => IInv'
  BY TypeStep, PhaseStep, ClaimsStep, UpdateStep, RemoveStep, KeysStep, RegistrationStep,
     GuessStep
     DEF IInv
<1>3. QED BY <1>1, <1>2, PTL DEF Spec

\* Every variable keeps its type.
THEOREM TypeCorrect == Spec => []TypeOK
<1>1. IInv => TypeOK
  BY DEF IInv
<1>2. QED BY <1>1, InductiveInvariant, PTL

\* There is a second workspace, where registration closes, only after a rivalry.
THEOREM RegistrationCloses == Spec => []SecondWorkspaceHadARival
<1>1. IInv => SecondWorkspaceHadARival
  BY DEF IInv
<1>2. QED BY <1>1, InductiveInvariant, PTL

\* A workspace nobody can enter is the work of a fault or of its own users.
THEOREM SomebodyIsLeft == Spec => []NobodyLeftAfterAFault
<1>1. IInv => NobodyLeftAfterAFault
  BY DEF IInv
<1>2. QED BY <1>1, InductiveInvariant, PTL

\* A key survives its maker only if it was made in the middle of the deletion.
THEOREM KeysDieWithTheirMaker == Spec => []OrphanKeysSlippedThrough
<1>1. IInv => OrphanKeysSlippedThrough
  BY DEF IInv
<1>2. QED BY <1>1, InductiveInvariant, PTL

\* Between two right passwords of any account of an address, its case aside, the lock
\* lets through its limit, one more guess for each other request, and one for each fault.
THEOREM LockBoundsGuesses == Spec => []GuessesAreBounded
<1>1. IInv => GuessesAreBounded
  <2> SUFFICES ASSUME IInv, NEW a \in Addresses
               PROVE  guesses[a] <= MaxAttempts + Cardinality(Requests) - 1 + faults
    BY DEF GuessesAreBounded
  <2>1. guesses[a] + Cardinality(Comparing(a)) <= MaxAttempts + Cardinality(Requests) - 1 + faults
    BY DEF IInv, GuessInv, GuessInvOf
  <2>2. Cardinality(Comparing(a)) \in Nat /\ Cardinality(Requests) \in Nat
    BY ComparingIsFinite
  <2>3. guesses[a] \in Nat /\ faults \in Nat /\ MaxAttempts \in Nat
    BY AccountsAssumption DEF IInv, TypeOK
  <2>4. QED BY <2>1, <2>2, <2>3
<1>2. QED BY <1>1, InductiveInvariant, PTL

\* Only an update or a deletion takes an admin from a workspace, and an admin of it
\* who makes the call is left.
LEMMA LastAdminStep ==
  ASSUME IInv, [Next]_vars, NEW w \in Workspaces, HasAdmin(w), ~HasAdmin(w)'
  PROVE  \E c \in AdminClaims : c.ws = w /\ ~IsAdmin(c.user)
<1> USE NoValueAssumption
<1>1. PICK v \in Users : IsAdmin(v) /\ user[v].ws = w /\ user'[v] # user[v]
  BY DEF HasAdmin, IsAdmin
<1>2. user[v] # None /\ user[v] \in User
  BY <1>1 DEF IsAdmin, IInv, TypeOK
<1>3. ASSUME NEW r \in Requests, SetRole(r)
      PROVE  /\ request[r].claims \in AdminClaims /\ request[r].claims.ws = w
             /\ ~IsAdmin(request[r].claims.user)
  <2> DEFINE c == request[r].claims
             u == request[r].user
  <2>1. /\ c \in AdminClaims /\ c \in Claims /\ Was(c) /\ u \in Users
        /\ u = c.user => request[r].role = "admin"
    BY <1>3, RequestType
       DEF SetRole, At, AdminClaims, IInv, PhaseInv, UpdateInv, ClaimsInv
  <2>2. u = v /\ user' = [user EXCEPT ![v].role = request[r].role]
    BY <1>1, <1>3 DEF SetRole, IInv, TypeOK
  <2>3. c.ws = w
    BY <1>1, <1>2, <1>3, <2>2 DEF SetRole, IInv, UpdateInv
  <2>4. ASSUME IsAdmin(c.user) PROVE FALSE
    <3>1. user[c.user].ws = w /\ c.user \in Users
      BY <2>1, <2>3, <2>4 DEF Was, IsAdmin, Claims
    <3>2. CASE c.user = v
      <4>1. user'[v] = [user[v] EXCEPT !.role = "admin"]
        BY <2>1, <2>2, <3>2 DEF IInv, TypeOK
      <4>2. user[v].role = "admin"
        BY <1>1 DEF IsAdmin
      <4>3. user'[v] = user[v]
        BY <1>2, <4>1, <4>2 DEF User
      <4>4. QED BY <1>1, <4>3
    <3>3. CASE c.user # v
      <4>1. user'[c.user] = user[c.user]
        BY <2>2, <3>3 DEF IInv, TypeOK
      <4>2. QED BY <2>4, <3>1, <4>1 DEF HasAdmin, IsAdmin
    <3>4. QED BY <3>2, <3>3
  <2>5. QED BY <2>1, <2>3, <2>4
<1>4. ASSUME NEW r \in Requests, DeleteUser(r)
      PROVE  /\ request[r].claims \in AdminClaims /\ request[r].claims.ws = w
             /\ ~IsAdmin(request[r].claims.user)
  <2> DEFINE c == request[r].claims
  <2>1. c \in AdminClaims /\ c \in Claims /\ Was(c) /\ request[r].user # c.user
    BY <1>4, RequestType DEF DeleteUser, At, AdminClaims, IInv, PhaseInv, RemoveInv, ClaimsInv
  <2>2. request[r].user = v /\ c.ws = w
    BY <1>1, <1>2, <1>4 DEF DeleteUser, IInv, TypeOK, RemoveInv
  <2>3. ASSUME IsAdmin(c.user) PROVE FALSE
    <3>1. user[c.user].ws = w /\ c.user \in Users
      BY <2>1, <2>2, <2>3 DEF Was, IsAdmin, Claims
    <3>2. user'[c.user] = user[c.user]
      BY <1>4, <2>1, <3>1 DEF DeleteUser, IInv, TypeOK
    <3>3. QED BY <2>3, <3>1, <3>2 DEF HasAdmin, IsAdmin
  <2>4. QED BY <2>1, <2>2, <2>3
<1>5. ASSUME NEW u \in Users, NEW row, InsertUser(u, row) PROVE FALSE
  BY <1>1, <1>2, <1>5 DEF InsertUser, IInv, TypeOK
<1>6. CASE UNCHANGED user
  BY <1>1, <1>6
<1>7. QED
  BY <1>3, <1>4, <1>5, <1>6
     DEF Next, AdminCall, UserCall, KeyCall, Register, CreateFirstUser, CreateWorkspace,
         AddressTaken, WeakPassword, Login, WrongPassword, RightPassword, Fails, Crash,
         LockExpires, Logout, ExpireToken, CreateUser, AddUser, UpdateUser, RevokeAPIKeysByUser,
         CreateAPIKey, RevokeAPIKey, CreateInstance, vars, rows

\* Nobody but a former admin of a workspace takes its last one, on claims from before, in
\* a token or in a call that was let in when the token was good.
THEOREM LastAdminIsSafe == Spec => LastAdminFallsToAFormerOne
<1>1. IInv /\ [Next]_vars =>
        [\A w \in Workspaces : HasAdmin(w) /\ ~HasAdmin(w)' =>
           \E c \in AdminClaims : c.ws = w /\ ~IsAdmin(c.user)]_vars
  BY LastAdminStep
<1>2. QED BY <1>1, InductiveInvariant, PTL DEF Spec, LastAdminFallsToAFormerOne
=============================================================================

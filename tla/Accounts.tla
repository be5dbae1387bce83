------------------------------- MODULE Accounts -------------------------------
(***************************************************************************)
(* Workspaces, their users, and what lets somebody in: logins and their    *)
(* lock, JWTs and their blacklist, API keys (internal/domain/auth,         *)
(* infra/repo/auth_repo.go, api/auth, api/user, server/middleware).  A     *)
(* request is admitted by the claims of its token, which say what the user *)
(* was when the token was signed, and works on rows that others change.    *)
(*                                                                         *)
(* A request's statements are steps of their own where another request can *)
(* tell them apart; a row read for nothing but its workspace, which never  *)
(* changes, is read in the step of the statement that follows.  The        *)
(* service counts no logins without a Redis, but main.go:73 does not start *)
(* without one.                                                            *)
(***************************************************************************)
EXTENDS Integers, FiniteSets

CONSTANTS
  Workspaces,          \* slugs, each of one workspace at most
  Users,               \* user ids, each given once, with the e-mail addresses of the rows
  Addresses,           \* the addresses in lower case, by which Redis counts logins
  AddressOf,           \* the one of each user: two whose addresses differ in case share it
  Tokens,              \* JWTs not expired yet, by their jti
  Keys,                \* API keys neither revoked nor expired
  Requests,            \* requests under way at once
  RegistrationEnabled, \* REGISTRATION_ENABLED: open to more than the first workspace
  MaxAttempts,         \* failed logins that lock an address (10 in the code)
  MaxFaults,           \* bound: failed statements, Redis errors and crashes, together
  None                 \* no row, no token, no request, no claims

ASSUME AccountsAssumption ==
  /\ RegistrationEnabled \in BOOLEAN
  /\ MaxAttempts \in Nat \ {0} /\ MaxFaults \in Nat
  /\ IsFiniteSet(Requests) /\ AddressOf \in [Users -> Addresses]
  /\ None \notin Workspaces \cup Users

Role == {"admin", "member"}

User == [ws : Workspaces, role : Role]

\* What a token says of its user.
Claims == [user : Users, ws : Workspaces, role : Role]

\* by is the user who made the key, or nobody: the deletion of his row clears it.  A
\* key that was revoked, or expired, is as good as no key.
APIKey == [ws : Workspaces, by : Users \cup {None}]

\* A request between two of its statements: what it does next, for whom, to which
\* user and which workspace, and the role it gives.
Request == [phase : {"register", "enrol", "compare", "create", "update", "remove"},
            claims : Claims \cup {None}, user : Users \cup {None},
            ws : Workspaces \cup {None}, role : Role \cup {None}]

ASSUME NoValueAssumption == None \notin User \cup Claims \cup APIKey \cup Request

VARIABLES
  workspaces,  \* rows: the workspaces
  user,        \* rows: the users
  key,         \* rows: the API keys
  token,       \* the claims of each token, until it expires or is logged out
  failures,    \* Redis: failed logins of each address, as the lock counts them
  request,     \* what each request is about to do
  gone,        \* history: users that were deleted
  guesses,     \* history: wrong passwords compared for each address, since the last right
               \* one of any of its users
  rivals,      \* history: whether two registrations found no workspace
  slipped,     \* history: keys made while their maker's deletion was half done, and
               \* those nobody's that were made with one of them
  faults       \* how many faults have happened

rows == <<workspaces, user, key>>
history == <<gone, guesses, rivals, slipped>>
vars == <<rows, token, failures, request, history, faults>>

Init ==
  /\ workspaces = {}
  /\ user = [u \in Users |-> None] /\ key = [k \in Keys |-> None]
  /\ token = [t \in Tokens |-> None]
  /\ failures = [a \in Addresses |-> 0]
  /\ request = [r \in Requests |-> None]
  /\ gone = {} /\ guesses = [a \in Addresses |-> 0] /\ rivals = FALSE /\ slipped = {}
  /\ faults = 0

Fault == faults < MaxFaults /\ faults' = faults + 1

At(r, phase) == request[r] # None /\ request[r].phase = phase

Begin(r, phase, claims, u, w, role) ==
  /\ request[r] = None
  /\ request' = [request EXCEPT ![r] =
       [phase |-> phase, claims |-> claims, user |-> u, ws |-> w, role |-> role]]

End(r) == request' = [request EXCEPT ![r] = None]

ClaimsOf(u, row) == [user |-> u, ws |-> row.ws, role |-> row.role]

\* signToken: the claims are what the row was when it was read.
Sign(c) == \E t \in Tokens : token[t] = None /\ token' = [token EXCEPT ![t] = c]

InsertWorkspace(w) == w \notin workspaces /\ workspaces' = workspaces \cup {w}

\* The INSERT of a user: an id that was never given to anyone.
InsertUser(u, row) ==
  /\ user[u] = None /\ u \notin gone
  /\ user' = [user EXCEPT ![u] = row]

-----------------------------------------------------------------------------
(* Registration.                                                           *)

\* Faulty variant: a workspace counts once it has a user.
HasAnyUser == \E u \in Users : user[u] # None

HasAnyWorkspace == workspaces # {}

\* The handler asks whether registration is open...
Register(r, w) ==
  /\ RegistrationEnabled \/ ~HasAnyWorkspace
  /\ Begin(r, "register", None, None, w, None)
  /\ UNCHANGED <<rows, token, failures, history, faults>>

\* Faulty variant: the password is validated after the insertion.
CreateWorkspaceThenValidate(r) ==
  /\ At(r, "register")
  /\ \/ /\ InsertWorkspace(request[r].ws)
        /\ End(r) \/ request' = [request EXCEPT ![r].phase = "enrol"]
     \/ request[r].ws \in workspaces /\ End(r) /\ UNCHANGED workspaces
  /\ rivals' = (rivals \/ \E q \in Requests \ {r} : At(q, "register"))
  /\ UNCHANGED <<user, key, token, failures, gone, guesses, slipped, faults>>

\* ...the service inserts the workspace, unless its slug is taken...
CreateWorkspace(r) ==
  /\ At(r, "register")
  /\ \/ InsertWorkspace(request[r].ws) /\ request' = [request EXCEPT ![r].phase = "enrol"]
     \/ request[r].ws \in workspaces /\ End(r) /\ UNCHANGED workspaces
  /\ rivals' = (rivals \/ \E q \in Requests \ {r} : At(q, "register"))
  /\ UNCHANGED <<user, key, token, failures, gone, guesses, slipped, faults>>

\* ...and then its first admin, in a statement of its own.
CreateFirstUser(r, u) ==
  /\ At(r, "enrol")
  /\ LET row == [ws |-> request[r].ws, role |-> "admin"] IN
     InsertUser(u, row) /\ Sign(ClaimsOf(u, row))
  /\ End(r)
  /\ UNCHANGED <<workspaces, key, failures, history, faults>>

\* The e-mail address belongs to a user already; the workspace stays.
AddressTaken(r) ==
  /\ At(r, "enrol") \/ At(r, "create")
  /\ \E u \in Users : user[u] # None
  /\ End(r)
  /\ UNCHANGED <<rows, token, failures, history, faults>>

\* validatePassword turns the password away before anything is written.
WeakPassword(r) ==
  /\ At(r, "register") \/ At(r, "create") \/ At(r, "update")
  /\ End(r)
  /\ UNCHANGED <<rows, token, failures, history, faults>>

-----------------------------------------------------------------------------
(* Login.                                                                  *)

\* Faulty variant: the lock closes one failure late.
UnlockedOneMore(a) ==
  \/ failures[a] <= MaxAttempts /\ UNCHANGED faults
  \/ failures[a] > MaxAttempts /\ Fault

\* isLoginLocked; a Redis error does not lock.
Unlocked(a) ==
  \/ failures[a] < MaxAttempts /\ UNCHANGED faults
  \/ failures[a] >= MaxAttempts /\ Fault

\* By the address as it was written; the lock folds its case.
GetUserByEmail(u) == IF user[u] = None THEN None ELSE ClaimsOf(u, user[u])

\* A Redis error leaves the counter as it is.
RecordLoginFailure(a) ==
  \/ failures' = [failures EXCEPT ![a] = @ + 1] /\ UNCHANGED faults
  \/ Fault /\ UNCHANGED failures

\* What other logins recorded meanwhile goes too, for whichever of its users.
ClearLoginFailures(a) ==
  \/ failures' = [failures EXCEPT ![a] = 0] /\ UNCHANGED faults
  \/ Fault /\ UNCHANGED failures

\* The lock is looked at and the row read before the password is compared.
Login(r, u) ==
  /\ Unlocked(AddressOf[u])
  /\ Begin(r, "compare", GetUserByEmail(u), u, None, None)
  /\ UNCHANGED <<rows, token, failures, history>>

WrongPassword(r) ==
  /\ At(r, "compare")
  /\ LET a == AddressOf[request[r].user] IN
     guesses' = [guesses EXCEPT ![a] = @ + 1] /\ RecordLoginFailure(a)
  /\ End(r)
  /\ UNCHANGED <<rows, token, gone, rivals, slipped>>

\* Faulty variant: a success takes one failure back.
RightPasswordForgivesOne(r) ==
  /\ At(r, "compare") /\ request[r].claims # None
  /\ LET a == AddressOf[request[r].user] IN
     /\ guesses' = [guesses EXCEPT ![a] = 0]
     /\ failures' = [failures EXCEPT ![a] = @ - 1] /\ UNCHANGED faults
  /\ Sign(request[r].claims)
  /\ End(r)
  /\ UNCHANGED <<rows, gone, rivals, slipped>>

RightPassword(r) ==
  /\ At(r, "compare") /\ request[r].claims # None
  /\ LET a == AddressOf[request[r].user] IN
     guesses' = [guesses EXCEPT ![a] = 0] /\ ClearLoginFailures(a)
  /\ Sign(request[r].claims)
  /\ End(r)
  /\ UNCHANGED <<rows, gone, rivals, slipped>>

\* The counter expires a lock's time after the last failure it has counted.
LockExpires(a) ==
  /\ failures[a] > 0
  /\ failures' = [failures EXCEPT ![a] = 0] /\ guesses' = [guesses EXCEPT ![a] = 0]
  /\ UNCHANGED <<rows, token, request, gone, rivals, slipped, faults>>

-----------------------------------------------------------------------------
(* Tokens.                                                                 *)

ExpireToken(t) ==
  /\ token[t] # None
  /\ token' = [token EXCEPT ![t] = None]
  /\ UNCHANGED <<rows, failures, request, history, faults>>

\* The blacklist entry lives as long as the token would, so that the token is as good
\* as expired, unless Redis does not take the entry or does not answer when asked for
\* it, which bars nobody.
Blacklist(t) ==
  \/ token' = [token EXCEPT ![t] = None] /\ UNCHANGED faults
  \/ Fault /\ UNCHANGED token

Logout(t) ==
  /\ token[t] # None
  /\ Blacklist(t)
  /\ UNCHANGED <<rows, failures, request, history>>

\* The claims are taken at their word, no row is read.
Authenticate(t) == token[t] # None

\* RequireRole(admin): API keys have no role, they are turned away here.
RequireRole(c) == c.role = "admin"

-----------------------------------------------------------------------------
(* Users, and API keys, by an admin with claims c.                         *)

\* CreateUser hashes the password...
CreateUser(r, c, role) ==
  /\ Begin(r, "create", None, None, c.ws, role)
  /\ UNCHANGED <<rows, token, failures, history, faults>>

\* ...and inserts the row, whatever has become of the token it was let in by.
AddUser(r, u) ==
  /\ At(r, "create")
  /\ InsertUser(u, [ws |-> request[r].ws, role |-> request[r].role])
  /\ End(r)
  /\ UNCHANGED <<workspaces, key, token, failures, history, faults>>

\* The target is a user of the caller's workspace.
InWorkspace(c, u) == user[u] # None /\ user[u].ws = c.ws

\* Faulty variant: no check that the caller keeps his own role.
UpdateAnyUser(r, c, u, role) ==
  /\ InWorkspace(c, u)
  /\ Begin(r, "update", c, u, None, role)
  /\ UNCHANGED <<rows, token, failures, history, faults>>

\* UpdateUser reads the row and hashes the password...
UpdateUser(r, c, u, role) ==
  /\ ~(u = c.user /\ role # "admin")
  /\ InWorkspace(c, u)
  /\ Begin(r, "update", c, u, None, role)
  /\ UNCHANGED <<rows, token, failures, history, faults>>

\* ...and updates the row by its id, if it is still there.
SetRole(r) ==
  /\ At(r, "update")
  /\ LET u == request[r].user IN
     user' = IF user[u] = None THEN user ELSE [user EXCEPT ![u].role = request[r].role]
  /\ End(r)
  /\ UNCHANGED <<workspaces, key, token, failures, history, faults>>

OfUser(k, u) == key[k] # None /\ key[k].by = u

\* Faulty variant: the keys are left to the deletion, which makes them nobody's.
RevokeNoAPIKeys(r, c, u) ==
  /\ InWorkspace(c, u)
  /\ u # c.user
  /\ Begin(r, "remove", c, u, None, None)
  /\ UNCHANGED <<rows, token, failures, history, faults>>

\* DeleteUser revokes the user's keys first...
RevokeAPIKeysByUser(r, c, u) ==
  /\ InWorkspace(c, u)
  /\ u # c.user
  /\ key' = [k \in Keys |-> IF OfUser(k, u) THEN None ELSE key[k]]
  /\ Begin(r, "remove", c, u, None, None)
  /\ slipped' = {k \in slipped : ~OfUser(k, u)}
  /\ UNCHANGED <<workspaces, user, token, failures, gone, guesses, rivals, faults>>

\* ...and deletes the row: what keys he has by now are nobody's.
DeleteUser(r) ==
  /\ At(r, "remove")
  /\ LET u == request[r].user IN
     /\ user' = [user EXCEPT ![u] = None]
     /\ key' = [k \in Keys |-> IF OfUser(k, u) THEN [key[k] EXCEPT !.by = None] ELSE key[k]]
     /\ gone' = gone \cup {u}
  /\ End(r)
  /\ UNCHANGED <<workspaces, token, failures, guesses, rivals, slipped, faults>>

\* The INSERT of a key refers to its maker: it fails once his row is gone.
InsertAPIKey(w, u, k) ==
  /\ key[k] = None
  /\ u # None => user[u] # None
  /\ key' = [key EXCEPT ![k] = [ws |-> w, by |-> u]]

\* For user u, or for nobody; with key j, or with a token.
CreateAPIKey(w, u, j, k) ==
  /\ InsertAPIKey(w, u, k)
  /\ slipped' = IF \/ \E r \in Requests : At(r, "remove") /\ request[r].user = u
                   \/ u = None /\ j \in slipped
                THEN slipped \cup {k} ELSE slipped
  /\ UNCHANGED <<workspaces, user, token, failures, request, gone, guesses, rivals, faults>>

RevokeAPIKey(c, k) ==
  /\ key[k] # None /\ key[k].ws = c.ws
  /\ key' = [key EXCEPT ![k] = None] /\ slipped' = slipped \ {k}
  /\ UNCHANGED <<workspaces, user, token, failures, request, gone, guesses, rivals, faults>>

\* ValidateAPIKey: neither its maker nor any user is looked at.
Accepted(k) == key[k] # None

\* In whose name a request with key k acts.
KeyUser(k) == key[k].by

\* The creation of an instance makes a key for it, in the name of whoever creates it:
\* an admin, a member who may manage instances, or another key.
CreateInstance(k) ==
  \/ \E t \in Tokens : Authenticate(t) /\ CreateAPIKey(token[t].ws, token[t].user, None, k)
  \/ \E j \in Keys : Accepted(j) /\ CreateAPIKey(key[j].ws, KeyUser(j), j, k)

UserCall(c) ==
  \E r \in Requests :
    \/ \E role \in Role : CreateUser(r, c, role)
    \/ \E u \in Users : \/ \E role \in Role : UpdateUser(r, c, u, role)
                        \/ RevokeAPIKeysByUser(r, c, u)

KeyCall(c) == \E k \in Keys : CreateAPIKey(c.ws, c.user, None, k) \/ RevokeAPIKey(c, k)

AdminCall(t) ==
  /\ Authenticate(t) /\ RequireRole(token[t])
  /\ UserCall(token[t]) \/ KeyCall(token[t])

-----------------------------------------------------------------------------

\* A statement fails: what the request has done before stays.
Fails(r) ==
  /\ request[r] # None
  /\ End(r)
  /\ Fault
  /\ UNCHANGED <<rows, token, failures, history>>

Crash ==
  /\ request' = [r \in Requests |-> None]
  /\ Fault
  /\ UNCHANGED <<rows, token, failures, history>>

Next ==
  \/ \E r \in Requests :
       \/ \E w \in Workspaces : Register(r, w)
       \/ \E u \in Users : CreateFirstUser(r, u) \/ Login(r, u) \/ AddUser(r, u)
       \/ CreateWorkspace(r) \/ AddressTaken(r) \/ WeakPassword(r)
       \/ WrongPassword(r) \/ RightPassword(r)
       \/ SetRole(r) \/ DeleteUser(r) \/ Fails(r)
  \/ \E t \in Tokens :
       \/ Logout(t) \/ ExpireToken(t)
       \/ AdminCall(t)
  \/ \E k \in Keys : CreateInstance(k)
  \/ \E a \in Addresses : LockExpires(a)
  \/ Crash

Spec == Init /\ [][Next]_vars

-----------------------------------------------------------------------------
(* Properties.                                                             *)

\* Every variable keeps its type.
TypeOK ==
  /\ workspaces \subseteq Workspaces
  /\ user \in [Users -> User \cup {None}]
  /\ key \in [Keys -> APIKey \cup {None}]
  /\ token \in [Tokens -> Claims \cup {None}]
  /\ failures \in [Addresses -> Nat]
  /\ request \in [Requests -> Request \cup {None}]
  /\ gone \subseteq Users /\ guesses \in [Addresses -> Nat]
  /\ rivals \in BOOLEAN /\ slipped \subseteq Keys
  /\ faults \in 0 .. MaxFaults

IsAdmin(u) == user[u] # None /\ user[u].role = "admin"

HasAdmin(w) == \E u \in Users : IsAdmin(u) /\ user[u].ws = w

\* What an admin's changes of others rest on: a token, or an update or a deletion that
\* was let in before, even if its token was logged out or has expired since.
AdminClaims ==
  {token[t] : t \in {t \in Tokens : token[t] # None /\ RequireRole(token[t])}}
    \cup {request[r].claims : r \in {r \in Requests : At(r, "update") \/ At(r, "remove")}}

\* A workspace loses its last admin only to somebody who is no admin of it any
\* more, and still has the claims of one, in a token or in a call under way: the
\* service stops nobody but the caller himself (service.go:168, service.go:197).
LastAdminFallsToAFormerOne ==
  [][\A w \in Workspaces : HasAdmin(w) /\ ~HasAdmin(w)' =>
       \E c \in AdminClaims : c.ws = w /\ ~IsAdmin(c.user)]_vars

\* Registration "closes automatically" with the first workspace (handler.go:78):
\* there is a second one only if two registrations had both found none.
SecondWorkspaceHadARival ==
  ~RegistrationEnabled => \A v, w \in workspaces : v = w \/ rivals

\* Nobody can log in, and registration is closed for good, only after a fault, or
\* after users deleted each other: the workspace and its first admin are two
\* statements (service.go:79-84).
NobodyLeftAfterAFault ==
  HasAnyWorkspace /\ (\A u \in Users : user[u] = None) =>
    \/ faults > 0 \/ gone # {}
    \/ \E r \in Requests : At(r, "enrol")

\* A deleted user leaves no API key that works, except one made between the two
\* statements of the deletion (service.go:204-207), and only with such a key can
\* others be made that are nobody's (api/instance/handler.go:117-128).
OrphanKeysSlippedThrough ==
  \A k \in Keys : Accepted(k) /\ key[k].by = None => k \in slipped

\* Between two right passwords of any account of an address, its case aside, or before
\* the counter expires, they see together no more wrong ones than the lock allows and
\* requests and Redis errors add.
GuessesAreBounded ==
  \A a \in Addresses : guesses[a] <= MaxAttempts + Cardinality(Requests) - 1 + faults
=============================================================================

------------------------------ MODULE Accounts ------------------------------
(***************************************************************************)
(* The accounts of the key service: first-run setup, registration and its  *)
(* approval, login with its throttle, sessions and API keys, forced        *)
(* password changes and the deletion of users (app.py, auth.py,            *)
(* storage.py, security.py).                                               *)
(*                                                                         *)
(* A request is a thread.  It is authorised before its handler runs, and a *)
(* handler reads and writes the store in calls of their own, so between    *)
(* two of its steps other requests run.  Reads that follow each other      *)
(* without a write are one step.  Passwords and one-time codes are data:   *)
(* of a user that exists a guess may be right or wrong.                    *)
(***************************************************************************)
EXTENDS Naturals, FiniteSets

CONSTANTS
    Names,        \* user names
    Tokens,       \* session tokens; a bound on live sessions
    ApiKeys,      \* API keys; a bound on those that there are
    Reqs,         \* threads; a bound on concurrent requests
    MaxAttempts,  \* settings.login_max_attempts
    None          \* no user, no session

ASSUME ConstantsAssumption ==
    /\ IsFiniteSet(Names)
    /\ IsFiniteSet(Reqs)
    /\ Tokens \intersect ApiKeys = {}
    /\ MaxAttempts \in Nat \ {0}
    /\ None \notin Names

VARIABLES
    users,     \* the table users; None is a name without a row
    creds,     \* the tables sessions and api_keys: the user that each stands for
    req,       \* what each thread is about to do
    fails,     \* login_throttle: failures of one client in the window
    acts,      \* action_throttle: its registrations in the window
    overlap,   \* (history) a deletion was checked while another was under way
    apart      \* (history) names deleted between the checks for a session or an API
               \* key and its creation, or given a key while not approved

vars == <<users, creds, req, fails, acts, overlap, apart>>

-----------------------------------------------------------------------------
NewUser(admin, status) == [admin |-> admin, status |-> status, temp |-> FALSE]

\* "temp" is must_change_password.  An administrator is never pending.
User == {u \in [admin : BOOLEAN, status : {"pending", "active"}, temp : BOOLEAN] :
            u.admin => u.status = "active"}

ASSUME NoneAssumption == None \notin User

Credentials == Tokens \union ApiKeys

AdminStages == {"create", "approve", "reset", "revoke", "check", "delete"}
Stages == AdminStages \union
    {"setup", "register", "signup", "verify", "status", "session", "change", "mint"}

Idle == [pc |-> "idle"]
At(stage, n) == [pc |-> stage, name |-> n]
Request == {Idle} \union [pc : Stages, name : Names]

Exists(n) == users[n] # None
Live(n) == Exists(n) /\ users[n].status = "active"

\* is_admin and count_admins
IsAdmin(n) == Exists(n) /\ users[n].admin
Admins == {n \in Names : IsAdmin(n)}

TypeOK ==
    /\ users \in [Names -> User \union {None}]
    /\ creds \in [Credentials -> Names \union {None}]
    /\ req \in [Reqs -> Request]
    /\ fails \in Nat
    /\ acts \in Nat
    /\ overlap \in BOOLEAN
    /\ apart \in SUBSET Names

NoUsers == [n \in Names |-> None]

\* The lifespan seeds an administrator from the environment, if that is set.
Seeded(table) ==
    IF table = NoUsers
    THEN {table} \union {[table EXCEPT ![n] = NewUser(TRUE, "active")] : n \in Names}
    ELSE {table}

Init ==
    /\ users \in Seeded(NoUsers)
    /\ creds = [t \in Credentials |-> None]
    /\ req = [r \in Reqs |-> Idle]
    /\ fails = 0
    /\ acts = 0
    /\ overlap = FALSE
    /\ apart = {}

\* Thread r goes on to another stage of its handler, or has answered.
Goto(r, next) == req' = [req EXCEPT ![r] = next]
Start(r, next) == req[r] = Idle /\ Goto(r, next)
Insert(n, user) == users' = IF Exists(n) THEN users ELSE [users EXCEPT ![n] = user]

-----------------------------------------------------------------------------
(* Without a session: setup, registration, login *)

SetupCheck(r, n) ==
    /\ users = NoUsers
    /\ Start(r, At("setup", n))
    /\ UNCHANGED <<users, creds, fails, acts, overlap, apart>>

\* If the name exists by now, the primary key refuses the row.
SetupCreate(r) ==
    /\ req[r].pc = "setup"
    /\ Insert(req[r].name, NewUser(TRUE, "active"))
    /\ Goto(r, Idle)
    /\ UNCHANGED <<creds, fails, acts, overlap, apart>>

\* (mutant) one failure more is let through
BlockedAbove(count) == count > MaxAttempts

\* is_blocked
Blocked(count) == count >= MaxAttempts

\* A registration or, with the same throttle, the request for a new password,
\* which for this model changes nothing but the throttle.
RegisterCheck(r, n) ==
    /\ ~Blocked(acts)
    /\ Start(r, At("register", n))
    /\ UNCHANGED <<users, creds, fails, acts, overlap, apart>>

\* The attempt is counted.  A registration needs an administrator.
RegisterCount(r) ==
    /\ req[r].pc = "register"
    /\ acts' = acts + 1
    /\ \/ Admins # {} /\ Goto(r, At("signup", req[r].name))
       \/ Goto(r, Idle)
    /\ UNCHANGED <<users, creds, fails, overlap, apart>>

\* register_user, whose row the primary key may refuse.
RegisterCreate(r) ==
    /\ req[r].pc = "signup"
    /\ Insert(req[r].name, NewUser(FALSE, "pending"))
    /\ Goto(r, Idle)
    /\ UNCHANGED <<creds, fails, acts, overlap, apart>>

LoginCheck(r, n) ==
    /\ ~Blocked(fails)
    /\ Start(r, At("verify", n))
    /\ UNCHANGED <<users, creds, fails, acts, overlap, apart>>

\* verify_user: of a user that does not exist no password is right.
LoginVerify(r) ==
    /\ req[r].pc = "verify"
    /\ Exists(req[r].name)
    /\ Goto(r, At("status", req[r].name))
    /\ UNCHANGED <<users, creds, fails, acts, overlap, apart>>

\* A wrong password, or a wrong one-time code of an active user.
LoginWrong(r) ==
    /\ \/ req[r].pc = "verify"
       \/ req[r].pc = "status" /\ Live(req[r].name)
    /\ fails' = fails + 1
    /\ Goto(r, Idle)
    /\ UNCHANGED <<users, creds, acts, overlap, apart>>

LoginStatus(r) ==
    /\ req[r].pc = "status"
    /\ IF Live(req[r].name)
       THEN Goto(r, At("session", req[r].name))
       ELSE Goto(r, Idle)
    /\ UNCHANGED <<users, creds, fails, acts, overlap, apart>>

\* throttle.reset and create_session, which does not look at the users again.
LoginSession(r) ==
    /\ req[r].pc = "session"
    /\ \E t \in Tokens :
         /\ creds[t] = None
         /\ creds' = [creds EXCEPT ![t] = req[r].name]
    /\ fails' = 0
    /\ Goto(r, Idle)
    /\ UNCHANGED <<users, acts, overlap, apart>>

\* A logout, or session_user of a token that is older than twelve hours.
EndSession(t) ==
    /\ creds[t] # None
    /\ creds' = [creds EXCEPT ![t] = None]
    /\ UNCHANGED <<users, req, fails, acts, overlap, apart>>

-----------------------------------------------------------------------------
(* With a session or an API key *)

\* require_auth_allow_pending, and the check of change_password: the user has a
\* temporary password, or knows the current one.
ChangeCheck(r, t) ==
    /\ creds[t] # None
    /\ Exists(creds[t])
    /\ Start(r, At("change", creds[t]))
    /\ UNCHANGED <<users, creds, fails, acts, overlap, apart>>

ChangeSet(r) ==
    /\ req[r].pc = "change"
    /\ users' = IF Exists(req[r].name)
                THEN [users EXCEPT ![req[r].name].temp = FALSE]
                ELSE users
    /\ Goto(r, Idle)
    /\ UNCHANGED <<creds, fails, acts, overlap, apart>>

\* create_api_key: whoever has no temporary password may have a key for himself,
\* and an administrator one for any name, which need not be that of an account.
MintCheck(r, t, n) ==
    LET u == creds[t] IN
      /\ u # None
      /\ Exists(u) => ~users[u].temp
      /\ n = u \/ IsAdmin(u)
      /\ Start(r, At("mint", n))
      /\ apart' = IF n = u \/ Live(n) THEN apart ELSE apart \union {n}
      /\ UNCHANGED <<users, creds, fails, acts, overlap>>

Mint(r) ==
    /\ req[r].pc = "mint"
    /\ \E k \in ApiKeys :
         /\ creds[k] = None
         /\ creds' = [creds EXCEPT ![k] = req[r].name]
    /\ Goto(r, Idle)
    /\ UNCHANGED <<users, fails, acts, overlap, apart>>

\* require_admin: from here on the request acts as an administrator.  Nobody
\* deletes himself.  Keys are revoked by their label, whose name does not matter.
Authorise(r, t, stage, n) ==
    /\ creds[t] # None
    /\ IsAdmin(creds[t])
    /\ ~users[creds[t]].temp
    /\ stage = "check" => n # creds[t]
    /\ stage = "revoke" => n = creds[t]
    /\ Start(r, At(stage, n))
    /\ UNCHANGED <<users, creds, fails, acts, overlap, apart>>

AdminCreate(r) ==
    /\ req[r].pc = "create"
    /\ \E admin \in BOOLEAN : Insert(req[r].name, NewUser(admin, "active"))
    /\ Goto(r, Idle)
    /\ UNCHANGED <<creds, fails, acts, overlap, apart>>

AdminApprove(r) ==
    /\ req[r].pc = "approve"
    /\ users' = IF Exists(req[r].name)
                THEN [users EXCEPT ![req[r].name].status = "active"]
                ELSE users
    /\ Goto(r, Idle)
    /\ UNCHANGED <<creds, fails, acts, overlap, apart>>

AdminReset(r) ==
    /\ req[r].pc = "reset"
    /\ users' = IF Exists(req[r].name)
                THEN [users EXCEPT ![req[r].name].temp = TRUE]
                ELSE users
    /\ Goto(r, Idle)
    /\ UNCHANGED <<creds, fails, acts, overlap, apart>>

\* delete_api_key: all keys with the label, whoever owns them.
AdminRevoke(r) ==
    /\ req[r].pc = "revoke"
    /\ \E K \in SUBSET ApiKeys :
         creds' = [c \in Credentials |-> IF c \in K THEN None ELSE creds[c]]
    /\ Goto(r, Idle)
    /\ UNCHANGED <<users, fails, acts, overlap, apart>>

\* (mutant) the last administrator may be deleted
MayDeleteAny(n) == TRUE

MayDelete(n) == ~(IsAdmin(n) /\ Cardinality(Admins) =< 1)

DeleteCheck(r) ==
    /\ req[r].pc = "check"
    /\ IF MayDelete(req[r].name)
       THEN /\ Goto(r, At("delete", req[r].name))
            /\ overlap' = (overlap \/ \E q \in Reqs : req[q].pc = "delete")
       ELSE Goto(r, Idle) /\ UNCHANGED overlap
    /\ UNCHANGED <<users, creds, fails, acts, apart>>

\* The requests that will create a session or a key for n.
Granting(n) == {At("session", n), At("mint", n)}

\* (mutant) the sessions and keys of the user are left
DeleteUserOnly(r) ==
    /\ req[r].pc = "delete"
    /\ users' = [users EXCEPT ![req[r].name] = None]
    /\ apart' = apart \union {n \in {req[r].name} : \E q \in Reqs : req[q] \in Granting(n)}
    /\ Goto(r, Idle)
    /\ UNCHANGED <<creds, fails, acts, overlap>>

\* delete_user with its cascade, one transaction.
DeleteUser(r) ==
    /\ req[r].pc = "delete"
    /\ users' = [users EXCEPT ![req[r].name] = None]
    /\ creds' = [t \in Credentials |-> IF creds[t] = req[r].name THEN None ELSE creds[t]]
    /\ apart' = apart \union {n \in {req[r].name} : \E q \in Reqs : req[q] \in Granting(n)}
    /\ Goto(r, Idle)
    /\ UNCHANGED <<fails, acts, overlap>>

-----------------------------------------------------------------------------
(* Time and restarts *)

\* The oldest entry of a throttle leaves its window.
Age ==
    /\ \/ fails > 0 /\ fails' = fails - 1 /\ UNCHANGED acts
       \/ acts > 0 /\ acts' = acts - 1 /\ UNCHANGED fails
    /\ UNCHANGED <<users, creds, req, overlap, apart>>

\* The process dies and starts again: the throttles are in memory.
Crash ==
    /\ req' = [r \in Reqs |-> Idle]
    /\ fails' = 0
    /\ acts' = 0
    /\ users' \in Seeded(users)
    /\ UNCHANGED <<creds, overlap, apart>>

-----------------------------------------------------------------------------
Login(r) == LoginVerify(r) \/ LoginWrong(r) \/ LoginStatus(r) \/ LoginSession(r)

Admin(r) ==
    \/ AdminCreate(r) \/ AdminApprove(r) \/ AdminReset(r) \/ AdminRevoke(r)
    \/ DeleteCheck(r) \/ DeleteUser(r)

Next ==
    \/ \E r \in Reqs, n \in Names :
         SetupCheck(r, n) \/ RegisterCheck(r, n) \/ LoginCheck(r, n)
    \/ \E r \in Reqs, t \in Credentials :
         \/ ChangeCheck(r, t)
         \/ \E n \in Names : MintCheck(r, t, n)
         \/ \E stage \in AdminStages \ {"delete"}, n \in Names : Authorise(r, t, stage, n)
    \/ \E r \in Reqs :
         \/ SetupCreate(r) \/ RegisterCount(r) \/ RegisterCreate(r)
         \/ Login(r) \/ ChangeSet(r) \/ Mint(r) \/ Admin(r)
    \/ \E t \in Tokens : EndSession(t)
    \/ Age
    \/ Crash

Spec == Init /\ [][Next]_vars

-----------------------------------------------------------------------------
(* Safety *)

\* A client that guesses in parallel gets past the throttle's limit by at most
\* one guess for each further thread, although the check and the count are
\* separate steps with a slow password hash between them.
ThrottleBound ==
    /\ fails < MaxAttempts + Cardinality(Reqs)
    /\ acts < MaxAttempts + Cardinality(Reqs)

\* A session or an API key stands for an approved account, unless the account was
\* deleted between the checks of a request and what it creates, or an
\* administrator made a key for a name that was not approved.
CredentialsLive ==
    \A n \in Names \ apart : (\E c \in Credentials : creds[c] = n) => Live(n)

\* As long as no two deletions overlap, the service keeps an administrator; so
\* whenever needs_setup asks for the setup, the setup is possible.
AdminKept == ~overlap => (Admins = {} => users = NoUsers)

=============================================================================

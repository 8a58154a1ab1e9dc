--------------------------- MODULE AccountsProofs ---------------------------
(***************************************************************************)
(* Proofs about Accounts, for any users, tokens, threads and limit of      *)
(* attempts: its types, the bound of the throttle, whose creds there    *)
(* are, and that deletions that do not overlap leave an administrator.     *)
(* And about AuditChain, for logs of any length with any fields.           *)
(***************************************************************************)
EXTENDS Accounts, AuditChain, FiniteSetTheorems, SequenceTheorems, TLAPS

-----------------------------------------------------------------------------
(* The inductive invariant *)

\* The requests that will count a failure in the login throttle, and those that
\* will count a registration.
Guessing == {r \in Reqs : req[r].pc \in {"verify", "status"}}
Asking   == {r \in Reqs : req[r].pc = "register"}

\* What a throttle has counted and what has passed its check are together
\* within the bound.
GuessInv == fails + Cardinality(Guessing) < MaxAttempts + Cardinality(Reqs)
AskInv   == acts + Cardinality(Asking) < MaxAttempts + Cardinality(Reqs)

\* A request that is about to create a session or a key has checked an account
\* that is still live, or is set apart since.
Creating == {"session", "mint"}

LoginInv ==
    \A r \in Reqs : req[r].pc \in Creating =>
        Live(req[r].name) \/ req[r].name \in apart

\* The stages that a request reaches only while there is an administrator.
Relying == AdminStages \union {"signup"}

\* Until two deletions overlap, a deletion that was checked is the only one,
\* and leaves an administrator.
DeleteInv ==
    /\ \A r \in Reqs : req[r].pc \in Relying => Admins # {}
    /\ \A r \in Reqs : req[r].pc = "delete" => Admins \ {req[r].name} # {}
    /\ \A r, q \in Reqs : req[r].pc = "delete" /\ req[q].pc = "delete" => r = q

AdminInv == ~overlap => (Admins = {} => users = NoUsers) /\ DeleteInv

IInv ==
    /\ TypeOK
    /\ GuessInv
    /\ AskInv
    /\ CredentialsLive
    /\ LoginInv
    /\ AdminInv

-----------------------------------------------------------------------------
(* Types *)

\* The requests a thread is given.
LEMMA RequestRecords ==
    /\ Idle \in Request
    /\ \A s \in Stages, n \in Names : At(s, n) \in Request
BY DEF Request, Idle, At

\* A thread that is not idle is at a stage, on behalf of a name.
LEMMA Named ==
    ASSUME TypeOK, NEW r \in Reqs, req[r].pc # "idle"
    PROVE  req[r].pc \in Stages /\ req[r].name \in Names
BY DEF TypeOK, Request, Idle

\* The users that are created.
LEMMA NewUsers ==
    /\ \A a \in BOOLEAN : NewUser(a, "active") \in User
    /\ NewUser(FALSE, "pending") \in User
BY DEF NewUser, User

\* No user, and no name, is the null value.
LEMMA NotNone == (\A u \in User : u # None) /\ (\A n \in Names : n # None)
BY ConstantsAssumption, NoneAssumption

\* A step of one thread.
LEMMA Gone ==
    ASSUME TypeOK, NEW r \in Reqs, NEW x \in Request, Goto(r, x)
    PROVE  /\ req' \in [Reqs -> Request]
           /\ req'[r] = x
           /\ \A q \in Reqs \ {r} : req'[q] = req[q]
BY DEF TypeOK, Goto

-----------------------------------------------------------------------------
(* The throttles *)

\* The threads past a check are finitely many, not more than Reqs.
LEMMA ThreadCount ==
    ASSUME NEW S \in SUBSET Reqs
    PROVE  /\ IsFiniteSet(S)
           /\ Cardinality(S) \in Nat
           /\ Cardinality(Reqs) \in Nat
           /\ Cardinality(S) =< Cardinality(Reqs)
<1>1. IsFiniteSet(Reqs)
    BY ConstantsAssumption
<1>2. IsFiniteSet(S) /\ Cardinality(S) =< Cardinality(Reqs)
    BY <1>1, FS_Subset
<1>. QED
    BY <1>1, <1>2, FS_CardinalityType

\* A check that was passed: the count was below the limit, and no more threads
\* than there are can be past the check.
LEMMA Passed ==
    ASSUME NEW c \in Nat, ~Blocked(c), NEW S \in SUBSET Reqs
    PROVE  c + Cardinality(S) < MaxAttempts + Cardinality(Reqs)
BY ThreadCount, ConstantsAssumption DEF Blocked

\* A failure that is counted: the count takes over from the thread.
LEMMA Counted ==
    ASSUME NEW c \in Nat, NEW S \in SUBSET Reqs, NEW r \in S,
           c + Cardinality(S) < MaxAttempts + Cardinality(Reqs)
    PROVE  c + 1 + Cardinality(S \ {r}) < MaxAttempts + Cardinality(Reqs)
<1>1. Cardinality(S \ {r}) = Cardinality(S) - 1
    BY ThreadCount, FS_RemoveElement
<1>. QED
    BY <1>1, ThreadCount, ConstantsAssumption

\* Every other step: the count and the threads past the check do not grow.
LEMMA Shrunk ==
    ASSUME NEW c \in Nat, NEW S \in SUBSET Reqs, NEW d \in 0 .. c, NEW T \in SUBSET S,
           c + Cardinality(S) < MaxAttempts + Cardinality(Reqs)
    PROVE  d + Cardinality(T) < MaxAttempts + Cardinality(Reqs)
<1>1. Cardinality(T) =< Cardinality(S)
    BY ThreadCount, FS_Subset
<1>2. T \in SUBSET Reqs
    OBVIOUS
<1>3. Cardinality(T) \in Nat /\ Cardinality(S) \in Nat /\ Cardinality(Reqs) \in Nat
    BY <1>2, ThreadCount
<1>. QED
    BY <1>1, <1>3, ConstantsAssumption

\* A step that takes no thread past a check keeps the throttles' part.
LEMMA ThrottlesKept ==
    ASSUME IInv, fails' \in 0 .. fails, acts' \in 0 .. acts,
           Guessing' \subseteq Guessing, Asking' \subseteq Asking
    PROVE  /\ fails' \in Nat /\ acts' \in Nat
           /\ GuessInv' /\ AskInv'
<1>. USE DEF IInv, TypeOK
<1>1. fails' \in Nat /\ acts' \in Nat
    OBVIOUS
<1>2. Guessing \in SUBSET Reqs /\ Asking \in SUBSET Reqs
    BY DEF Guessing, Asking
<1>3. GuessInv'
    BY <1>2, Shrunk DEF GuessInv
<1>4. AskInv'
    BY <1>2, Shrunk DEF AskInv
<1>. QED
    BY <1>1, <1>3, <1>4

-----------------------------------------------------------------------------
(* The table of users *)

\* What a step that deletes nobody does to the table: accounts stay live,
\* administrators stay, and the first user is an administrator.
TableGrows ==
    /\ users' \in [Names -> User \union {None}]
    /\ \A n \in Names : Live(n) => users'[n] # None /\ users'[n].status = "active"
    /\ Admins \subseteq Admins'
    /\ ~overlap /\ users = NoUsers /\ Admins' = {} => users' = NoUsers

\* An insertion.  The first user has to be an administrator.
LEMMA TableInsert ==
    ASSUME TypeOK, NEW n \in Names, NEW u \in User, Insert(n, u),
           u.admin \/ Admins # {} \/ overlap
    PROVE  TableGrows
<1>1. users' \in [Names -> User \union {None}]
    BY DEF TypeOK, Insert
<1>2. \A m \in Names : Exists(m) => users'[m] = users[m]
    BY DEF TypeOK, Insert, Exists
<1>3. Admins \subseteq Admins'
    BY <1>2 DEF Admins, IsAdmin, Exists
<1>4. ASSUME users = NoUsers, Admins' = {}, u.admin PROVE FALSE
    <2>1. users'[n] = u /\ u # None
        BY <1>4, NotNone DEF TypeOK, Insert, Exists, NoUsers
    <2>. QED
        BY <1>4, <2>1 DEF Admins, IsAdmin, Exists
<1>5. users = NoUsers => Admins = {}
    BY DEF NoUsers, Admins, IsAdmin, Exists
<1>. QED
    BY <1>1, <1>2, <1>3, <1>4, <1>5 DEF TableGrows, Live, Exists

\* An update of a row, if there is one, that leaves its rights.
LEMMA TableUpdate ==
    ASSUME TypeOK, NEW n \in Names, NEW u \in User,
           users' = IF Exists(n) THEN [users EXCEPT ![n] = u] ELSE users,
           Exists(n) => /\ u.admin = users[n].admin
                        /\ users[n].status = "active" => u.status = "active"
    PROVE  TableGrows
<1>1. users' \in [Names -> User \union {None}]
    BY DEF TypeOK
<1>2. \A m \in Names \ {n} : users'[m] = users[m]
    BY DEF TypeOK
<1>3. Exists(n) => users'[n] = u
    BY DEF TypeOK
<1>4. Admins \subseteq Admins'
    BY <1>2, <1>3, NotNone DEF Admins, IsAdmin, Exists
<1>5. users = NoUsers => users' = users
    BY DEF NoUsers, Exists
<1>. QED
    BY <1>1, <1>2, <1>3, <1>4, <1>5, NotNone DEF TableGrows, Live, Exists

\* A step that leaves the table alone.
LEMMA TableSame ==
    ASSUME TypeOK, users' = users
    PROVE  TableGrows
BY DEF TypeOK, TableGrows, Live, Exists, Admins, IsAdmin

-----------------------------------------------------------------------------
(* The parts of the invariant, by what a step does *)

\* A step that creates no session and no key keeps the part about them.
LEMMA CredentialsKept ==
    ASSUME IInv, TableGrows, apart' = apart,
           \A t \in Credentials : creds'[t] \in {creds[t], None},
           \A r \in Reqs : req'[r].pc \in Creating => req'[r] = req[r] \/ Live(req'[r].name),
           \A r \in Reqs : req'[r].pc \in Creating => req'[r].name \in Names
    PROVE  CredentialsLive' /\ LoginInv'
<1>1. \A n \in Names : Live(n) => Live(n)'
    BY DEF TableGrows, Live, Exists
<1>2. CredentialsLive'
    <2>1. SUFFICES ASSUME NEW n \in Names \ apart, NEW t \in Credentials, creds'[t] = n
                   PROVE  Live(n)'
        BY DEF CredentialsLive, Live
    <2>2. creds[t] = n
        BY <2>1, NotNone
    <2>3. Live(n)
        BY <2>2 DEF IInv, CredentialsLive, Live
    <2>. QED
        BY <1>1, <2>3
<1>3. LoginInv'
    <2>1. SUFFICES ASSUME NEW r \in Reqs, NEW n \in Names, req'[r].pc \in Creating,
                          req'[r].name = n
                   PROVE  Live(n)' \/ n \in apart
        BY DEF LoginInv, Live, Exists
    <2>2. Live(n) \/ n \in apart
        BY <2>1 DEF IInv, LoginInv
    <2>. QED
        BY <1>1, <2>1, <2>2
<1>. QED
    BY <1>2, <1>3

\* A step that neither deletes nor checks a deletion keeps the part about
\* administrators.
LEMMA AdminsKept ==
    ASSUME IInv, TableGrows, overlap' = overlap,
           \A r \in Reqs : req'[r].pc \in Relying =>
               req'[r] = req[r] \/ (req'[r].pc # "delete" /\ Admins # {})
    PROVE  AdminInv'
<1>. SUFFICES ASSUME ~overlap PROVE (Admins' = {} => users' = NoUsers) /\ DeleteInv'
    BY DEF AdminInv
<1>1. Admins \subseteq Admins' /\ (Admins = {} => users = NoUsers) /\ DeleteInv
    BY DEF IInv, AdminInv, TableGrows
<1>2. Admins' = {} => users' = NoUsers
    BY <1>1 DEF TableGrows
<1>3. \A r \in Reqs : req'[r].pc \in Relying => Admins' # {}
    BY <1>1 DEF DeleteInv
<1>4. \A r \in Reqs : req'[r].pc = "delete" => req'[r] = req[r]
    BY DEF Relying, AdminStages
<1>5. \A r \in Reqs : req'[r].pc = "delete" => Admins' \ {req'[r].name} # {}
    BY <1>1, <1>4 DEF DeleteInv
<1>6. \A r, q \in Reqs : req'[r].pc = "delete" /\ req'[q].pc = "delete" => r = q
    BY <1>1, <1>4 DEF DeleteInv
<1>. QED
    BY <1>2, <1>3, <1>5, <1>6 DEF DeleteInv

\* The throttles' part, when a thread moves on without being counted.
LEMMA MovesOn ==
    ASSUME IInv, NEW r \in Reqs, NEW x \in Request, Goto(r, x),
           fails' \in 0 .. fails, acts' \in 0 .. acts,
           x.pc # "register", x.pc \in {"verify", "status"} => req[r].pc \in {"verify", "status"}
    PROVE  fails' \in Nat /\ acts' \in Nat /\ GuessInv' /\ AskInv'
<1>1. TypeOK
    BY DEF IInv
<1>2. Guessing' \subseteq Guessing /\ Asking' \subseteq Asking
    BY <1>1, Gone DEF Guessing, Asking
<1>. QED
    BY <1>2, ThrottlesKept

\* A step of a thread that creates no session and neither deletes nor checks a
\* deletion.
LEMMA StepKeeps ==
    ASSUME IInv, NEW r \in Reqs, NEW x \in Request, Goto(r, x), TableGrows,
           UNCHANGED <<creds, overlap, apart>>,
           x.pc \in Creating => x.name \in Names /\ Live(x.name),
           x.pc \in Relying => x.pc # "delete" /\ Admins # {},
           fails' \in Nat, acts' \in Nat, GuessInv', AskInv'
    PROVE  IInv'
<1>1. TypeOK
    BY DEF IInv
<1>2. /\ req' \in [Reqs -> Request]
      /\ req'[r] = x
      /\ \A q \in Reqs \ {r} : req'[q] = req[q]
    BY <1>1, Gone
<1>3. TypeOK'
    BY <1>1, <1>2 DEF TypeOK, TableGrows
<1>4. CredentialsLive' /\ LoginInv'
    <2>1. \A q \in Reqs : req[q].pc \in Creating => req[q].name \in Names
        BY <1>1, Named DEF Creating
    <2>2. \A q \in Reqs : req'[q].pc \in Creating => req'[q] = req[q] \/ Live(req'[q].name)
        BY <1>2
    <2>3. \A q \in Reqs : req'[q].pc \in Creating => req'[q].name \in Names
        BY <1>2, <2>1
    <2>. QED
        BY <2>2, <2>3, CredentialsKept
<1>5. AdminInv'
    BY <1>2, AdminsKept
<1>. QED
    BY <1>3, <1>4, <1>5 DEF IInv

-----------------------------------------------------------------------------
(* The steps *)

LEMMA InitIInv == Init => IInv
<1>. SUFFICES ASSUME Init PROVE IInv
    OBVIOUS
<1>1. users = NoUsers \/ \E n \in Names : users = [NoUsers EXCEPT ![n] = NewUser(TRUE, "active")]
    BY DEF Init, Seeded
<1>2. users \in [Names -> User \union {None}]
    BY <1>1, NewUsers DEF NoUsers
<1>3. TypeOK
    BY <1>2, RequestRecords DEF Init, TypeOK
<1>4. Guessing = {} /\ Asking = {}
    BY DEF Init, Guessing, Asking, Idle
<1>5. GuessInv /\ AskInv
    BY <1>4, ThreadCount, FS_EmptySet, ConstantsAssumption DEF Init, GuessInv, AskInv
<1>6. CredentialsLive
    BY NotNone DEF Init, CredentialsLive
<1>7. LoginInv /\ DeleteInv
    BY DEF Init, LoginInv, DeleteInv, Idle, Creating, Relying, AdminStages
<1>8. Admins = {} => users = NoUsers
    <2>1. ASSUME NEW n \in Names, users = [NoUsers EXCEPT ![n] = NewUser(TRUE, "active")]
          PROVE  n \in Admins
        BY <2>1, NewUsers, NotNone DEF NoUsers, Admins, IsAdmin, Exists, NewUser
    <2>. QED
        BY <1>1, <2>1
<1>. QED
    BY <1>3, <1>5, <1>6, <1>7, <1>8 DEF IInv, AdminInv

\* The requests that need no session.
LEMMA OutsideKeeps ==
    ASSUME IInv, NEW r \in Reqs, NEW n \in Names,
           SetupCheck(r, n) \/ RegisterCheck(r, n) \/ LoginCheck(r, n)
    PROVE  IInv'
<1>0. TypeOK /\ TableGrows /\ UNCHANGED <<users, creds, fails, acts, overlap, apart>>
    BY TableSame DEF IInv, SetupCheck, RegisterCheck, LoginCheck
<1>1. CASE SetupCheck(r, n)
    <2>. DEFINE x == At("setup", n)
    <2>1. x \in Request /\ x.pc = "setup"
        BY RequestRecords DEF At, Stages
    <2>2. Goto(r, x)
        BY <1>1 DEF SetupCheck, Start
    <2>3. fails' \in 0 .. fails /\ acts' \in 0 .. acts
        BY <1>0 DEF TypeOK
    <2>4. fails' \in Nat /\ acts' \in Nat /\ GuessInv' /\ AskInv'
        BY <2>1, <2>2, <2>3, MovesOn
    <2>. QED
        BY <1>0, <2>1, <2>2, <2>4, StepKeeps DEF Creating, Relying, AdminStages
<1>2. CASE RegisterCheck(r, n)
    <2>. DEFINE x == At("register", n)
    <2>1. x \in Request /\ x.pc = "register"
        BY RequestRecords DEF At, Stages
    <2>2. Goto(r, x) /\ ~Blocked(acts)
        BY <1>2 DEF RegisterCheck, Start
    <2>3. Guessing' \subseteq Guessing /\ Guessing \in SUBSET Reqs /\ Asking' \in SUBSET Reqs
        BY <1>0, <2>1, <2>2, Gone DEF Guessing, Asking
    <2>4. fails' \in Nat /\ acts' \in Nat /\ fails' \in 0 .. fails
        BY <1>0 DEF TypeOK
    <2>5. GuessInv'
        BY <1>0, <2>3, <2>4, Shrunk DEF IInv, GuessInv, TypeOK
    <2>6. AskInv'
        BY <1>0, <2>2, <2>3, Passed DEF AskInv, TypeOK
    <2>. QED
        BY <1>0, <2>1, <2>2, <2>4, <2>5, <2>6, StepKeeps DEF Creating, Relying, AdminStages
<1>3. CASE LoginCheck(r, n)
    <2>. DEFINE x == At("verify", n)
    <2>1. x \in Request /\ x.pc = "verify"
        BY RequestRecords DEF At, Stages
    <2>2. Goto(r, x) /\ ~Blocked(fails)
        BY <1>3 DEF LoginCheck, Start
    <2>3. Asking' \subseteq Asking /\ Asking \in SUBSET Reqs /\ Guessing' \in SUBSET Reqs
        BY <1>0, <2>1, <2>2, Gone DEF Guessing, Asking
    <2>4. fails' \in Nat /\ acts' \in Nat /\ acts' \in 0 .. acts
        BY <1>0 DEF TypeOK
    <2>5. AskInv'
        BY <1>0, <2>3, <2>4, Shrunk DEF IInv, AskInv, TypeOK
    <2>6. GuessInv'
        BY <1>0, <2>2, <2>3, Passed DEF GuessInv, TypeOK
    <2>. QED
        BY <1>0, <2>1, <2>2, <2>4, <2>5, <2>6, StepKeeps DEF Creating, Relying, AdminStages
<1>. QED
    BY <1>1, <1>2, <1>3

\* A handler that ends with a change of the table.
LEMMA EndKeeps ==
    ASSUME IInv, NEW r \in Reqs, Goto(r, Idle), TableGrows,
           UNCHANGED <<creds, fails, acts, overlap, apart>>
    PROVE  IInv'
<1>1. Idle \in Request /\ Idle.pc = "idle"
    BY RequestRecords DEF Idle
<1>2. fails' \in 0 .. fails /\ acts' \in 0 .. acts
    BY DEF IInv, TypeOK
<1>3. fails' \in Nat /\ acts' \in Nat /\ GuessInv' /\ AskInv'
    BY <1>1, <1>2, MovesOn
<1>. QED
    BY <1>1, <1>3, StepKeeps DEF Creating, Relying, AdminStages

\* The handlers that insert a row or update one.
LEMMA TableSteps ==
    ASSUME IInv, NEW r \in Reqs,
           \/ SetupCreate(r) \/ RegisterCreate(r)
           \/ AdminCreate(r) \/ AdminApprove(r) \/ AdminReset(r) \/ ChangeSet(r)
    PROVE  IInv'
<1>0. /\ TypeOK
      /\ Goto(r, Idle)
      /\ UNCHANGED <<creds, fails, acts, overlap, apart>>
    BY DEF IInv, SetupCreate, RegisterCreate, AdminCreate, AdminApprove, AdminReset, ChangeSet
<1>1. PICK n \in Names : n = req[r].name
    BY <1>0, Named DEF SetupCreate, RegisterCreate, AdminCreate, AdminApprove, AdminReset, ChangeSet
<1>2. CASE SetupCreate(r)
    <2>1. Insert(n, NewUser(TRUE, "active"))
        BY <1>1, <1>2 DEF SetupCreate
    <2>2. TableGrows
        BY <1>0, <2>1, NewUsers, TableInsert DEF NewUser
    <2>. QED
        BY <1>0, <2>2, EndKeeps
<1>3. CASE AdminCreate(r)
    <2>1. PICK admin \in BOOLEAN : Insert(n, NewUser(admin, "active"))
        BY <1>1, <1>3 DEF AdminCreate
    <2>2. Admins # {} \/ overlap
        BY <1>3 DEF AdminCreate, IInv, AdminInv, DeleteInv, Relying, AdminStages
    <2>3. TableGrows
        BY <1>0, <2>1, <2>2, NewUsers, TableInsert
    <2>. QED
        BY <1>0, <2>3, EndKeeps
<1>6. CASE RegisterCreate(r)
    <2>1. Insert(n, NewUser(FALSE, "pending"))
        BY <1>1, <1>6 DEF RegisterCreate
    <2>2. Admins # {} \/ overlap
        BY <1>6 DEF RegisterCreate, IInv, AdminInv, DeleteInv, Relying
    <2>3. TableGrows
        BY <1>0, <2>1, <2>2, NewUsers, TableInsert
    <2>. QED
        BY <1>0, <2>3, EndKeeps
<1>. DEFINE u(f) == CASE f = "approve" -> [users[n] EXCEPT !.status = "active"]
                      [] f = "reset"   -> [users[n] EXCEPT !.temp = TRUE]
                      [] f = "change"  -> [users[n] EXCEPT !.temp = FALSE]
<1>4. ASSUME NEW f \in {"approve", "reset", "change"},
             users' = IF Exists(n) THEN [users EXCEPT ![n] = u(f)] ELSE users
      PROVE  TableGrows
    <2>1. CASE Exists(n)
        <3>1. users[n] \in User
            BY <1>0, <2>1 DEF TypeOK, Exists
        <3>2. /\ u(f) \in User
              /\ u(f).admin = users[n].admin
              /\ users[n].status = "active" => u(f).status = "active"
            BY <3>1 DEF User
        <3>. QED
            BY <1>0, <1>4, <2>1, <3>2, TableUpdate
    <2>2. CASE ~Exists(n)
        BY <1>0, <1>4, <2>2, TableSame
    <2>. QED
        BY <2>1, <2>2
<1>5. CASE AdminApprove(r) \/ AdminReset(r) \/ ChangeSet(r)
    <2>1. TableGrows
        BY <1>1, <1>4, <1>5 DEF AdminApprove, AdminReset, ChangeSet
    <2>. QED
        BY <1>0, <2>1, EndKeeps
<1>. QED
    BY <1>2, <1>3, <1>5, <1>6

\* The count of a registration.
LEMMA RegisterKeeps ==
    ASSUME IInv, NEW r \in Reqs, RegisterCount(r)
    PROVE  IInv'
<1>0. /\ TypeOK /\ TableGrows
      /\ UNCHANGED <<creds, fails, overlap, apart>>
      /\ acts' = acts + 1
    BY TableSame DEF IInv, RegisterCount
<1>1. PICK n \in Names : n = req[r].name
    BY <1>0, Named DEF RegisterCount
<1>2. PICK x \in {Idle, At("signup", n)} : Goto(r, x) /\ (x = Idle \/ Admins # {})
    BY <1>1 DEF RegisterCount
<1>3. x \in Request /\ x.pc \in {"idle", "signup"} /\ (x.pc = "signup" => Admins # {})
    BY <1>2, RequestRecords DEF Idle, At, Stages
<1>4. r \in Asking /\ Asking \in SUBSET Reqs /\ Guessing \in SUBSET Reqs
    BY DEF RegisterCount, Asking, Guessing
<1>5. Asking' = Asking \ {r} /\ Guessing' \subseteq Guessing
    BY <1>0, <1>2, <1>3, Gone DEF Asking, Guessing
<1>6. fails' \in Nat /\ acts' \in Nat /\ fails' \in 0 .. fails
    BY <1>0 DEF TypeOK
<1>7. AskInv'
    BY <1>0, <1>4, <1>5, Counted DEF IInv, AskInv, TypeOK
<1>8. GuessInv'
    BY <1>0, <1>4, <1>5, <1>6, Shrunk DEF IInv, GuessInv, TypeOK
<1>. QED
    BY <1>0, <1>2, <1>3, <1>6, <1>7, <1>8, StepKeeps DEF Creating, Relying, AdminStages

\* The checks of a login.
LEMMA LoginKeeps ==
    ASSUME IInv, NEW r \in Reqs, LoginVerify(r) \/ LoginStatus(r) \/ LoginWrong(r)
    PROVE  IInv'
<1>0. /\ TypeOK /\ TableGrows
      /\ UNCHANGED <<creds, acts, overlap, apart>>
      /\ req[r].pc \in {"verify", "status"}
    BY TableSame DEF IInv, LoginVerify, LoginStatus, LoginWrong
<1>1. PICK n \in Names : n = req[r].name
    BY <1>0, Named
<1>2. Idle \in Request /\ Idle.pc = "idle"
    BY RequestRecords DEF Idle
<1>3. CASE LoginVerify(r)
    <2>. DEFINE x == At("status", n)
    <2>1. x \in Request /\ x.pc = "status"
        BY RequestRecords DEF At, Stages
    <2>2. Goto(r, x)
        BY <1>1, <1>3 DEF LoginVerify
    <2>3. fails' \in 0 .. fails /\ acts' \in 0 .. acts
        BY <1>0, <1>3 DEF LoginVerify, TypeOK
    <2>4. fails' \in Nat /\ acts' \in Nat /\ GuessInv' /\ AskInv'
        BY <1>0, <2>1, <2>2, <2>3, MovesOn
    <2>. QED
        BY <1>0, <2>1, <2>2, <2>4, StepKeeps DEF Creating, Relying, AdminStages
<1>4. CASE LoginStatus(r)
    <2>. DEFINE x == IF Live(n) THEN At("session", n) ELSE Idle
    <2>1. /\ x \in Request
          /\ x.pc \in {"session", "idle"}
          /\ x.pc \in Creating => x.name = n /\ Live(n)
        BY <1>2, RequestRecords DEF At, Stages, Creating
    <2>2. Goto(r, x)
        BY <1>1, <1>4 DEF LoginStatus, Live
    <2>3. fails' \in 0 .. fails /\ acts' \in 0 .. acts
        BY <1>0, <1>4 DEF LoginStatus, TypeOK
    <2>4. fails' \in Nat /\ acts' \in Nat /\ GuessInv' /\ AskInv'
        BY <2>1, <2>2, <2>3, MovesOn
    <2>5. x.pc \notin Relying
        BY <2>1 DEF Relying, AdminStages
    <2>6. x.pc \in Creating => x.name \in Names /\ Live(x.name)
        BY <2>1
    <2>. HIDE DEF x
    <2>. QED
        BY <1>0, <2>1, <2>2, <2>4, <2>5, <2>6, StepKeeps
<1>5. CASE LoginWrong(r)
    <2>1. Goto(r, Idle) /\ fails' = fails + 1
        BY <1>5 DEF LoginWrong
    <2>2. r \in Guessing /\ Asking \in SUBSET Reqs /\ Guessing \in SUBSET Reqs
        BY <1>0 DEF Asking, Guessing
    <2>3. Guessing' = Guessing \ {r} /\ Asking' \subseteq Asking
        BY <1>0, <1>2, <2>1, Gone DEF Asking, Guessing
    <2>4. fails' \in Nat /\ acts' \in Nat /\ acts' \in 0 .. acts
        BY <1>0, <2>1 DEF TypeOK
    <2>5. GuessInv'
        BY <1>0, <2>1, <2>2, <2>3, Counted DEF IInv, GuessInv, TypeOK
    <2>6. AskInv'
        BY <1>0, <2>2, <2>3, <2>4, Shrunk DEF IInv, AskInv, TypeOK
    <2>. QED
        BY <1>0, <1>2, <2>1, <2>4, <2>5, <2>6, StepKeeps DEF Creating, Relying, AdminStages
<1>. QED
    BY <1>3, <1>4, <1>5

\* The steps that start a handler behind a session or a key.
LEMMA InsideKeeps ==
    ASSUME IInv, NEW r \in Reqs, NEW t \in Credentials,
           \/ ChangeCheck(r, t)
           \/ \E stage \in AdminStages \ {"delete"}, n \in Names : Authorise(r, t, stage, n)
    PROVE  IInv'
<1>0. TypeOK /\ TableGrows /\ UNCHANGED <<users, creds, fails, acts, overlap, apart>>
    BY TableSame DEF IInv, ChangeCheck, Authorise
<1>1. PICK m \in Names : m = creds[t]
    BY <1>0 DEF TypeOK, ChangeCheck, Authorise
<1>2. fails' \in 0 .. fails /\ acts' \in 0 .. acts
    BY <1>0 DEF TypeOK
<1>3. CASE ChangeCheck(r, t)
    <2>. DEFINE x == At("change", m)
    <2>1. x \in Request /\ x.pc = "change"
        BY RequestRecords DEF At, Stages
    <2>2. Goto(r, x)
        BY <1>1, <1>3 DEF ChangeCheck, Start
    <2>3. fails' \in Nat /\ acts' \in Nat /\ GuessInv' /\ AskInv'
        BY <1>2, <2>1, <2>2, MovesOn
    <2>. QED
        BY <1>0, <2>1, <2>2, <2>3, StepKeeps DEF Creating, Relying, AdminStages
<1>4. ASSUME NEW stage \in AdminStages \ {"delete"}, NEW n \in Names, Authorise(r, t, stage, n)
      PROVE  IInv'
    <2>. DEFINE x == At(stage, n)
    <2>1. x \in Request /\ x.pc = stage
        BY RequestRecords DEF At, Stages
    <2>2. Goto(r, x)
        BY <1>4 DEF Authorise, Start
    <2>3. stage \notin {"register", "verify", "status", "session", "mint"}
        BY DEF Relying, AdminStages
    <2>4. fails' \in Nat /\ acts' \in Nat /\ GuessInv' /\ AskInv'
        BY <1>2, <2>1, <2>2, <2>3, MovesOn
    <2>5. Admins # {}
        BY <1>1, <1>4 DEF Authorise, Admins
    <2>. QED
        BY <1>0, <2>1, <2>2, <2>3, <2>4, <2>5, StepKeeps DEF Creating
<1>. QED
    BY <1>3, <1>4

\* A request for a key is checked: its name is live, or set apart.
LEMMA MintCheckKeeps ==
    ASSUME IInv, NEW r \in Reqs, NEW t \in Credentials, NEW n \in Names, MintCheck(r, t, n)
    PROVE  IInv'
<1>. DEFINE x == At("mint", n)
<1>0. TypeOK /\ TableGrows /\ UNCHANGED <<users, creds, fails, acts, overlap>>
    BY TableSame DEF IInv, MintCheck
<1>1. x \in Request /\ x.pc = "mint" /\ x.name = n
    BY RequestRecords DEF At, Stages
<1>2. Goto(r, x)
    BY DEF MintCheck, Start
<1>3. /\ req' \in [Reqs -> Request]
      /\ req'[r] = x
      /\ \A q \in Reqs \ {r} : req'[q] = req[q]
    BY <1>0, <1>1, <1>2, Gone
<1>4. fails' \in 0 .. fails /\ acts' \in 0 .. acts
    BY <1>0 DEF TypeOK
<1>5. fails' \in Nat /\ acts' \in Nat /\ GuessInv' /\ AskInv'
    BY <1>1, <1>2, <1>4, MovesOn
<1>6. /\ apart' \in SUBSET Names /\ apart \subseteq apart'
      /\ Live(n) \/ n \in apart'
    <2>1. CASE n = creds[t]
        BY <1>0, <2>1 DEF MintCheck, TypeOK, IInv, CredentialsLive
    <2>2. CASE n # creds[t]
        BY <1>0, <2>2 DEF MintCheck, TypeOK
    <2>. QED
        BY <2>1, <2>2
<1>7. CredentialsLive'
    BY <1>0, <1>6 DEF IInv, CredentialsLive, Live, Exists
<1>8. LoginInv'
    BY <1>0, <1>1, <1>3, <1>6 DEF IInv, LoginInv, Live, Exists
<1>9. AdminInv'
    BY <1>0, <1>1, <1>3, AdminsKept DEF Relying, AdminStages
<1>10. TypeOK'
    BY <1>0, <1>3, <1>5, <1>6 DEF TypeOK
<1>. QED
    BY <1>5, <1>7, <1>8, <1>9, <1>10 DEF IInv

\* Keys are revoked.
LEMMA RevokeKeeps ==
    ASSUME IInv, NEW r \in Reqs, AdminRevoke(r)
    PROVE  IInv'
<1>0. /\ TypeOK /\ TableGrows /\ Goto(r, Idle)
      /\ UNCHANGED <<users, fails, acts, overlap, apart>>
      /\ Idle \in Request /\ Idle.pc = "idle"
    BY TableSame, RequestRecords DEF IInv, AdminRevoke, Idle
<1>1. /\ req' \in [Reqs -> Request]
      /\ req'[r] = Idle
      /\ \A q \in Reqs \ {r} : req'[q] = req[q]
    BY <1>0, Gone
<1>2. PICK K \in SUBSET ApiKeys :
          creds' = [c \in Credentials |-> IF c \in K THEN None ELSE creds[c]]
    BY DEF AdminRevoke
<1>3. /\ creds' \in [Credentials -> Names \union {None}]
      /\ \A c \in Credentials : creds'[c] \in {creds[c], None}
    BY <1>0, <1>2 DEF TypeOK
<1>4. fails' \in 0 .. fails /\ acts' \in 0 .. acts
    BY <1>0 DEF TypeOK
<1>5. fails' \in Nat /\ acts' \in Nat /\ GuessInv' /\ AskInv'
    BY <1>0, <1>4, MovesOn
<1>6. \A q \in Reqs : req'[q].pc \in Creating => req'[q] = req[q] /\ req[q].name \in Names
    BY <1>0, <1>1, Named DEF Creating
<1>7. CredentialsLive' /\ LoginInv'
    BY <1>0, <1>3, <1>6, CredentialsKept
<1>8. AdminInv'
    BY <1>0, <1>1, AdminsKept DEF Relying, AdminStages
<1>9. TypeOK'
    BY <1>0, <1>1, <1>3, <1>5 DEF TypeOK
<1>. QED
    BY <1>5, <1>7, <1>8, <1>9 DEF IInv

\* A session or a key is created.
LEMMA CredentialStarts ==
    ASSUME IInv, NEW r \in Reqs, LoginSession(r) \/ Mint(r)
    PROVE  IInv'
<1>0. /\ TypeOK /\ TableGrows /\ Goto(r, Idle)
      /\ UNCHANGED <<users, acts, overlap, apart>>
      /\ fails' \in {0, fails}
      /\ req[r].pc \in Creating
      /\ Idle \in Request /\ Idle.pc = "idle"
    BY TableSame, RequestRecords DEF IInv, LoginSession, Mint, Idle, Creating
<1>1. /\ req' \in [Reqs -> Request]
      /\ req'[r] = Idle
      /\ \A q \in Reqs \ {r} : req'[q] = req[q]
    BY <1>0, Gone
<1>2. PICK n \in Names : n = req[r].name
    BY <1>0, Named DEF Creating
<1>3. PICK t \in Credentials : creds' = [creds EXCEPT ![t] = n]
    BY <1>2 DEF LoginSession, Mint, Credentials
<1>4. Live(n) \/ n \in apart
    BY <1>0, <1>2 DEF IInv, LoginInv
<1>5. fails' \in 0 .. fails /\ acts' \in 0 .. acts
    BY <1>0 DEF TypeOK
<1>6. fails' \in Nat /\ acts' \in Nat /\ GuessInv' /\ AskInv'
    BY <1>0, <1>5, MovesOn
<1>7. TypeOK'
    BY <1>0, <1>1, <1>3, <1>6 DEF TypeOK
<1>8. CredentialsLive'
    <2>1. SUFFICES ASSUME NEW m \in Names \ apart, NEW v \in Credentials, creds'[v] = m
                   PROVE  Live(m)
        BY <1>0 DEF CredentialsLive, Live, Exists
    <2>2. CASE v = t
        BY <1>0, <1>3, <1>4, <2>1, <2>2 DEF TypeOK
    <2>3. CASE v # t
        BY <1>0, <1>3, <2>1, <2>3 DEF TypeOK, IInv, CredentialsLive, Live
    <2>. QED
        BY <2>2, <2>3
<1>9. LoginInv'
    BY <1>0, <1>1 DEF IInv, LoginInv, Live, Exists, Creating
<1>10. AdminInv'
    BY <1>0, <1>1, AdminsKept DEF Relying, AdminStages
<1>. QED
    BY <1>6, <1>7, <1>8, <1>9, <1>10 DEF IInv

\* A session ends, or a throttle forgets.
LEMMA QuietKeeps ==
    ASSUME IInv, Age \/ \E t \in Tokens : EndSession(t)
    PROVE  IInv'
<1>0. /\ TypeOK /\ TableGrows
      /\ UNCHANGED <<users, req, overlap, apart>>
      /\ fails' \in 0 .. fails /\ acts' \in 0 .. acts
    BY TableSame DEF IInv, TypeOK, Age, EndSession
<1>1. Guessing' = Guessing /\ Asking' = Asking
    BY <1>0 DEF Guessing, Asking
<1>2. fails' \in Nat /\ acts' \in Nat /\ GuessInv' /\ AskInv'
    BY <1>0, <1>1, ThrottlesKept
<1>3. /\ creds' \in [Credentials -> Names \union {None}]
      /\ \A t \in Credentials : creds'[t] \in {creds[t], None}
    BY <1>0 DEF TypeOK, Age, EndSession, Credentials
<1>4. \A r \in Reqs : req'[r].pc \in Creating => req'[r].name \in Names
    BY <1>0, Named DEF Creating
<1>5. CredentialsLive' /\ LoginInv'
    BY <1>0, <1>3, <1>4, CredentialsKept
<1>6. AdminInv'
    BY <1>0, AdminsKept
<1>7. TypeOK'
    BY <1>0, <1>2, <1>3 DEF TypeOK
<1>. QED
    BY <1>2, <1>5, <1>6, <1>7 DEF IInv

\* A deletion is checked: either it is refused, or it will leave an
\* administrator as long as no other one is under way.
LEMMA CheckKeeps ==
    ASSUME IInv, NEW r \in Reqs, DeleteCheck(r)
    PROVE  IInv'
<1>0. /\ TypeOK /\ TableGrows
      /\ UNCHANGED <<users, creds, fails, acts, apart>>
    BY TableSame DEF IInv, DeleteCheck
<1>1. PICK n \in Names : n = req[r].name
    BY <1>0, Named DEF DeleteCheck
<1>. DEFINE x == IF MayDelete(n) THEN At("delete", n) ELSE Idle
<1>2. x \in Request /\ x.pc \in {"delete", "idle"} /\ (x.pc = "delete" => MayDelete(n) /\ x.name = n)
    BY RequestRecords DEF At, Stages, AdminStages, Idle
<1>3. Goto(r, x)
    BY <1>1 DEF DeleteCheck
<1>4. /\ req' \in [Reqs -> Request]
      /\ req'[r] = x
      /\ \A q \in Reqs \ {r} : req'[q] = req[q]
    BY <1>0, <1>2, <1>3, Gone
<1>5. /\ overlap' \in BOOLEAN
      /\ overlap => overlap'
      /\ x.pc = "delete" /\ ~overlap' => \A q \in Reqs : req[q].pc # "delete"
    BY <1>0, <1>1 DEF DeleteCheck, TypeOK, At, Idle
<1>6. fails' \in 0 .. fails /\ acts' \in 0 .. acts
    BY <1>0 DEF TypeOK
<1>7. fails' \in Nat /\ acts' \in Nat /\ GuessInv' /\ AskInv'
    BY <1>2, <1>3, <1>6, MovesOn
<1>8. CredentialsLive' /\ LoginInv'
    <2>1. \A q \in Reqs : req'[q].pc \in Creating => req'[q] = req[q] /\ req[q].name \in Names
        BY <1>0, <1>2, <1>4, Named DEF Creating
    <2>. QED
        BY <1>0, <2>1, CredentialsKept
<1>9. AdminInv'
    <2>. SUFFICES ASSUME ~overlap' PROVE (Admins = {} => users = NoUsers) /\ DeleteInv'
        BY <1>0 DEF AdminInv, Admins, IsAdmin, Exists
    <2>1. (Admins = {} => users = NoUsers) /\ DeleteInv /\ Admins' = Admins
        BY <1>0, <1>5 DEF IInv, AdminInv, Admins, IsAdmin, Exists
    <2>2. Admins # {}
        BY <2>1 DEF DeleteCheck, DeleteInv, Relying, AdminStages
    <2>3. x.pc = "delete" => Admins \ {n} # {}
        <3>1. SUFFICES ASSUME MayDelete(n), Admins \ {n} = {} PROVE FALSE
            BY <1>2
        <3>2. Admins = {n}
            BY <2>2, <3>1
        <3>3. Cardinality(Admins) = 1
            BY <3>2, FS_Singleton
        <3>. QED
            BY <3>1, <3>2, <3>3 DEF MayDelete, Admins
    <2>. QED
        BY <1>2, <1>4, <1>5, <2>1, <2>2, <2>3 DEF DeleteInv
<1>10. TypeOK'
    BY <1>0, <1>4, <1>5, <1>7 DEF TypeOK, TableGrows
<1>. QED
    BY <1>7, <1>8, <1>9, <1>10 DEF IInv

\* A user is deleted, with his sessions and keys.
LEMMA DeleteKeeps ==
    ASSUME IInv, NEW r \in Reqs, DeleteUser(r)
    PROVE  IInv'
<1>0. /\ TypeOK /\ Goto(r, Idle)
      /\ UNCHANGED <<fails, acts, overlap>>
      /\ Idle \in Request /\ Idle.pc = "idle"
    BY RequestRecords DEF IInv, DeleteUser, Idle
<1>1. PICK n \in Names : n = req[r].name
    BY <1>0, Named DEF DeleteUser
<1>2. /\ req' \in [Reqs -> Request]
      /\ req'[r] = Idle
      /\ \A q \in Reqs \ {r} : req'[q] = req[q]
    BY <1>0, Gone
<1>3. /\ users' \in [Names -> User \union {None}]
      /\ \A m \in Names \ {n} : users'[m] = users[m]
      /\ users'[n] = None
    BY <1>0, <1>1 DEF DeleteUser, TypeOK
<1>4. /\ creds' \in [Credentials -> Names \union {None}]
      /\ \A t \in Credentials : creds'[t] # n /\ creds'[t] \in {creds[t], None}
    BY <1>0, <1>1, NotNone DEF DeleteUser, TypeOK
<1>5. /\ apart' \in SUBSET Names /\ apart \subseteq apart'
      /\ (\E q \in Reqs : req[q] \in Granting(n)) => n \in apart'
    BY <1>0, <1>1 DEF DeleteUser, TypeOK
<1>6. fails' \in 0 .. fails /\ acts' \in 0 .. acts
    BY <1>0 DEF TypeOK
<1>7. fails' \in Nat /\ acts' \in Nat /\ GuessInv' /\ AskInv'
    BY <1>0, <1>6, MovesOn
<1>8. CredentialsLive'
    <2>1. SUFFICES ASSUME NEW m \in Names \ apart', NEW t \in Credentials, creds'[t] = m
                   PROVE  users'[m] # None /\ users'[m].status = "active"
        BY DEF CredentialsLive, Live, Exists
    <2>2. m # n /\ m \notin apart /\ creds[t] = m
        BY <1>4, <1>5, <2>1, NotNone
    <2>. QED
        BY <1>3, <2>2 DEF IInv, CredentialsLive, Live, Exists
<1>9. LoginInv'
    <2>1. SUFFICES ASSUME NEW q \in Reqs \ {r}, req[q].pc \in Creating
                   PROVE  \/ users'[req[q].name] # None /\ users'[req[q].name].status = "active"
                          \/ req[q].name \in apart'
        BY <1>0, <1>2 DEF LoginInv, Live, Exists, Creating
    <2>2. PICK m \in Names : m = req[q].name
        BY <1>0, <2>1, Named DEF Creating
    <2>3. CASE m = n
        <3>1. req[q] \in Granting(n)
            BY <1>0, <2>1, <2>2, <2>3 DEF TypeOK, Request, Idle, At, Creating, Granting
        <3>. QED
            BY <1>5, <2>2, <2>3, <3>1
    <2>4. CASE m # n
        BY <1>3, <1>5, <2>1, <2>2, <2>4 DEF IInv, LoginInv, Live, Exists
    <2>. QED
        BY <2>3, <2>4
<1>10. AdminInv'
    <2>. SUFFICES ASSUME ~overlap PROVE Admins' # {} /\ DeleteInv'
        BY <1>0 DEF AdminInv
    <2>1. DeleteInv
        BY DEF IInv, AdminInv
    <2>2. Admins' = Admins \ {n}
        BY <1>3 DEF Admins, IsAdmin, Exists
    <2>3. Admins' # {}
        BY <1>1, <2>1, <2>2 DEF DeleteUser, DeleteInv
    <2>4. \A q \in Reqs : req'[q].pc # "delete"
        BY <1>0, <1>2, <2>1 DEF DeleteUser, DeleteInv
    <2>. QED
        BY <2>3, <2>4 DEF DeleteInv
<1>11. TypeOK'
    BY <1>0, <1>2, <1>3, <1>4, <1>5, <1>7 DEF TypeOK
<1>. QED
    BY <1>7, <1>8, <1>9, <1>10, <1>11 DEF IInv

\* The process starts again.
LEMMA CrashKeeps ==
    ASSUME IInv, Crash
    PROVE  IInv'
<1>0. /\ TypeOK
      /\ UNCHANGED <<creds, overlap, apart>>
      /\ fails' = 0 /\ acts' = 0
      /\ req' = [r \in Reqs |-> Idle]
    BY DEF IInv, Crash
<1>1. \A r \in Reqs : req'[r].pc = "idle"
    BY <1>0 DEF Idle
<1>3. ASSUME NEW n \in Names, users = NoUsers,
             users' = [NoUsers EXCEPT ![n] = NewUser(TRUE, "active")]
      PROVE  TableGrows
    <2>1. Insert(n, NewUser(TRUE, "active"))
        BY <1>3 DEF Insert, Exists, NoUsers
    <2>. QED
        BY <1>0, <2>1, NewUsers, TableInsert DEF NewUser
<1>4. TableGrows
    BY <1>0, <1>3, TableSame DEF Crash, Seeded
<1>5. fails' \in 0 .. fails /\ acts' \in 0 .. acts
    BY <1>0 DEF TypeOK
<1>6. Guessing' \subseteq Guessing /\ Asking' \subseteq Asking
    BY <1>1 DEF Guessing, Asking
<1>7. fails' \in Nat /\ acts' \in Nat /\ GuessInv' /\ AskInv'
    BY <1>5, <1>6, ThrottlesKept
<1>8. CredentialsLive' /\ LoginInv'
    BY <1>0, <1>1, <1>4, CredentialsKept DEF Creating
<1>9. AdminInv'
    BY <1>0, <1>1, <1>4, AdminsKept DEF Relying, AdminStages
<1>10. TypeOK'
    <2>1. req' \in [Reqs -> Request]
        BY <1>0, RequestRecords
    <2>. QED
        BY <1>0, <1>4, <1>7, <2>1 DEF TypeOK, TableGrows
<1>. QED
    BY <1>7, <1>8, <1>9, <1>10 DEF IInv

LEMMA NextKeeps == IInv /\ [Next]_vars => IInv'
<1>. SUFFICES ASSUME IInv, [Next]_vars PROVE IInv'
    OBVIOUS
<1>1. ASSUME NEW r \in Reqs, NEW n \in Names,
             SetupCheck(r, n) \/ RegisterCheck(r, n) \/ LoginCheck(r, n)
      PROVE  IInv'
    BY <1>1, OutsideKeeps
<1>2. ASSUME NEW r \in Reqs, NEW t \in Credentials,
             \/ ChangeCheck(r, t)
             \/ \E stage \in AdminStages \ {"delete"}, n \in Names : Authorise(r, t, stage, n)
             \/ \E n \in Names : MintCheck(r, t, n)
      PROVE  IInv'
    BY <1>2, InsideKeeps, MintCheckKeeps
<1>3. ASSUME NEW r \in Reqs,
             \/ SetupCreate(r) \/ RegisterCount(r) \/ RegisterCreate(r)
             \/ Login(r) \/ ChangeSet(r) \/ Mint(r) \/ Admin(r)
      PROVE  IInv'
    BY <1>3, TableSteps, RegisterKeeps, LoginKeeps, CredentialStarts, RevokeKeeps,
       CheckKeeps, DeleteKeeps
       DEF Login, Admin
<1>4. CASE Age \/ \E t \in Tokens : EndSession(t)
    BY <1>4, QuietKeeps
<1>5. CASE Crash
    BY <1>5, CrashKeeps
<1>6. CASE UNCHANGED vars
    BY <1>6 DEF vars, IInv, TypeOK, GuessInv, AskInv, Guessing, Asking, CredentialsLive, LoginInv,
       AdminInv, DeleteInv, Admins, IsAdmin, Live, Exists
<1>. QED
    BY <1>1, <1>2, <1>3, <1>4, <1>5, <1>6 DEF Next

-----------------------------------------------------------------------------
(* The theorems *)

\* The invariant that the other theorems rest on.
THEOREM InvariantHolds == Spec => []IInv
BY InitIInv, NextKeeps, PTL DEF Spec

\* Every variable keeps its type; no administrator is ever pending.
THEOREM TypeCorrect == Spec => []TypeOK
<1>1. IInv => TypeOK
    BY DEF IInv
<1>. QED
    BY <1>1, InvariantHolds, PTL

\* Guesses in parallel pass the limit by at most one for each further thread.
THEOREM ThrottleHolds == Spec => []ThrottleBound
<1>1. IInv => ThrottleBound
    <2>1. Guessing \in SUBSET Reqs /\ Asking \in SUBSET Reqs
        BY DEF Guessing, Asking
    <2>2. /\ Cardinality(Guessing) \in Nat /\ Cardinality(Asking) \in Nat
          /\ Cardinality(Reqs) \in Nat
        BY <2>1, ThreadCount
    <2>. QED
        BY <2>2, ConstantsAssumption DEF IInv, TypeOK, GuessInv, AskInv, ThrottleBound
<1>. QED
    BY <1>1, InvariantHolds, PTL

\* Sessions stand for approved accounts, up to the race of a login with a
\* deletion.
THEOREM CredentialsHold == Spec => []CredentialsLive
<1>1. IInv => CredentialsLive
    BY DEF IInv
<1>. QED
    BY <1>1, InvariantHolds, PTL

\* Deletions that do not overlap leave an administrator.
THEOREM AdministratorStays == Spec => []AdminKept
<1>1. IInv => AdminKept
    BY DEF IInv, AdminInv, AdminKept
<1>. QED
    BY <1>1, InvariantHolds, PTL

-----------------------------------------------------------------------------
(* The audit log *)

\* The row before one of a log that has been extended.
LEMMA HashesBefore ==
    ASSUME NEW S, NEW log \in Seq(S), NEW other \in Seq(S), Len(other) >= Len(log),
           \A i \in 1 .. Len(log) : other[i].hash = log[i].hash,
           NEW i \in 1 .. Len(log) + 1
    PROVE  HashBefore(other, i) = HashBefore(log, i)
<1>1. CASE i = 1
    BY <1>1 DEF HashBefore
<1>2. CASE i # 1
    <2>1. i - 1 \in 1 .. Len(log)
      BY <1>2
    <2>. QED
      BY <1>2, <2>1 DEF HashBefore
<1>. QED
    BY <1>1, <1>2

\* Whatever is appended, the log still verifies (storage.py:489-511).
THEOREM ChainGrows ==
    ASSUME NEW S, NEW log \in Seq(S), NEW ts, NEW first, NEW second,
           NewRow(log, ts, first, second) \in S
    PROVE  AppendVerifies(log, ts, first, second)
<1>. DEFINE prev == HashBefore(log, Len(log) + 1)
            row == NewRow(log, ts, first, second)
            longer == Appended(log, ts, first, second)
<1>1. /\ longer = Append(log, row) /\ longer \in Seq(S)
      /\ Len(log) \in Nat /\ Len(longer) = Len(log) + 1
      /\ longer[Len(log) + 1] = row
      /\ \A i \in 1 .. Len(log) : longer[i] = log[i]
    BY DEF Appended
<1>. HIDE DEF longer
<1>2. \A i \in 1 .. Len(log) + 1 : HashBefore(longer, i) = HashBefore(log, i)
    <2>1. Len(longer) >= Len(log) /\ \A i \in 1 .. Len(log) : longer[i].hash = log[i].hash
      BY <1>1
    <2>. QED
      BY <1>1, <2>1, HashesBefore
<1>3. SUFFICES ASSUME Verified(log), NEW i \in 1 .. Len(log) + 1
               PROVE  longer[i].hash = Hash(HashBefore(longer, i), longer[i])
    BY <1>1 DEF AppendVerifies, Verified, longer
<1>4. CASE i = Len(log) + 1
    <2>1. HashBefore(longer, i) = prev
      BY <1>2, <1>4
    <2>2. row.hash = <<prev, Text(row)>>
      BY DEF NewRow, Text
    <2>3. longer[i] = row
      BY <1>1, <1>4
    <2>. QED
      BY <2>1, <2>2, <2>3 DEF Hash
<1>5. CASE i \in 1 .. Len(log)
    BY <1>1, <1>2, <1>3, <1>5 DEF Verified
<1>. QED
    BY <1>1, <1>4, <1>5

\* Altered rows are found exactly if one of their texts has changed
\* (storage.py:516-532).
THEOREM AlterationsFound ==
    ASSUME NEW S, NEW log \in Seq(S), NEW altered \in Seq(S)
    PROVE  AlterationFound(log, altered)
<1>1. SUFFICES ASSUME Verified(log), Len(altered) = Len(log),
                      \A i \in 1 .. Len(log) : altered[i].hash = log[i].hash
               PROVE  Verified(altered) <=>
                        \A i \in 1 .. Len(log) : Text(altered[i]) = Text(log[i])
    BY DEF AlterationFound
<1>2. \A i \in 1 .. Len(log) : HashBefore(altered, i) = HashBefore(log, i)
    BY <1>1, HashesBefore
<1>3. \A i \in 1 .. Len(log) : log[i].hash = <<HashBefore(log, i), Text(log[i])>>
    BY <1>1 DEF Verified, Hash
<1>4. \A i \in 1 .. Len(log) :
         altered[i].hash = Hash(HashBefore(altered, i), altered[i]) <=>
            Text(altered[i]) = Text(log[i])
    BY <1>1, <1>2, <1>3 DEF Hash
<1>. QED
    BY <1>1, <1>4 DEF Verified

\* What is left of two equal texts before a common end.
LEMMA EqualBefore ==
    ASSUME NEW S, NEW f \in Seq(S), NEW g \in Seq(S), NEW rest \in Seq(S),
           f \o rest = g \o rest
    PROVE  f = g
<1>1. Len(f) = Len(g)
    <2>1. Len(f \o rest) = Len(f) + Len(rest) /\ Len(g \o rest) = Len(g) + Len(rest)
      OBVIOUS
    <2>2. Len(f) \in Nat /\ Len(g) \in Nat /\ Len(rest) \in Nat
      OBVIOUS
    <2>. QED
      BY <2>1, <2>2
<1>2. \A i \in 1 .. Len(f) : f[i] = g[i]
    <2>1. \A i \in 1 .. Len(f) : (f \o rest)[i] = f[i] /\ (g \o rest)[i] = g[i]
      BY <1>1
    <2>. QED
      BY <2>1
<1>. QED
    BY <1>1, <1>2

\* What is left of two equal texts after a common beginning.
LEMMA EqualAfter ==
    ASSUME NEW S, NEW f \in Seq(S), NEW g \in Seq(S), NEW rest \in Seq(S),
           rest \o f = rest \o g
    PROVE  f = g
<1>1. Len(f) = Len(g)
    <2>1. Len(rest \o f) = Len(rest) + Len(f) /\ Len(rest \o g) = Len(rest) + Len(g)
      OBVIOUS
    <2>2. Len(f) \in Nat /\ Len(g) \in Nat /\ Len(rest) \in Nat
      OBVIOUS
    <2>. QED
      BY <2>1, <2>2
<1>2. \A i \in 1 .. Len(f) : f[i] = g[i]
    <2>1. \A i \in 1 .. Len(f) :
             (rest \o f)[Len(rest) + i] = f[i] /\ (rest \o g)[Len(rest) + i] = g[i]
      BY <1>1
    <2>. QED
      BY <2>1
<1>. QED
    BY <1>1, <1>2

\* Joined columns that end, or begin, alike.
LEMMA JoinedTells ==
    ASSUME Separator \in Characters,
           NEW f \in Strings, NEW g \in Strings, NEW s \in Strings, NEW t \in Strings
    PROVE  /\ Joined(f, s) = Joined(g, s) => f = g
           /\ Joined(f, s) = Joined(f, t) => s = t
<1>. DEFINE bar == <<Separator>>
<1>1. /\ f \in Seq(Characters) /\ g \in Seq(Characters) /\ bar \in Seq(Characters)
      /\ s \in Seq(Characters) /\ t \in Seq(Characters)
    BY DEF Strings
<1>2. /\ Joined(f, s) = f \o bar \o s /\ Joined(g, s) = g \o bar \o s
      /\ Joined(f, t) = f \o bar \o t
    BY DEF Joined
<1>. HIDE DEF bar
<1>3. bar \o s \in Seq(Characters) /\ f \o bar \in Seq(Characters)
    BY <1>1
<1>4. f \o bar \o s = f \o (bar \o s)
    BY <1>1, ConcatAssociative
<1>5. g \o bar \o s = g \o (bar \o s)
    BY <1>1, ConcatAssociative
<1>6. f \o (bar \o s) = g \o (bar \o s) => f = g
    BY <1>1, <1>3, EqualBefore
<1>7. (f \o bar) \o s = (f \o bar) \o t => s = t
    BY <1>1, <1>3, EqualAfter
<1>. QED
    BY <1>2, <1>4, <1>5, <1>6, <1>7, Zenon

\* A column is shown as another exactly if they are the same or one is NULL and
\* the other empty.
LEMMA ShownColumn ==
    ASSUME NEW c \in Columns, NEW d \in Columns
    PROVE  /\ Shown(c) \in Strings
           /\ Shown(c) = Shown(d) <=> SameColumn(c, d)
<1>1. << >> \in Strings
    BY DEF Strings
<1>. QED
    BY <1>1 DEF Columns, Shown, SameColumn

\* Two rows that differ in one column have the same text exactly if the text
\* does not tell the two values apart.
LEMMA TextTells ==
    ASSUME NEW row, NEW other, Separator \in Characters,
           row.first \in Columns, row.second \in Columns,
           other.first \in Columns, other.second \in Columns
    PROVE  /\ row.first = other.first /\ row.second = other.second =>
                 (Text(row) = Text(other) <=> SameTime(row.ts, other.ts))
           /\ row.ts = other.ts /\ row.second = other.second =>
                 (Text(row) = Text(other) <=> SameColumn(row.first, other.first))
           /\ row.ts = other.ts /\ row.first = other.first =>
                 (Text(row) = Text(other) <=> SameColumn(row.second, other.second))
<1>. DEFINE f == Shown(row.first)   s == Shown(row.second)
            g == Shown(other.first) t == Shown(other.second)
<1>1. f \in Strings /\ g \in Strings /\ s \in Strings /\ t \in Strings
    BY ShownColumn
<1>2. /\ f = g <=> SameColumn(row.first, other.first)
      /\ s = t <=> SameColumn(row.second, other.second)
    BY ShownColumn
<1>3. Text(row) = Text(other) <=>
         Stamp(row.ts) = Stamp(other.ts) /\ Joined(f, s) = Joined(g, t)
    BY DEF Text
<1>4. /\ row.first = other.first => f = g
      /\ row.second = other.second => s = t
    OBVIOUS
<1>. HIDE DEF f, g, s, t
<1>5. /\ Joined(f, s) = Joined(g, s) => f = g
      /\ Joined(f, s) = Joined(f, t) => s = t
    BY <1>1, JoinedTells
<1>. QED
    BY <1>2, <1>3, <1>4, <1>5 DEF SameTime

\* A log in which the columns of one row are altered.
LEMMA OneRowAltered ==
    ASSUME NEW S, NEW log \in Seq(S), NEW i \in 1 .. Len(log), NEW row \in S,
           row.hash = log[i].hash, Verified(log)
    PROVE  Verified([log EXCEPT ![i] = row]) <=> Text(row) = Text(log[i])
<1>. DEFINE altered == [log EXCEPT ![i] = row]
<1>1. /\ altered \in Seq(S) /\ Len(altered) = Len(log) /\ altered[i] = row
      /\ \A j \in 1 .. Len(log) : j # i => altered[j] = log[j]
    OBVIOUS
<1>2. \A j \in 1 .. Len(log) : altered[j].hash = log[j].hash
    BY <1>1
<1>. HIDE DEF altered
<1>3. Verified(altered) <=> \A j \in 1 .. Len(log) : Text(altered[j]) = Text(log[j])
    BY <1>1, <1>2, AlterationsFound DEF AlterationFound
<1>4. Verified(altered) <=> Text(row) = Text(log[i])
    BY <1>1, <1>3
<1>. QED
    BY <1>4 DEF altered

\* A row of a log.
LEMMA Rows ==
    ASSUME NEW S, NEW log \in Seq(S), NEW i \in 1 .. Len(log)
    PROVE  log[i] \in S
OBVIOUS

\* An alteration of one column is found, unless an empty column and NULL stand
\* for each other or the time moves within its six digits
\* (storage.py:494-497, 522-526).
THEOREM FieldAlterationsFound ==
    ASSUME NEW T, NEW H, NEW log \in Seq([ts : T, first : Columns, second : Columns, hash : H]),
           Separator \in Characters, NEW i \in 1 .. Len(log),
           NEW ts \in T, NEW first \in Columns, NEW second \in Columns
    PROVE  FieldAlterationFound(log, i, ts, first, second)
<1>. DEFINE S == [ts : T, first : Columns, second : Columns, hash : H]
            old == log[i]
            late == [old EXCEPT !.ts = ts]
            one == [old EXCEPT !.first = first]
            two == [old EXCEPT !.second = second]
<1>1. SUFFICES ASSUME Verified(log)
               PROVE  /\ Verified([log EXCEPT ![i] = late]) <=> SameTime(ts, old.ts)
                      /\ Verified([log EXCEPT ![i] = one]) <=> SameColumn(first, old.first)
                      /\ Verified([log EXCEPT ![i] = two]) <=> SameColumn(second, old.second)
    BY DEF FieldAlterationFound
<1>2. old \in S
    <2>1. log[i] \in [ts : T, first : Columns, second : Columns, hash : H]
      BY Rows
    <2>. QED
      BY <2>1
<1>. HIDE DEF old
<1>3. /\ late \in S /\ late.hash = old.hash /\ late.ts = ts
      /\ late.first = old.first /\ late.second = old.second
    BY <1>2
<1>4. /\ one \in S /\ one.hash = old.hash /\ one.ts = old.ts
      /\ one.first = first /\ one.second = old.second
    BY <1>2
<1>5. /\ two \in S /\ two.hash = old.hash /\ two.ts = old.ts
      /\ two.first = old.first /\ two.second = second
    BY <1>2
<1>6. old.first \in Columns /\ old.second \in Columns
    BY <1>2
<1>. HIDE DEF S, late, one, two
<1>7. log \in Seq(S)
    BY DEF S
<1>8. \A row \in S : row.hash = old.hash =>
         (Verified([log EXCEPT ![i] = row]) <=> Text(row) = Text(old))
    BY <1>1, <1>7, OneRowAltered DEF old
<1>9. Verified([log EXCEPT ![i] = late]) <=> SameTime(ts, old.ts)
    <2>1. Text(late) = Text(old) <=> SameTime(late.ts, old.ts)
      BY <1>3, <1>6, TextTells
    <2>. QED
      BY <1>3, <1>8, <2>1
<1>10. Verified([log EXCEPT ![i] = one]) <=> SameColumn(first, old.first)
    <2>1. Text(one) = Text(old) <=> SameColumn(one.first, old.first)
      BY <1>4, <1>6, TextTells
    <2>. QED
      BY <1>4, <1>8, <2>1
<1>11. Verified([log EXCEPT ![i] = two]) <=> SameColumn(second, old.second)
    <2>1. Text(two) = Text(old) <=> SameColumn(two.second, old.second)
      BY <1>5, <1>6, TextTells
    <2>. QED
      BY <1>5, <1>8, <2>1
<1>. QED
    BY <1>9, <1>10, <1>11

\* audit_verify does not miss rows that are taken off the end.
THEOREM EndsNotMissed ==
    ASSUME NEW S, NEW log \in Seq(S), NEW n \in 0 .. Len(log)
    PROVE  EndNotMissed(log, n)
<1>. DEFINE shorter == SubSeq(log, 1, n)
<1>1. /\ shorter \in Seq(S) /\ Len(shorter) = n
      /\ \A i \in 1 .. n : shorter[i] = log[i]
      /\ n \in Nat /\ n =< Len(log)
    OBVIOUS
<1>. HIDE DEF shorter
<1>2. \A i \in 1 .. n : HashBefore(log, i) = HashBefore(shorter, i)
    BY <1>1, HashesBefore
<1>3. Verified(log) => Verified(shorter)
    BY <1>1, <1>2 DEF Verified
<1>. QED
    BY <1>3 DEF EndNotMissed, shorter

=============================================================================

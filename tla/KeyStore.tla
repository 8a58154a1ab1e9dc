------------------------------ MODULE KeyStore ------------------------------
(***************************************************************************)
(* The key table of the QCG KMS (storage.py, service.py and the key        *)
(* handlers of app.py): keys are generated, rotated, deleted and used to   *)
(* seal data by worker threads that share ONE SQLite connection.           *)
(*                                                                         *)
(* Writers take the store's lock and run a transaction; readers take no    *)
(* lock.  A statement of a transaction is visible at once to every reader, *)
(* because the connection is the same, and is undone if the transaction is *)
(* rolled back.  So the module keeps two tables: "live", what the          *)
(* connection sees, and "db", what is committed and survives a crash.      *)
(* A statement is one step; so is a whole transaction that touches other   *)
(* tables (an audit row), for which only the wait for the lock matters.    *)
(***************************************************************************)
EXTENDS Naturals, FiniteSets

CONSTANTS
    Names,       \* key names
    Pairs,       \* the key pairs generate_keypair may draw; a bound on creations
    Reqs,        \* worker threads that serve requests
    Free,        \* the value of the lock when nobody holds it
    Deletes,     \* whether keys are deleted
    Faults,      \* whether a statement or a COMMIT may raise
    MaxCrashes   \* bound of the crashes

ASSUME ConstantsAssumption ==
    /\ Free \notin Reqs
    /\ {Deletes, Faults} \subseteq BOOLEAN
    /\ MaxCrashes \in Nat

VARIABLES
    db,       \* table kms_keys as committed
    live,     \* table kms_keys as the shared connection sees it
    lock,     \* the thread that holds Storage._lock, or Free
    req,      \* what each worker thread is doing
    sealed,   \* envelopes and wrapped keys that clients have received
    drawn,    \* the pairs generate_keypair has drawn
    retired,  \* the pairs that a committed rotation or deletion superseded
    crashes   \* number of crashes so far

vars == <<db, live, lock, req, sealed, drawn, retired, crashes>>

-----------------------------------------------------------------------------
(* Types *)

Row == [name : Names, version : Nat, pair : Pairs, active : BOOLEAN]

\* The pair is the one whose public half sealed the data.  The envelope names
\* only the key and the version.
Envelope == [key : Names, version : Nat, pair : Pairs]

Idle == [pc |-> "idle"]
Creation == [pc : {"lock", "demote", "insert", "commit", "reply"},
             op : {"generate", "rotate"}, key : Names, pair : Pairs, version : Nat]
Deletion == [pc : {"commit", "reply"}, op : {"delete"}, key : Names]
Request ==
    {Idle} \union Creation \union Deletion
    \union [pc : {"seal"}, env : Envelope]
    \union [pc : {"missing"}, key : Names]

TypeOK ==
    /\ db \subseteq Row
    /\ live \subseteq Row
    /\ lock \in Reqs \union {Free}
    /\ req \in [Reqs -> Request]
    /\ sealed \subseteq Envelope
    /\ drawn \subseteq Pairs
    /\ retired \subseteq Pairs
    /\ crashes \in Nat

-----------------------------------------------------------------------------
(* Reads of a table *)

RowsOf(T, n)    == {row \in T : row.name = n}
ActiveKey(n)    == {row \in RowsOf(live, n) : row.active}
VersionsOf(T, n) == {row.version : row \in RowsOf(T, n)}

\* (row["v"] or 0) + 1
NextVersion(n) ==
    LET vs == {0} \union VersionsOf(live, n)
    IN  {v + 1 : v \in {w \in vs : \A u \in vs : u =< w}}

-----------------------------------------------------------------------------
Init ==
    /\ db = {}
    /\ live = {}
    /\ lock = Free
    /\ req = [r \in Reqs |-> Idle]
    /\ sealed = {}
    /\ drawn = {}
    /\ retired = {}
    /\ crashes = 0

-----------------------------------------------------------------------------
(* POST /api/keys and POST /api/keys/{name}/rotate *)

\* The pair is drawn before the store is called.
StartCreate(r, op, n) ==
    \E p \in Pairs \ drawn :
        /\ drawn' = drawn \union {p}
        /\ req' = [req EXCEPT ![r] =
                     [pc |-> "lock", op |-> op, key |-> n, pair |-> p, version |-> 0]]

GenerateBegin(r, n) ==
    /\ req[r] = Idle
    /\ StartCreate(r, "generate", n)
    /\ UNCHANGED <<db, live, lock, sealed, retired, crashes>>

\* rotate_key asks for the active key, without the lock, and answers 404 if it
\* finds none.
RotateBegin(r, n) ==
    /\ req[r] = Idle
    /\ ActiveKey(n) # {}
    /\ StartCreate(r, "rotate", n)
    /\ UNCHANGED <<db, live, lock, sealed, retired, crashes>>

\* (mutant) the version is chosen without waiting for the lock
CreateLockNoWait(r) ==
    /\ req[r].pc = "lock"
    /\ lock' = r
    /\ \E v \in NextVersion(req[r].key) :
         req' = [req EXCEPT ![r].pc = IF v > 1 THEN "demote" ELSE "insert",
                            ![r].version = v]
    /\ UNCHANGED <<db, live, sealed, drawn, retired, crashes>>

\* create_key: the lock, and SELECT MAX(version).
CreateLock(r) ==
    /\ req[r].pc = "lock"
    /\ lock = Free
    /\ lock' = r
    /\ \E v \in NextVersion(req[r].key) :
         req' = [req EXCEPT ![r].pc = IF v > 1 THEN "demote" ELSE "insert",
                            ![r].version = v]
    /\ UNCHANGED <<db, live, sealed, drawn, retired, crashes>>

\* UPDATE kms_keys SET active=0
Demote(T, n) ==
    (T \ RowsOf(T, n)) \union {[row EXCEPT !.active = FALSE] : row \in RowsOf(T, n)}

\* (mutant) the old versions stay active
CreateDemoteSkipped(r) ==
    /\ req[r].pc = "demote"
    /\ req' = [req EXCEPT ![r].pc = "insert"]
    /\ UNCHANGED <<db, live, lock, sealed, drawn, retired, crashes>>

\* (mutant) the old versions are deleted
CreateDemoteDeletes(r) ==
    /\ req[r].pc = "demote"
    /\ live' = live \ RowsOf(live, req[r].key)
    /\ req' = [req EXCEPT ![r].pc = "insert"]
    /\ UNCHANGED <<db, lock, sealed, drawn, retired, crashes>>

\* The old versions are kept, and are no longer active.
CreateDemote(r) ==
    /\ req[r].pc = "demote"
    /\ live' = Demote(live, req[r].key)
    /\ req' = [req EXCEPT ![r].pc = "insert"]
    /\ UNCHANGED <<db, lock, sealed, drawn, retired, crashes>>

CreateInsert(r) ==
    /\ req[r].pc = "insert"
    /\ live' = live \union {[name |-> req[r].key, version |-> req[r].version,
                             pair |-> req[r].pair, active |-> TRUE]}
    /\ req' = [req EXCEPT ![r].pc = "commit"]
    /\ UNCHANGED <<db, lock, sealed, drawn, retired, crashes>>

-----------------------------------------------------------------------------
(* DELETE /api/keys/{name}: the lock and the statement; 404 if no row goes *)

DeleteRows(r, n) ==
    /\ Deletes
    /\ req[r] = Idle
    /\ lock = Free
    /\ RowsOf(live, n) # {}
    /\ lock' = r
    /\ live' = live \ RowsOf(live, n)
    /\ req' = [req EXCEPT ![r] = [pc |-> "commit", op |-> "delete", key |-> n]]
    /\ UNCHANGED <<db, sealed, drawn, retired, crashes>>

-----------------------------------------------------------------------------
(* The end of a writer *)

Commit(r) ==
    /\ req[r].pc = "commit"
    /\ db' = live
    /\ lock' = Free
    /\ retired' = retired \union {row.pair : row \in RowsOf(db, req[r].key)}
    /\ req' = [req EXCEPT ![r].pc = "reply"]
    /\ UNCHANGED <<live, sealed, drawn, crashes>>

\* The audit row waits for the lock; then the response is sent.
Reply(r) ==
    /\ req[r].pc = "reply"
    /\ lock = Free
    /\ req' = [req EXCEPT ![r] = Idle]
    /\ UNCHANGED <<db, live, lock, sealed, drawn, retired, crashes>>

\* (mutant) the lock is released, and the transaction is left open
AbortNoRollback(r) ==
    /\ Faults
    /\ lock = r
    /\ lock' = Free
    /\ req' = [req EXCEPT ![r] = Idle]
    /\ UNCHANGED <<db, live, sealed, drawn, retired, crashes>>

\* A statement, or the COMMIT, raises: the transaction is rolled back.
Abort(r) ==
    /\ Faults
    /\ lock = r
    /\ live' = db
    /\ lock' = Free
    /\ req' = [req EXCEPT ![r] = Idle]
    /\ UNCHANGED <<db, sealed, drawn, retired, crashes>>

-----------------------------------------------------------------------------
(* POST /api/encrypt and /api/datakey/generate: get_active_key, the crypto, *)
(* and the audit row before the response                                    *)

\* The one row with active=1 is read; its public key seals the data.
EncryptRead(r, n) ==
    /\ req[r] = Idle
    /\ \E row \in ActiveKey(n) :
         req' = [req EXCEPT ![r] =
                   [pc |-> "seal", env |-> [key |-> n, version |-> row.version,
                                            pair |-> row.pair]]]
    /\ UNCHANGED <<db, live, lock, sealed, drawn, retired, crashes>>

EncryptReply(r) ==
    /\ req[r].pc = "seal"
    /\ lock = Free
    /\ sealed' = sealed \union {req[r].env}
    /\ req' = [req EXCEPT ![r] = Idle]
    /\ UNCHANGED <<db, live, lock, drawn, retired, crashes>>

\* The audit row fails: 500, and no envelope.
EncryptError(r) ==
    /\ Faults
    /\ req[r].pc = "seal"
    /\ req' = [req EXCEPT ![r] = Idle]
    /\ UNCHANGED <<db, live, lock, sealed, drawn, retired, crashes>>

\* 404 "key does not exist", for encrypt and for rotate
Missing(r, n) ==
    /\ req[r] = Idle
    /\ ActiveKey(n) = {}
    /\ req' = [req EXCEPT ![r] = [pc |-> "missing", key |-> n]]
    /\ UNCHANGED <<db, live, lock, sealed, drawn, retired, crashes>>

MissingReply(r) ==
    /\ req[r].pc = "missing"
    /\ req' = [req EXCEPT ![r] = Idle]
    /\ UNCHANGED <<db, live, lock, sealed, drawn, retired, crashes>>

-----------------------------------------------------------------------------
(* The process dies; the database it is started on again has only what was *)
(* committed                                                               *)

Crash ==
    /\ crashes < MaxCrashes
    /\ crashes' = crashes + 1
    /\ live' = db
    /\ lock' = Free
    /\ req' = [r \in Reqs |-> Idle]
    /\ UNCHANGED <<db, sealed, drawn, retired>>

-----------------------------------------------------------------------------
Create(r) ==
    \/ \E n \in Names : GenerateBegin(r, n) \/ RotateBegin(r, n)
    \/ CreateLock(r)
    \/ CreateDemote(r)
    \/ CreateInsert(r)

Finish(r) == Commit(r) \/ Reply(r) \/ Abort(r)

Encrypt(r) ==
    \/ \E n \in Names : EncryptRead(r, n) \/ Missing(r, n)
    \/ EncryptReply(r)
    \/ EncryptError(r)
    \/ MissingReply(r)

Next ==
    \/ \E r \in Reqs : Create(r) \/ Finish(r) \/ Encrypt(r)
    \/ \E r \in Reqs, n \in Names : DeleteRows(r, n)
    \/ Crash

Spec == Init /\ [][Next]_vars

-----------------------------------------------------------------------------
(* Safety *)

\* The table of keys: (name, version) is its primary key, versions have no
\* gaps, and the one active version of a name is the newest.
KeyTable(T) ==
    /\ \A a, b \in T : a.name = b.name /\ a.version = b.version => a = b
    /\ \A a \in T : a.version > 0
    /\ \A a \in T : \A v \in 1 .. a.version : v \in VersionsOf(T, a.name)
    /\ \A a \in T : a.active <=> \A b \in RowsOf(T, a.name) : b.version =< a.version

\* Whatever concurrent generations, rotations, deletions, failed statements
\* and crashes do, the committed table is a proper table of keys: no crash
\* leaves a name without an active version or with two.
KeyTableOK == KeyTable(db)

\* Once a rotation or a deletion has committed, no encryption starts with the
\* pair it replaced, although the reader takes no lock.
SealsWithCurrentKey ==
    [][\A r \in Reqs : req'[r].pc = "seal" /\ req[r].pc # "seal"
                         => req'[r].env.pair \notin retired]_vars

\* The rows that hold the private key an envelope names.
KeysFor(e) == {row \in db : row.name = e.key /\ row.version = e.version}

\* "The envelope embeds key and key_version, so decryption finds the right
\* private key automatically" (README.md:98-99): it finds one, and it is the
\* right one.  True while no key is deleted and no transaction fails; it fails
\* when an encryption reads a version that is then rolled back.
EnvelopeFindsItsKey ==
    \A e \in sealed : \E row \in KeysFor(e) : row.pair = e.pair

(* Refinement *)

\* The pair of a version.
PairOf(n, v) == CHOOSE p \in Pairs : \E row \in RowsOf(db, n) :
                    row.version = v /\ row.pair = p

Catalog == INSTANCE KeyCatalog WITH
    versions <- [n \in Names |-> [v \in VersionsOf(db, n) |-> PairOf(n, v)]],
    issued   <- retired \union {row.pair : row \in db}

\* The committed table behaves as a catalog: versions are appended one by one
\* and dropped all at once, whatever the threads and the failures do.
ImplementsCatalog == Catalog!CatalogSpec

=============================================================================

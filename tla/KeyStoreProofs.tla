--------------------------- MODULE KeyStoreProofs ---------------------------
(***************************************************************************)
(* Proofs about KeyStore: type correctness, the key table, the pair every  *)
(* encryption uses, the refinement of KeyCatalog, and, while no key is     *)
(* deleted and no transaction fails, that every envelope finds its key;    *)
(* for any number of names, key pairs and threads.                         *)
(***************************************************************************)
EXTENDS KeyStore, Sequences, SequenceTheorems, TLAPS

-----------------------------------------------------------------------------
(* The inductive invariant *)

Writing  == {"demote", "insert", "commit"}
Creating(q) == q.pc \in {"lock", "demote", "insert", "commit"} /\ q.op # "delete"

\* A thread is inside a transaction exactly when it holds the lock.
LockInv == \A r \in Reqs : req[r].pc \in Writing <=> lock = r

\* Version v is the next one of name n in table T.
IsNext(T, n, v) ==
    /\ v \in Nat \ {0}
    /\ \A row \in RowsOf(T, n) : row.version < v
    /\ \A w \in 1 .. v - 1 : w \in VersionsOf(T, n)

NewRow(q) == [name |-> q.key, version |-> q.version, pair |-> q.pair, active |-> TRUE]

\* How far the live table L is ahead of the committed table D while request q
\* is inside a transaction; without a transaction they are the same.
LiveFor(D, L, q) ==
    /\ q.pc \in Writing /\ q.op # "delete" => IsNext(D, q.key, q.version)
    /\ q.pc = "demote" => L = D
    /\ q.pc = "insert" => L = Demote(D, q.key)
    /\ q.pc = "commit" /\ q.op # "delete" => L = Demote(D, q.key) \union {NewRow(q)}
    /\ q.pc = "commit" /\ q.op = "delete" => L = D \ RowsOf(D, q.key)

LiveInv ==
    /\ lock = Free => live = db
    /\ \A r \in Reqs : LiveFor(db, live, req[r])

PairsOf(T) == {row.pair : row \in T}

\* A pair serves one row, ever; an active row's pair was never superseded.
PairInv ==
    /\ retired \union PairsOf(db) \subseteq drawn
    /\ \A a, b \in db : a.pair = b.pair => a = b
    /\ \A row \in db : row.active => row.pair \notin retired
    /\ \A r \in Reqs : Creating(req[r]) =>
         /\ req[r].pair \in drawn
         /\ req[r].pair \notin retired \union PairsOf(db)
         /\ \A s \in Reqs : Creating(req[s]) /\ req[s].pair = req[r].pair => s = r

IInv == TypeOK /\ LockInv /\ KeyTableOK /\ LiveInv /\ PairInv

-----------------------------------------------------------------------------
(* Lemmas about tables *)

\* Row d is what demoting name n makes of a row.
Demoted(row, d, n) ==
    /\ d.name = row.name /\ d.version = row.version /\ d.pair = row.pair
    /\ row.name = n => d.active = FALSE
    /\ row.name # n => d = row

\* Demoting a name keeps every row's name, version and pair, and clears the
\* active flag of that name's rows.
LEMMA DemoteRows ==
    ASSUME NEW T \in SUBSET Row, NEW n \in Names
    PROVE  /\ Demote(T, n) \in SUBSET Row
           /\ \A row \in T : \E d \in Demote(T, n) : Demoted(row, d, n)
           /\ \A d \in Demote(T, n) : \E row \in T : Demoted(row, d, n)
<1>1. \A row \in T : row.name # n => Demoted(row, row, n)
    BY DEF Demoted, Row
<1>2. \A row \in RowsOf(T, n) : LET d == [row EXCEPT !.active = FALSE] IN
        d \in Row /\ Demoted(row, d, n)
    BY DEF Demoted, Row, RowsOf
<1>3. Demote(T, n) \in SUBSET Row
    BY <1>2 DEF Demote, RowsOf
<1>4. ASSUME NEW row \in T PROVE \E d \in Demote(T, n) : Demoted(row, d, n)
    <2>1. CASE row.name = n
        BY <2>1, <1>2 DEF Demote, RowsOf
    <2>2. CASE row.name # n
        BY <2>2, <1>1 DEF Demote, RowsOf
    <2>. QED
        BY <2>1, <2>2
<1>5. ASSUME NEW d \in Demote(T, n) PROVE \E row \in T : Demoted(row, d, n)
    <2>1. CASE d \in T \ RowsOf(T, n)
        BY <2>1, <1>1 DEF RowsOf
    <2>2. CASE d \notin T \ RowsOf(T, n)
        <3>1. PICK row \in RowsOf(T, n) : d = [row EXCEPT !.active = FALSE]
            BY <2>2 DEF Demote
        <3>. QED
            BY <3>1, <1>2 DEF RowsOf
    <2>. QED
        BY <2>1, <2>2
<1>. QED
    BY <1>3, <1>4, <1>5

\* Demoting a name that has no rows changes nothing.
LEMMA DemoteNothing ==
    ASSUME NEW T \in SUBSET Row, NEW n \in Names, RowsOf(T, n) = {}
    PROVE  Demote(T, n) = T
BY DEF Demote

\* A new version of a name turns a proper table into a proper table.
LEMMA AppendKeepsTable ==
    ASSUME NEW T \in SUBSET Row, NEW n \in Names, NEW v, NEW p \in Pairs,
           KeyTable(T), IsNext(T, n, v)
    PROVE  KeyTable(Demote(T, n) \union
                    {[name |-> n, version |-> v, pair |-> p, active |-> TRUE]})
<1> DEFINE new == [name |-> n, version |-> v, pair |-> p, active |-> TRUE]
           U == Demote(T, n) \union {new}
<1>1. new \in Row /\ U \in SUBSET Row /\ new \in U
    <2>1. new \in Row
        BY DEF Row, IsNext
    <2>2. Demote(T, n) \in SUBSET Row
        BY DemoteRows
    <2>. QED
        BY <2>1, <2>2
<1>2. \A d \in U : d = new \/ \E row \in T : Demoted(row, d, n)
    BY DemoteRows
<1>3. \A row \in T : \E d \in U : Demoted(row, d, n)
    BY DemoteRows
<1>4. \A row \in T : row.name = n => row.version < v
    BY DEF IsNext, RowsOf
<1>5. new.name = n /\ new.version = v /\ new.active = TRUE
    OBVIOUS
<1> HIDE DEF new, U
<1>6. \A m : VersionsOf(T, m) \subseteq VersionsOf(U, m)
    BY <1>3 DEF VersionsOf, RowsOf, Demoted
<1>7. ASSUME NEW a \in U, NEW b \in U, a.name = b.name, a.version = b.version
      PROVE  a = b
    <2>1. CASE a = new \/ b = new
        BY <2>1, <1>7, <1>2, <1>4, <1>5, <1>1 DEF Demoted, Row
    <2>2. CASE a # new /\ b # new
        <3>1. PICK s \in T : Demoted(s, a, n)
            BY <2>2, <1>2
        <3>2. PICK t \in T : Demoted(t, b, n)
            BY <2>2, <1>2
        <3>3. s = t
            BY <3>1, <3>2, <1>7 DEF KeyTable, Demoted
        <3>4. a.active = b.active /\ a.pair = b.pair
            BY <3>1, <3>2, <3>3 DEF Demoted
        <3>. QED
            BY <3>4, <1>7, <1>1 DEF Row
    <2>. QED
        BY <2>1, <2>2
<1>8. ASSUME NEW a \in U
      PROVE  a.version > 0 /\ \A w \in 1 .. a.version : w \in VersionsOf(U, a.name)
    <2>1. CASE a = new
        <3>1. v \in VersionsOf(U, n)
            BY <1>1, <1>5 DEF VersionsOf, RowsOf
        <3>2. \A w \in 1 .. v : w \in 1 .. v - 1 \/ w = v
            BY DEF IsNext
        <3>3. \A w \in 1 .. v : w \in VersionsOf(U, n)
            BY <3>1, <3>2, <1>6 DEF IsNext
        <3>. QED
            BY <2>1, <3>3, <1>5 DEF IsNext
    <2>2. CASE a # new
        <3>1. PICK s \in T : Demoted(s, a, n)
            BY <2>2, <1>2
        <3>2. s.version > 0 /\ \A w \in 1 .. s.version : w \in VersionsOf(T, s.name)
            BY DEF KeyTable
        <3>. QED
            BY <3>1, <3>2, <1>6 DEF Demoted
    <2>. QED
        BY <2>1, <2>2
<1>9. ASSUME NEW a \in U
      PROVE  a.active <=> \A b \in RowsOf(U, a.name) : b.version =< a.version
    <2>1. CASE a = new
        <3>1. ASSUME NEW b \in RowsOf(U, n) PROVE b.version =< v
            <4>1. CASE b = new
                BY <4>1, <1>5 DEF IsNext
            <4>2. CASE b # new
                <5>1. PICK t \in T : Demoted(t, b, n)
                    BY <4>2, <1>2 DEF RowsOf
                <5>2. t.version < v /\ t.version \in Nat /\ b.version = t.version
                    BY <5>1, <1>4 DEF Demoted, RowsOf, Row
                <5>. QED
                    BY <5>2 DEF IsNext
            <4>. QED
                BY <4>1, <4>2
        <3>. QED
            BY <2>1, <3>1, <1>5
    <2>2. CASE a # new /\ a.name = n
        <3>1. PICK s \in T : Demoted(s, a, n)
            BY <2>2, <1>2
        <3>2. a.active = FALSE /\ a.version < v /\ a.version \in Nat
            BY <3>1, <2>2, <1>4 DEF Demoted, Row
        <3>3. new \in RowsOf(U, a.name)
            BY <2>2, <1>1, <1>5 DEF RowsOf
        <3>. QED
            BY <3>2, <3>3, <1>5 DEF IsNext
    <2>3. CASE a # new /\ a.name # n
        <3>1. PICK s \in T : Demoted(s, a, n)
            BY <2>3, <1>2
        <3>2. a \in T
            BY <2>3, <3>1 DEF Demoted
        <3>3. a.active <=> \A b \in RowsOf(T, a.name) : b.version =< a.version
            BY <3>2 DEF KeyTable
        <3>4. RowsOf(U, a.name) \subseteq RowsOf(T, a.name)
            <4> SUFFICES ASSUME NEW b \in RowsOf(U, a.name) PROVE b \in RowsOf(T, a.name)
                OBVIOUS
            <4>1. PICK t \in T : Demoted(t, b, n)
                BY <2>3, <1>2, <1>5 DEF RowsOf
            <4>. QED
                BY <4>1, <2>3 DEF Demoted, RowsOf
        <3>5. RowsOf(T, a.name) \subseteq RowsOf(U, a.name)
            BY <2>3, <1>3 DEF Demoted, RowsOf
        <3>. QED
            BY <3>3, <3>4, <3>5
    <2>. QED
        BY <2>1, <2>2, <2>3
<1>10. KeyTable(U)
    BY <1>7, <1>8, <1>9 DEF KeyTable
<1>. QED
    BY <1>10 DEF U, new

\* A table without one of its names is still a proper table.
LEMMA DropKeepsTable ==
    ASSUME NEW T \in SUBSET Row, NEW n \in Names, KeyTable(T)
    PROVE  KeyTable(T \ RowsOf(T, n))
<1> DEFINE U == T \ RowsOf(T, n)
<1>1. \A a \in U : RowsOf(U, a.name) = RowsOf(T, a.name)
    BY DEF RowsOf
<1>. QED
    BY <1>1 DEF KeyTable, VersionsOf, RowsOf

\* NextVersion yields the next version of a name in a proper table.
LEMMA NextVersionIsNext ==
    ASSUME live \in SUBSET Row, KeyTable(live), NEW n \in Names,
           NEW v \in NextVersion(n)
    PROVE  /\ IsNext(live, n, v)
           /\ v = 1 => RowsOf(live, n) = {}
<1> DEFINE vs == {0} \union VersionsOf(live, n)
<1>1. PICK w \in vs : v = w + 1 /\ \A u \in vs : u =< w
    BY DEF NextVersion
<1>2. vs \subseteq Nat
    BY DEF VersionsOf, RowsOf, Row
<1>3. \A row \in RowsOf(live, n) : row.version \in vs /\ row.version \in Nat \ {0}
    BY DEF VersionsOf, RowsOf, Row, KeyTable
<1>4. \A row \in RowsOf(live, n) : row.version < v
    BY <1>1, <1>2, <1>3
<1>5. \A u \in 1 .. v - 1 : u \in VersionsOf(live, n)
    <2>1. CASE w = 0
        BY <2>1, <1>1
    <2>2. CASE w # 0
        <3>1. PICK row \in RowsOf(live, n) : row.version = w
            BY <2>2 DEF VersionsOf
        <3>. QED
            BY <3>1, <1>1, <1>2 DEF KeyTable, RowsOf
    <2>. QED
        BY <2>1, <2>2
<1>. QED
    BY <1>1, <1>2, <1>3, <1>4, <1>5 DEF IsNext

-----------------------------------------------------------------------------
(* Types *)

\* A request in the middle of a creation is a record of that shape.
LEMMA CreationType ==
    ASSUME TypeOK, NEW r \in Reqs, req[r].pc \in {"lock", "demote", "insert"}
    PROVE  req[r] \in Creation
BY DEF TypeOK, Request, Creation, Deletion, Idle

\* Moving a writer on changes its program counter and nothing else of it.
LEMMA Advance ==
    ASSUME TypeOK, NEW r \in Reqs, req[r] \in Creation \union Deletion, NEW c,
           req' = [req EXCEPT ![r].pc = c]
    PROVE  /\ req'[r].pc = c
           /\ req'[r].op = req[r].op /\ req'[r].key = req[r].key
           /\ req[r] \in Creation =>
                req'[r].version = req[r].version /\ req'[r].pair = req[r].pair
           /\ \A s \in Reqs \ {r} : req'[s] = req[s]
<1>1. req'[r] = [req[r] EXCEPT !.pc = c] /\ \A s \in Reqs \ {r} : req'[s] = req[s]
    BY DEF TypeOK
<1>. QED
    BY <1>1 DEF Creation, Deletion

\* The steps of a writer after create_key's first one, in these terms.
LEMMA WriterStep ==
    ASSUME TypeOK, NEW r \in Reqs, CreateDemote(r) \/ CreateInsert(r) \/ Commit(r)
    PROVE  /\ req[r] \in Creation \union Deletion
           /\ req[r].pc # "commit" => req[r] \in Creation
           /\ req[r].pc = "demote" => CreateDemote(r) /\ req'[r].pc = "insert"
           /\ req[r].pc = "insert" => CreateInsert(r) /\ req'[r].pc = "commit"
           /\ req[r].pc = "commit" => Commit(r) /\ req'[r].pc = "reply"
           /\ req[r].pc \in {"demote", "insert", "commit"}
           /\ req'[r].op = req[r].op /\ req'[r].key = req[r].key
           /\ req[r] \in Creation =>
                req'[r].version = req[r].version /\ req'[r].pair = req[r].pair
           /\ \A s \in Reqs \ {r} : req'[s] = req[s]
<1>1. req[r] \in Creation \union Deletion /\ (req[r].pc # "commit" => req[r] \in Creation)
    BY DEF TypeOK, Request, Creation, Deletion, Idle, CreateDemote, CreateInsert, Commit
<1>2. CASE CreateDemote(r)
    <2>1. req[r].pc = "demote" /\ req' = [req EXCEPT ![r].pc = "insert"]
        BY <1>2 DEF CreateDemote
    <2>. QED
        BY <1>1, <1>2, <2>1, Advance
<1>3. CASE CreateInsert(r)
    <2>1. req[r].pc = "insert" /\ req' = [req EXCEPT ![r].pc = "commit"]
        BY <1>3 DEF CreateInsert
    <2>. QED
        BY <1>1, <1>3, <2>1, Advance
<1>4. CASE Commit(r)
    <2>1. req[r].pc = "commit" /\ req' = [req EXCEPT ![r].pc = "reply"]
        BY <1>4 DEF Commit
    <2>. QED
        BY <1>1, <1>4, <2>1, Advance
<1>. QED
    BY <1>2, <1>3, <1>4

\* What create_key's first step does to the request: it has the next version
\* of its key, and goes on to demote older versions if there are any.
LEMMA CreateLockEffect ==
    ASSUME TypeOK, KeyTableOK, LiveInv, NEW r \in Reqs, CreateLock(r)
    PROVE  /\ live = db
           /\ req'[r] \in Creation
           /\ req'[r].pc = IF req'[r].version > 1 THEN "demote" ELSE "insert"
           /\ req'[r].key = req[r].key /\ req'[r].pair = req[r].pair
           /\ req'[r].op = req[r].op
           /\ \A s \in Reqs \ {r} : req'[s] = req[s]
           /\ IsNext(db, req'[r].key, req'[r].version)
           /\ req'[r].version = 1 => RowsOf(db, req'[r].key) = {}
<1>1. live = db /\ req[r] \in Creation
    BY CreationType DEF CreateLock, LiveInv
<1>2. PICK v \in NextVersion(req[r].key) :
        req' = [req EXCEPT ![r].pc = IF v > 1 THEN "demote" ELSE "insert",
                           ![r].version = v]
    BY DEF CreateLock
<1>3. IsNext(db, req[r].key, v) /\ (v = 1 => RowsOf(db, req[r].key) = {})
    BY <1>1, <1>2, NextVersionIsNext DEF TypeOK, KeyTableOK, Creation
<1>4. req'[r] = [req[r] EXCEPT !.pc = IF v > 1 THEN "demote" ELSE "insert",
                               !.version = v]
    BY <1>2 DEF TypeOK
<1>5. \A s \in Reqs \ {r} : req'[s] = req[s]
    BY <1>2 DEF TypeOK
<1>6. v \in Nat
    BY <1>3 DEF IsNext
<1>. QED
    BY <1>1, <1>3, <1>4, <1>5, <1>6 DEF Creation

\* Every step keeps every variable within its type.
LEMMA TypeStep == TypeOK /\ KeyTableOK /\ LiveInv /\ LockInv /\ [Next]_vars => TypeOK'
<1> SUFFICES ASSUME TypeOK, KeyTableOK, LiveInv, LockInv, [Next]_vars PROVE TypeOK'
    OBVIOUS
<1> USE DEF TypeOK
<1>1. ASSUME NEW r \in Reqs, NEW n \in Names, GenerateBegin(r, n) \/ RotateBegin(r, n)
      PROVE  TypeOK'
    BY <1>1 DEF GenerateBegin, RotateBegin, StartCreate, Request, Creation
<1>2. ASSUME NEW r \in Reqs, CreateLock(r)
      PROVE  TypeOK'
    <2>1. req'[r] \in Request /\ \A s \in Reqs \ {r} : req'[s] = req[s]
        BY <1>2, CreateLockEffect DEF Request
    <2>2. DOMAIN req' = Reqs /\ req' = [s \in Reqs |-> req'[s]]
        BY <1>2 DEF CreateLock
    <2>3. req' \in [Reqs -> Request]
        BY <2>1, <2>2
    <2>. QED
        BY <1>2, <2>3 DEF CreateLock
<1>3. ASSUME NEW r \in Reqs, CreateDemote(r)
      PROVE  TypeOK'
    <2>1. req[r].key \in Names
        BY <1>3 DEF CreateDemote, Request, Creation, Deletion, Idle
    <2>2. live' \subseteq Row
        BY <1>3, <2>1, DemoteRows DEF CreateDemote
    <2>3. req' \in [Reqs -> Request]
        BY <1>3 DEF CreateDemote, Request, Creation, Deletion, Idle
    <2>. QED
        BY <1>3, <2>2, <2>3 DEF CreateDemote
<1>4. ASSUME NEW r \in Reqs, CreateInsert(r)
      PROVE  TypeOK'
    <2>1. req[r] \in Creation
        BY <1>4, CreationType DEF CreateInsert
    <2>2. NewRow(req[r]) \in Row
        BY <2>1 DEF NewRow, Creation, Row
    <2>3. live' \subseteq Row
        BY <1>4, <2>2 DEF CreateInsert, NewRow
    <2>4. req' \in [Reqs -> Request]
        BY <1>4 DEF CreateInsert, Request, Creation, Deletion, Idle
    <2>. QED
        BY <1>4, <2>3, <2>4 DEF CreateInsert
<1>5. ASSUME NEW r \in Reqs, NEW n \in Names, DeleteRows(r, n)
      PROVE  TypeOK'
    BY <1>5 DEF DeleteRows, Request, Deletion
<1>6. ASSUME NEW r \in Reqs, Commit(r)
      PROVE  TypeOK'
    <2>1. req' \in [Reqs -> Request]
        BY <1>6 DEF Commit, Request, Creation, Deletion, Idle
    <2>2. retired' \subseteq Pairs
        BY <1>6 DEF Commit, RowsOf, Row
    <2>. QED
        BY <1>6, <2>1, <2>2 DEF Commit
<1>7. ASSUME NEW r \in Reqs, Reply(r) \/ Abort(r)
      PROVE  TypeOK'
    BY <1>7 DEF Reply, Abort, Request
<1>8. ASSUME NEW r \in Reqs, NEW n \in Names, EncryptRead(r, n)
      PROVE  TypeOK'
    BY <1>8 DEF EncryptRead, ActiveKey, RowsOf, Row, Envelope, Request
<1>9. ASSUME NEW r \in Reqs, EncryptReply(r)
      PROVE  TypeOK'
    BY <1>9 DEF EncryptReply, Request, Creation, Deletion, Idle
<1>10. ASSUME NEW r \in Reqs, NEW n \in Names, Missing(r, n)
       PROVE  TypeOK'
    BY <1>10 DEF Missing, Request
<1>11. ASSUME NEW r \in Reqs, EncryptError(r) \/ MissingReply(r)
       PROVE  TypeOK'
    BY <1>11 DEF EncryptError, MissingReply, Request
<1>12. CASE Crash
    BY <1>12 DEF Crash, Request
<1>13. CASE UNCHANGED vars
    BY <1>13 DEF vars
<1>. QED
    BY <1>1, <1>2, <1>3, <1>4, <1>5, <1>6, <1>7, <1>8, <1>9, <1>10, <1>11, <1>12, <1>13
       DEF Next, Create, Finish, Encrypt

-----------------------------------------------------------------------------
(* The lock *)

\* The steps that neither take the lock nor touch a table or a writer.
Reading == \E r \in Reqs :
    \/ \E n \in Names : EncryptRead(r, n) \/ Missing(r, n)
    \/ EncryptReply(r)
    \/ EncryptError(r)
    \/ MissingReply(r)
    \/ Reply(r)

\* Such a step changes one request, which is no writer before or after it.
LEMMA ReadingStep ==
    ASSUME TypeOK, Reading
    PROVE  /\ UNCHANGED <<db, live, lock, drawn, retired>>
           /\ \E r \in Reqs :
                /\ req[r].pc \notin {"lock", "demote", "insert", "commit"}
                /\ req'[r].pc \notin {"lock", "demote", "insert", "commit"}
                /\ \A s \in Reqs \ {r} : req'[s] = req[s]
BY DEF TypeOK, Reading, EncryptRead, Missing, EncryptReply, EncryptError, MissingReply,
       Reply, Idle

\* Only the holder of the lock is inside a transaction.
LEMMA LockStep ==
    TypeOK /\ KeyTableOK /\ LiveInv /\ LockInv /\ [Next]_vars => LockInv'
<1> SUFFICES ASSUME TypeOK, KeyTableOK, LiveInv, LockInv, [Next]_vars PROVE LockInv'
    OBVIOUS
<1> USE ConstantsAssumption DEF LockInv, Writing
<1>1. ASSUME NEW r \in Reqs, NEW n \in Names, GenerateBegin(r, n) \/ RotateBegin(r, n)
      PROVE  LockInv'
    BY <1>1 DEF TypeOK, GenerateBegin, RotateBegin, StartCreate, Idle
<1>2. ASSUME NEW r \in Reqs, CreateLock(r)
      PROVE  LockInv'
    <2>1. /\ req'[r].pc \in {"demote", "insert"}
          /\ \A s \in Reqs \ {r} : req'[s] = req[s]
        BY <1>2, CreateLockEffect
    <2>2. lock = Free /\ lock' = r
        BY <1>2 DEF CreateLock
    <2>. QED
        BY <2>1, <2>2
<1>3. ASSUME NEW r \in Reqs, CreateDemote(r) \/ CreateInsert(r) \/ Commit(r)
      PROVE  LockInv'
    BY <1>3, WriterStep DEF CreateDemote, CreateInsert, Commit
<1>4. ASSUME NEW r \in Reqs, NEW n \in Names, DeleteRows(r, n)
      PROVE  LockInv'
    BY <1>4 DEF TypeOK, DeleteRows, Idle
<1>5. ASSUME NEW r \in Reqs, Abort(r)
      PROVE  LockInv'
    BY <1>5 DEF TypeOK, Abort, Idle
<1>6. CASE Reading
    BY <1>6, ReadingStep
<1>7. CASE Crash
    BY <1>7 DEF Crash, Idle
<1>8. CASE UNCHANGED vars
    BY <1>8 DEF vars
<1>. QED
    BY <1>1, <1>2, <1>3, <1>4, <1>5, <1>6, <1>7, <1>8
       DEF Next, Create, Finish, Encrypt, Reading

-----------------------------------------------------------------------------
(* The committed table and the live one *)

\* A transaction commits a proper table.
LEMMA CommitTable ==
    ASSUME TypeOK, KeyTableOK, LiveInv, NEW r \in Reqs, req[r].pc = "commit"
    PROVE  KeyTable(live)
<1>1. req[r].key \in Names /\ db \in SUBSET Row /\ KeyTable(db)
    BY DEF TypeOK, KeyTableOK, Request, Creation, Deletion, Idle
<1>2. CASE req[r].op = "delete"
    <2>1. live = db \ RowsOf(db, req[r].key)
        BY <1>2 DEF LiveInv, LiveFor
    <2>. QED
        BY <2>1, <1>1, DropKeepsTable
<1>3. CASE req[r].op # "delete"
    <2>1. req[r].op \in {"generate", "rotate"} /\ req[r].pair \in Pairs
        BY <1>3 DEF TypeOK, Request, Creation, Deletion, Idle
    <2>2. live = Demote(db, req[r].key) \union {NewRow(req[r])}
        BY <1>3 DEF LiveInv, LiveFor
    <2>3. IsNext(db, req[r].key, req[r].version)
        BY <2>1 DEF LiveInv, LiveFor, Writing
    <2>. QED
        BY <2>1, <2>2, <2>3, <1>1, AppendKeepsTable DEF NewRow
<1>. QED
    BY <1>2, <1>3

\* The committed table stays a proper table: only a commit changes it.
LEMMA TableStep == TypeOK /\ KeyTableOK /\ LiveInv /\ [Next]_vars => KeyTableOK'
<1> SUFFICES ASSUME TypeOK, KeyTableOK, LiveInv, [Next]_vars PROVE KeyTableOK'
    OBVIOUS
<1>1. ASSUME NEW r \in Reqs, Commit(r)
      PROVE  KeyTableOK'
    BY <1>1, CommitTable DEF Commit, KeyTableOK
<1>2. CASE UNCHANGED db
    BY <1>2 DEF KeyTableOK, KeyTable, VersionsOf, RowsOf
<1>3. UNCHANGED db \/ \E r \in Reqs : Commit(r)
    BY DEF Next, Create, Finish, Encrypt, GenerateBegin, RotateBegin, StartCreate,
       CreateLock, CreateDemote, CreateInsert, DeleteRows, Reply, Abort, EncryptRead,
       Missing, EncryptReply, EncryptError, MissingReply, Crash, vars
<1>. QED
    BY <1>1, <1>2, <1>3

\* The live table is ahead of the committed one by what the lock's holder did.
LEMMA LiveStep ==
    TypeOK /\ LockInv /\ KeyTableOK /\ LiveInv /\ [Next]_vars => LiveInv'
<1> SUFFICES ASSUME TypeOK, LockInv, KeyTableOK, LiveInv, [Next]_vars PROVE LiveInv'
    OBVIOUS
<1>a. \A r, s \in Reqs : req[r].pc \in Writing /\ req[s].pc \in Writing => r = s
    BY DEF LockInv
<1>b. lock = Free => \A r \in Reqs : req[r].pc \notin Writing
    BY ConstantsAssumption DEF LockInv
<1>c. \A D, L, q : q.pc \notin Writing => LiveFor(D, L, q)
    BY DEF LiveFor, Writing
<1>1. ASSUME NEW r \in Reqs, NEW n \in Names, GenerateBegin(r, n) \/ RotateBegin(r, n)
      PROVE  LiveInv'
    <2>1. req'[r].pc \notin Writing /\ \A s \in Reqs \ {r} : req'[s] = req[s]
        BY <1>1 DEF GenerateBegin, RotateBegin, StartCreate, TypeOK, Writing
    <2>2. UNCHANGED <<db, live, lock>>
        BY <1>1 DEF GenerateBegin, RotateBegin
    <2>. QED
        BY <2>1, <2>2, <1>c DEF LiveInv
<1>2. ASSUME NEW r \in Reqs, CreateLock(r)
      PROVE  LiveInv'
    <2>1. /\ live = db
          /\ req'[r] \in Creation
          /\ req'[r].pc = IF req'[r].version > 1 THEN "demote" ELSE "insert"
          /\ IsNext(db, req'[r].key, req'[r].version)
          /\ req'[r].version = 1 => RowsOf(db, req'[r].key) = {}
          /\ \A s \in Reqs \ {r} : req'[s] = req[s]
        BY <1>2, CreateLockEffect
    <2>2. req'[r].version = 1 => Demote(db, req'[r].key) = db
        BY <2>1, DemoteNothing DEF TypeOK, Creation
    <2>3. \A s \in Reqs \ {r} : req'[s].pc \notin Writing
        BY <1>2, <1>b, <2>1 DEF CreateLock
    <2>4. lock' # Free /\ db' = db /\ live' = live
        BY <1>2, ConstantsAssumption DEF CreateLock
    <2>5. req'[r].version \in Nat \ {0}
        BY <2>1 DEF IsNext
    <2>6. LiveFor(db, live, req'[r])
        BY <2>1, <2>2, <2>5 DEF LiveFor
    <2>. QED
        BY <2>3, <2>4, <2>6, <1>c DEF LiveInv
<1>3. ASSUME NEW r \in Reqs, CreateDemote(r) \/ CreateInsert(r)
      PROVE  LiveInv'
    <2>1. req[r] \in Creation /\ req[r].pc \in {"demote", "insert"}
        BY <1>3, WriterStep DEF CreateDemote, CreateInsert
    <2>2. req[r].op # "delete" /\ req'[r].op = req[r].op /\ req'[r].key = req[r].key
          /\ req'[r].version = req[r].version /\ req'[r].pair = req[r].pair
        BY <1>3, <2>1, WriterStep DEF Creation
    <2>3. \A s \in Reqs \ {r} : req'[s] = req[s] /\ req'[s].pc \notin Writing
        BY <1>3, <1>a, <2>1, WriterStep DEF Writing
    <2>4. lock' = lock /\ lock # Free /\ db' = db
        BY <1>3, <1>b, <2>1 DEF CreateDemote, CreateInsert, Writing
    <2>5. NewRow(req'[r]) = NewRow(req[r])
        BY <2>2 DEF NewRow
    <2>6. LiveFor(db, live, req[r])
        BY DEF LiveInv
    <2>7. LiveFor(db, live', req'[r])
        <3>1. CASE CreateDemote(r)
            <4>1. req[r].pc = "demote" /\ req'[r].pc = "insert"
                BY <3>1, WriterStep DEF CreateDemote
            <4>2. live = db /\ live' = Demote(live, req[r].key)
                  /\ IsNext(db, req[r].key, req[r].version)
                BY <3>1, <4>1, <2>2, <2>6 DEF CreateDemote, LiveFor, Writing
            <4>. QED
                BY <4>1, <4>2, <2>2 DEF LiveFor
        <3>2. CASE CreateInsert(r)
            <4>1. req[r].pc = "insert" /\ req'[r].pc = "commit"
                BY <3>2, WriterStep DEF CreateInsert
            <4>2. live = Demote(db, req[r].key) /\ live' = live \union {NewRow(req[r])}
                  /\ IsNext(db, req[r].key, req[r].version)
                BY <3>2, <4>1, <2>2, <2>6 DEF CreateInsert, LiveFor, NewRow, Writing
            <4>. QED
                BY <4>1, <4>2, <2>2, <2>5 DEF LiveFor
        <3>. QED
            BY <1>3, <3>1, <3>2
    <2>. QED
        BY <2>3, <2>4, <2>7, <1>c DEF LiveInv
<1>4. ASSUME NEW r \in Reqs, NEW n \in Names, DeleteRows(r, n)
      PROVE  LiveInv'
    <2>1. req'[r] = [pc |-> "commit", op |-> "delete", key |-> n]
          /\ \A s \in Reqs \ {r} : req'[s] = req[s] /\ req[s].pc \notin Writing
        BY <1>4, <1>b DEF DeleteRows, TypeOK
    <2>2. lock' # Free /\ db' = db /\ live = db /\ live' = live \ RowsOf(live, n)
        BY <1>4, ConstantsAssumption DEF DeleteRows, LiveInv
    <2>3. LiveFor(db, live', req'[r])
        BY <2>1, <2>2 DEF LiveFor
    <2>. QED
        BY <2>1, <2>2, <2>3, <1>c DEF LiveInv
<1>5. ASSUME NEW r \in Reqs, Commit(r) \/ Abort(r)
      PROVE  LiveInv'
    <2>1. req[r].pc \in Writing
        BY <1>5 DEF Commit, Abort, LockInv, Writing
    <2>2. req'[r].pc \notin Writing /\ \A s \in Reqs \ {r} : req'[s] = req[s]
        BY <1>5, WriterStep DEF Commit, Abort, TypeOK, Writing, Idle
    <2>3. live' = db'
        BY <1>5 DEF Commit, Abort
    <2>. QED
        BY <2>1, <2>2, <2>3, <1>a, <1>c DEF LiveInv
<1>6. CASE Reading
    <2>1. UNCHANGED <<db, live, lock>>
        BY <1>6, ReadingStep
    <2>2. PICK r \in Reqs : req'[r].pc \notin Writing /\ \A s \in Reqs \ {r} : req'[s] = req[s]
        BY <1>6, ReadingStep DEF Writing
    <2>. QED
        BY <2>1, <2>2, <1>c DEF LiveInv
<1>7. CASE Crash
    BY <1>7, <1>c DEF Crash, LiveInv, Idle, Writing
<1>8. CASE UNCHANGED vars
    BY <1>8 DEF vars, LiveInv
<1>. QED
    BY <1>1, <1>2, <1>3, <1>4, <1>5, <1>6, <1>7, <1>8
       DEF Next, Create, Finish, Encrypt, Reading

-----------------------------------------------------------------------------
(* Key pairs *)

\* If no table, no set of pairs and no new creation comes with a step, pairs
\* are as unique after it as before.
LEMMA PairKept ==
    ASSUME PairInv, UNCHANGED <<db, drawn, retired>>,
           \A r \in Reqs : Creating(req'[r]) => Creating(req[r]) /\ req'[r].pair = req[r].pair
    PROVE  PairInv'
BY DEF PairInv, PairsOf, Creating

\* A commit puts a pair into the table that no other row or request has, and
\* supersedes the pairs of the key's other rows.
LEMMA PairCommit ==
    ASSUME TypeOK, LiveInv, PairInv, NEW r \in Reqs, Commit(r)
    PROVE  PairInv'
<1>1. /\ req[r].pc = "commit" /\ req'[r].pc = "reply"
      /\ req[r].key \in Names
      /\ req[r] \in Creation \union Deletion
      /\ \A s \in Reqs \ {r} : req'[s] = req[s]
    BY WriterStep DEF Commit, Creation, Deletion
<1>2. /\ db' = live /\ drawn' = drawn
      /\ retired' = retired \union PairsOf(RowsOf(db, req[r].key))
    BY DEF Commit, PairsOf
<1>3. PairsOf(RowsOf(db, req[r].key)) \subseteq PairsOf(db)
    BY DEF PairsOf, RowsOf
<1>4. \A s \in Reqs : Creating(req'[s]) => s # r /\ Creating(req[s]) /\ req'[s] = req[s]
    BY <1>1 DEF Creating
<1>5. CASE req[r].op = "delete"
    <2>1. live = db \ RowsOf(db, req[r].key)
        BY <1>1, <1>5 DEF LiveInv, LiveFor
    <2>2. PairsOf(live) \subseteq PairsOf(db)
        BY <2>1 DEF PairsOf
    <2>3. \A row \in live : row.pair \notin PairsOf(RowsOf(db, req[r].key))
        BY <2>1 DEF PairInv, PairsOf, RowsOf
    <2>4. \A row \in live : row \in db
        BY <2>1
    <2>5. retired' \union PairsOf(live) \subseteq drawn
        BY <1>2, <1>3, <2>2 DEF PairInv
    <2>6. \A row \in live : row.active => row.pair \notin retired'
        BY <1>2, <2>3, <2>4 DEF PairInv
    <2>7. \A s \in Reqs : Creating(req'[s]) =>
            /\ req'[s].pair \in drawn
            /\ req'[s].pair \notin retired' \union PairsOf(live)
            /\ \A t \in Reqs : Creating(req'[t]) /\ req'[t].pair = req'[s].pair => t = s
        BY <1>2, <1>3, <1>4, <2>2 DEF PairInv
    <2>. QED
        BY <1>2, <2>4, <2>5, <2>6, <2>7 DEF PairInv, PairsOf
<1>6. CASE req[r].op # "delete"
    <2> DEFINE p == req[r].pair
    <2>1. live = Demote(db, req[r].key) \union {NewRow(req[r])}
        BY <1>1, <1>6 DEF LiveInv, LiveFor
    <2>2. Creating(req[r]) /\ NewRow(req[r]).pair = p
        BY <1>1, <1>6 DEF Creating, NewRow
    <2>3. p \in drawn /\ p \notin retired \union PairsOf(db)
        BY <2>2 DEF PairInv
    <2>4. \A d \in live : d = NewRow(req[r]) \/ \E row \in db : Demoted(row, d, req[r].key)
        BY <1>1, <2>1, DemoteRows DEF TypeOK
    <2>5. ASSUME NEW d \in live PROVE d.pair \in PairsOf(db) \union {p}
        BY <2>2, <2>4 DEF PairsOf, Demoted
    <2>6. PairsOf(live) \subseteq PairsOf(db) \union {p}
        BY <2>5 DEF PairsOf
    <2>7. retired' \union PairsOf(live) \subseteq drawn
        BY <1>2, <1>3, <2>3, <2>6 DEF PairInv
    <2>8. ASSUME NEW d \in live, NEW e \in live, d.pair = e.pair PROVE d = e
        <3>1. CASE d = NewRow(req[r]) \/ e = NewRow(req[r])
            BY <3>1, <2>8, <2>2, <2>3, <2>4 DEF PairsOf, Demoted
        <3>2. CASE d # NewRow(req[r]) /\ e # NewRow(req[r])
            <4>1. PICK s \in db : Demoted(s, d, req[r].key)
                BY <3>2, <2>4
            <4>2. PICK t \in db : Demoted(t, e, req[r].key)
                BY <3>2, <2>4
            <4>3. s = t
                BY <4>1, <4>2, <2>8 DEF PairInv, Demoted
            <4>4. d \in Row /\ e \in Row
                <5>1. Demote(db, req[r].key) \in SUBSET Row
                    BY <1>1, DemoteRows DEF TypeOK
                <5>. QED
                    BY <5>1, <2>1, <3>2
            <4>5. d.name = e.name /\ d.version = e.version /\ d.active = e.active
                BY <4>1, <4>2, <4>3 DEF Demoted
            <4>. QED
                BY <4>4, <4>5, <2>8 DEF Row
        <3>. QED
            BY <3>1, <3>2
    <2>9. ASSUME NEW d \in live, d.active PROVE d.pair \notin retired'
        <3>1. CASE d = NewRow(req[r])
            BY <3>1, <1>2, <1>3, <2>2, <2>3
        <3>2. CASE d # NewRow(req[r])
            <4>1. PICK s \in db : Demoted(s, d, req[r].key)
                BY <3>2, <2>4
            <4>2. s.name # req[r].key /\ d = s
                BY <4>1, <2>9 DEF Demoted
            <4>3. d.pair \notin PairsOf(RowsOf(db, req[r].key))
                BY <4>2 DEF PairInv, PairsOf, RowsOf
            <4>. QED
                BY <1>2, <2>9, <4>2, <4>3 DEF PairInv
        <3>. QED
            BY <3>1, <3>2
    <2>10. ASSUME NEW s \in Reqs, Creating(req'[s])
           PROVE  /\ req'[s].pair \in drawn
                  /\ req'[s].pair \notin retired' \union PairsOf(live)
                  /\ \A t \in Reqs : Creating(req'[t]) /\ req'[t].pair = req'[s].pair => t = s
        <3>1. s # r /\ Creating(req[s]) /\ req'[s] = req[s]
            BY <2>10, <1>4
        <3>2. req[s].pair # p
            BY <3>1, <2>2 DEF PairInv
        <3>. QED
            BY <3>1, <3>2, <1>2, <1>3, <1>4, <2>6 DEF PairInv
    <2>. QED
        BY <1>2, <2>7, <2>8, <2>9, <2>10 DEF PairInv
<1>. QED
    BY <1>5, <1>6

\* A pair serves one row, ever, and an active row's pair was never superseded.
LEMMA PairStep ==
    TypeOK /\ KeyTableOK /\ LiveInv /\ PairInv /\ [Next]_vars => PairInv'
<1> SUFFICES ASSUME TypeOK, KeyTableOK, LiveInv, PairInv, [Next]_vars PROVE PairInv'
    OBVIOUS
<1>1. ASSUME NEW r \in Reqs, NEW n \in Names, GenerateBegin(r, n) \/ RotateBegin(r, n)
      PROVE  PairInv'
    <2>1. PICK p \in Pairs \ drawn :
            /\ drawn' = drawn \union {p}
            /\ req'[r].pair = p
            /\ \A s \in Reqs \ {r} : req'[s] = req[s]
        BY <1>1 DEF GenerateBegin, RotateBegin, StartCreate, TypeOK
    <2>2. UNCHANGED <<db, retired>>
        BY <1>1 DEF GenerateBegin, RotateBegin
    <2>. QED
        BY <2>1, <2>2 DEF PairInv, PairsOf, Creating
<1>2. ASSUME NEW r \in Reqs, CreateLock(r)
      PROVE  PairInv'
    <2>1. req[r] \in Creation /\ req[r].pc = "lock"
        BY <1>2, CreationType DEF CreateLock
    <2>2. /\ req'[r].pair = req[r].pair
          /\ \A s \in Reqs \ {r} : req'[s] = req[s]
        BY <1>2, CreateLockEffect
    <2>3. UNCHANGED <<db, drawn, retired>>
        BY <1>2 DEF CreateLock
    <2>4. Creating(req[r])
        BY <2>1 DEF Creating, Creation
    <2>. QED
        BY <2>2, <2>3, <2>4, PairKept
<1>3. ASSUME NEW r \in Reqs, CreateDemote(r) \/ CreateInsert(r)
      PROVE  PairInv'
    <2>1. /\ req[r] \in Creation /\ req[r].pc \in {"demote", "insert"}
          /\ req'[r].pair = req[r].pair
          /\ \A s \in Reqs \ {r} : req'[s] = req[s]
        BY <1>3, WriterStep DEF CreateDemote, CreateInsert
    <2>2. UNCHANGED <<db, drawn, retired>>
        BY <1>3 DEF CreateDemote, CreateInsert
    <2>3. Creating(req[r])
        BY <2>1 DEF Creating, Creation
    <2>. QED
        BY <2>1, <2>2, <2>3, PairKept
<1>4. ASSUME NEW r \in Reqs, Commit(r)
      PROVE  PairInv'
    BY <1>4, PairCommit
<1>5. ASSUME NEW r \in Reqs, (\E n \in Names : DeleteRows(r, n)) \/ Abort(r)
      PROVE  PairInv'
    <2>1. ~Creating(req'[r]) /\ \A s \in Reqs \ {r} : req'[s] = req[s]
        BY <1>5 DEF DeleteRows, Abort, TypeOK, Creating, Idle
    <2>2. UNCHANGED <<db, drawn, retired>>
        BY <1>5 DEF DeleteRows, Abort
    <2>. QED
        BY <2>1, <2>2, PairKept
<1>6. CASE Reading
    <2>1. \A r \in Reqs : Creating(req'[r]) => req'[r] = req[r]
        BY <1>6, ReadingStep DEF Creating
    <2>. QED
        BY <1>6, <2>1, ReadingStep, PairKept
<1>7. CASE Crash
    <2>1. \A r \in Reqs : ~Creating(req'[r])
        BY <1>7 DEF Crash, Creating, Idle
    <2>. QED
        BY <1>7, <2>1, PairKept DEF Crash
<1>8. CASE UNCHANGED vars
    BY <1>8, PairKept DEF vars
<1>. QED
    BY <1>1, <1>2, <1>3, <1>4, <1>5, <1>6, <1>7, <1>8
       DEF Next, Create, Finish, Encrypt, Reading

-----------------------------------------------------------------------------
(* The invariant, and what follows from it *)

LEMMA InitInvariant == Init => IInv
BY ConstantsAssumption DEF Init, IInv, TypeOK, LockInv, KeyTableOK, KeyTable, LiveInv,
   LiveFor, PairInv, PairsOf, RowsOf, Creating, Writing, Idle, Request

LEMMA NextInvariant == IInv /\ [Next]_vars => IInv'
BY TypeStep, LockStep, TableStep, LiveStep, PairStep DEF IInv

\* The inductive invariant holds of every behaviour.
THEOREM InvariantHolds == Spec => []IInv
BY InitInvariant, NextInvariant, PTL DEF Spec

\* Every variable keeps its type.
THEOREM TypeCorrect == Spec => []TypeOK
<1>1. IInv => TypeOK
    BY DEF IInv
<1>. QED
    BY <1>1, InvariantHolds, PTL

\* The committed table is a proper table of keys, whatever the threads, the
\* failed statements and the crashes do.
THEOREM KeyTableProper == Spec => []KeyTableOK
<1>1. IInv => KeyTableOK
    BY DEF IInv
<1>. QED
    BY <1>1, InvariantHolds, PTL

\* An active row of the live table, committed or not, has a pair that no
\* committed rotation or deletion superseded.
LEMMA ActiveIsCurrent ==
    ASSUME IInv, NEW row \in live, row.active
    PROVE  row.pair \notin retired
<1>1. row \in db => row.pair \notin retired
    BY DEF IInv, PairInv
<1>2. CASE lock = Free
    BY <1>1, <1>2 DEF IInv, LiveInv
<1>3. CASE lock # Free
    <2>1. PICK r \in Reqs : lock = r
        BY <1>3 DEF IInv, TypeOK
    <2>2. req[r].pc \in Writing /\ LiveFor(db, live, req[r])
        BY <2>1 DEF IInv, LockInv, LiveInv
    <2>3. req[r].key \in Names
        BY <2>2 DEF IInv, TypeOK, Request, Creation, Deletion, Idle, Writing
    <2>4. ASSUME NEW d \in Demote(db, req[r].key), d.active PROVE d \in db
        <3>1. db \in SUBSET Row
            BY DEF IInv, TypeOK
        <3>2. PICK s \in db : Demoted(s, d, req[r].key)
            BY <3>1, <2>3, DemoteRows
        <3>. QED
            BY <3>2, <2>4 DEF Demoted
    <2>5. req[r].pc = "commit" /\ req[r].op # "delete" => NewRow(req[r]).pair \notin retired
        BY DEF IInv, PairInv, Creating, NewRow
    <2>6. row \in db \/ (req[r].pc = "commit" /\ req[r].op # "delete" /\ row = NewRow(req[r]))
        BY <2>2, <2>4 DEF LiveFor, Writing
    <2>. QED
        BY <1>1, <2>5, <2>6
<1>. QED
    BY <1>2, <1>3

\* No encryption starts with a pair that a committed rotation or deletion has
\* superseded, although the reader takes no lock.
THEOREM SealsCurrent == Spec => SealsWithCurrentKey
<1> DEFINE Good == \A r \in Reqs : req'[r].pc = "seal" /\ req[r].pc # "seal"
                                      => req'[r].env.pair \notin retired
<1>1. IInv /\ [Next]_vars => Good
    <2> SUFFICES ASSUME IInv, [Next]_vars, NEW r \in Reqs,
                        req'[r].pc = "seal", req[r].pc # "seal"
                 PROVE  req'[r].env.pair \notin retired
        OBVIOUS
    <2>1. TypeOK /\ KeyTableOK /\ LiveInv
        BY DEF IInv
    <2>2. ASSUME NEW s \in Reqs, NEW n \in Names, EncryptRead(s, n)
          PROVE  req'[r].env.pair \notin retired
        <3>1. PICK row \in ActiveKey(n) :
                req' = [req EXCEPT ![s] = [pc |-> "seal",
                          env |-> [key |-> n, version |-> row.version, pair |-> row.pair]]]
            BY <2>2 DEF EncryptRead
        <3>2. row.pair \notin retired
            BY <3>1, ActiveIsCurrent DEF ActiveKey, RowsOf
        <3>. QED
            BY <2>1, <3>1, <3>2 DEF TypeOK
    <2>3. ASSUME NEW s \in Reqs, NEW n \in Names,
                 \/ GenerateBegin(s, n) \/ RotateBegin(s, n)
                 \/ DeleteRows(s, n) \/ Missing(s, n)
          PROVE  FALSE
        BY <2>1, <2>3 DEF TypeOK, GenerateBegin, RotateBegin, StartCreate, DeleteRows, Missing
    <2>4. ASSUME NEW s \in Reqs, CreateLock(s)
          PROVE  FALSE
        BY <2>1, <2>4, CreateLockEffect
    <2>5. ASSUME NEW s \in Reqs, CreateDemote(s) \/ CreateInsert(s) \/ Commit(s)
          PROVE  FALSE
        BY <2>1, <2>5, WriterStep
    <2>6. ASSUME NEW s \in Reqs,
                 Reply(s) \/ Abort(s) \/ EncryptReply(s) \/ EncryptError(s) \/ MissingReply(s)
          PROVE  FALSE
        <3>1. req' = [req EXCEPT ![s] = Idle]
            BY <2>6 DEF Reply, Abort, EncryptReply, EncryptError, MissingReply
        <3>. QED
            BY <2>1, <3>1 DEF TypeOK, Idle
    <2>7. CASE Crash
        BY <2>7 DEF Crash, Idle
    <2>8. CASE UNCHANGED vars
        BY <2>8 DEF vars
    <2>. QED
        BY <2>2, <2>3, <2>4, <2>5, <2>6, <2>7, <2>8 DEF Next, Create, Finish, Encrypt
<1>. QED
    BY <1>1, InvariantHolds, PTL DEF Spec, SealsWithCurrentKey

-----------------------------------------------------------------------------
(* Envelopes *)

\* Table T holds the row that sealed envelope e.
Holds(T, e) == \E row \in T :
    row.name = e.key /\ row.version = e.version /\ row.pair = e.pair

\* While keys are never deleted: the rows of every envelope a client has are
\* committed, those of an envelope being made are in the live table.
EnvelopeInv ==
    /\ \A e \in sealed : Holds(db, e)
    /\ \A r \in Reqs :
         /\ req[r].pc = "seal" => Holds(live, req[r].env)
         /\ req[r].pc = "commit" => req[r].op # "delete"

\* A demoted table holds what the table held.
LEMMA DemoteHolds ==
    ASSUME NEW T \in SUBSET Row, NEW n \in Names, NEW e, Holds(T, e)
    PROVE  Holds(Demote(T, n), e)
<1>1. PICK row \in T : row.name = e.key /\ row.version = e.version /\ row.pair = e.pair
    BY DEF Holds
<1>2. PICK d \in Demote(T, n) : Demoted(row, d, n)
    BY DemoteRows
<1>. QED
    BY <1>1, <1>2 DEF Holds, Demoted

\* Without deletions and failed transactions every envelope keeps its row.
LEMMA EnvelopeStep ==
    ASSUME ~Deletes, ~Faults, IInv, EnvelopeInv, [Next]_vars
    PROVE  EnvelopeInv'
<1>a. TypeOK /\ KeyTableOK /\ LiveInv /\ LockInv
    BY DEF IInv
<1>1. ASSUME NEW r \in Reqs, NEW n \in Names, GenerateBegin(r, n) \/ RotateBegin(r, n)
      PROVE  EnvelopeInv'
    BY <1>1, <1>a DEF TypeOK, GenerateBegin, RotateBegin, StartCreate, EnvelopeInv
<1>2. ASSUME NEW r \in Reqs, CreateLock(r)
      PROVE  EnvelopeInv'
    <2>1. UNCHANGED <<db, live, sealed>>
        BY <1>2 DEF CreateLock
    <2>2. req'[r].pc \notin {"seal", "commit"} /\ \A s \in Reqs \ {r} : req'[s] = req[s]
        BY <1>2, <1>a, CreateLockEffect
    <2>. QED
        BY <2>1, <2>2 DEF EnvelopeInv
<1>3. ASSUME NEW r \in Reqs, CreateDemote(r) \/ CreateInsert(r) \/ Commit(r)
      PROVE  EnvelopeInv'
    <2>1. /\ req'[r].pc # "seal"
          /\ req'[r].pc = "commit" => req[r] \in Creation /\ req'[r].op = req[r].op
          /\ \A s \in Reqs \ {r} : req'[s] = req[s]
        BY <1>3, <1>a, WriterStep
    <2>2. req'[r].pc = "commit" => req'[r].op # "delete"
        BY <2>1 DEF Creation
    <2>3. ASSUME NEW e, Holds(live, e) PROVE Holds(live', e)
        <3>1. CASE CreateDemote(r)
            <4>1. req[r].key \in Names
                BY <3>1, <1>a, CreationType DEF CreateDemote, Creation
            <4>. QED
                BY <3>1, <4>1, <1>a, <2>3, DemoteHolds DEF CreateDemote, TypeOK
        <3>2. CASE CreateInsert(r) \/ Commit(r)
            BY <3>2, <2>3 DEF CreateInsert, Commit, Holds
        <3>. QED
            BY <1>3, <3>1, <3>2
    <2>4. ASSUME NEW e, Holds(db, e) PROVE Holds(db', e)
        <3>1. CASE Commit(r)
            <4>1. req[r].pc = "commit" /\ req[r].op # "delete" /\ req[r].key \in Names
                BY <3>1, <1>a, WriterStep DEF Commit, EnvelopeInv, Creation, Deletion
            <4>2. Demote(db, req[r].key) \subseteq db'
                BY <3>1, <4>1, <1>a DEF Commit, LiveInv, LiveFor
            <4>3. Holds(Demote(db, req[r].key), e)
                BY <4>1, <1>a, <2>4, DemoteHolds DEF TypeOK
            <4>. QED
                BY <4>2, <4>3 DEF Holds
        <3>2. CASE CreateDemote(r) \/ CreateInsert(r)
            BY <3>2, <2>4 DEF CreateDemote, CreateInsert
        <3>. QED
            BY <1>3, <3>1, <3>2
    <2>5. sealed' = sealed
        BY <1>3 DEF CreateDemote, CreateInsert, Commit
    <2>. QED
        BY <2>1, <2>2, <2>3, <2>4, <2>5 DEF EnvelopeInv
<1>4. ASSUME NEW r \in Reqs, NEW n \in Names, DeleteRows(r, n)
      PROVE  FALSE
    BY <1>4 DEF DeleteRows
<1>5. ASSUME NEW r \in Reqs, NEW n \in Names, EncryptRead(r, n)
      PROVE  EnvelopeInv'
    <2>1. PICK row \in ActiveKey(n) :
            req' = [req EXCEPT ![r] = [pc |-> "seal",
                      env |-> [key |-> n, version |-> row.version, pair |-> row.pair]]]
        BY <1>5 DEF EncryptRead
    <2>2. /\ req'[r].pc = "seal" /\ Holds(live, req'[r].env)
          /\ \A s \in Reqs \ {r} : req'[s] = req[s]
        BY <2>1, <1>a DEF TypeOK, Holds, ActiveKey, RowsOf
    <2>3. UNCHANGED <<db, live, sealed>>
        BY <1>5 DEF EncryptRead
    <2>. QED
        BY <2>2, <2>3 DEF EnvelopeInv
<1>6. ASSUME NEW r \in Reqs, EncryptReply(r)
      PROVE  EnvelopeInv'
    <2>1. Holds(db, req[r].env)
        BY <1>6, <1>a DEF EncryptReply, EnvelopeInv, LiveInv
    <2>2. req'[r] = Idle /\ \A s \in Reqs \ {r} : req'[s] = req[s]
        BY <1>6, <1>a DEF EncryptReply, TypeOK
    <2>3. UNCHANGED <<db, live>> /\ sealed' = sealed \union {req[r].env}
        BY <1>6 DEF EncryptReply
    <2>. QED
        BY <2>1, <2>2, <2>3 DEF EnvelopeInv, Idle
<1>7. ASSUME NEW r \in Reqs, Reply(r) \/ MissingReply(r) \/ \E n \in Names : Missing(r, n)
      PROVE  EnvelopeInv'
    <2>1. UNCHANGED <<db, live, sealed>>
        BY <1>7 DEF Reply, MissingReply, Missing
    <2>2. req'[r].pc \notin {"seal", "commit"} /\ \A s \in Reqs \ {r} : req'[s] = req[s]
        BY <1>7, <1>a DEF Reply, MissingReply, Missing, TypeOK, Idle
    <2>. QED
        BY <2>1, <2>2 DEF EnvelopeInv
<1>8. CASE Crash
    BY <1>8 DEF Crash, EnvelopeInv, Idle
<1>9. CASE UNCHANGED vars
    BY <1>9 DEF vars, EnvelopeInv
<1>10. ASSUME NEW r \in Reqs, Abort(r) \/ EncryptError(r)
       PROVE  FALSE
    BY <1>10 DEF Abort, EncryptError
<1>. QED
    BY <1>1, <1>2, <1>3, <1>4, <1>5, <1>6, <1>7, <1>8, <1>9, <1>10
       DEF Next, Create, Finish, Encrypt

\* While no key is deleted and no transaction fails, every envelope a client
\* has received finds its private key, across rotations and crashes.
THEOREM EnvelopesOpen ==
    ASSUME ~Deletes, ~Faults
    PROVE  Spec => []EnvelopeFindsItsKey
<1>1. Init => EnvelopeInv
    BY DEF Init, EnvelopeInv, Idle
<1>2. IInv /\ EnvelopeInv /\ [Next]_vars => EnvelopeInv'
    BY EnvelopeStep
<1>3. EnvelopeInv => EnvelopeFindsItsKey
    BY DEF EnvelopeInv, EnvelopeFindsItsKey, Holds, KeysFor
<1>. QED
    BY <1>1, <1>2, <1>3, InvariantHolds, PTL DEF Spec

-----------------------------------------------------------------------------
(* The refinement *)

PairIn(T, n, v) == CHOOSE p \in Pairs : \E row \in RowsOf(T, n) :
                       row.version = v /\ row.pair = p

\* The catalog a table stands for.
List(T, n) == [v \in VersionsOf(T, n) |-> PairIn(T, n, v)]

\* In a proper table the pair of a version is the pair of its row.
LEMMA PairOfRow ==
    ASSUME NEW T \in SUBSET Row, KeyTable(T), NEW n, NEW row \in RowsOf(T, n)
    PROVE  PairIn(T, n, row.version) = row.pair
<1>1. row.pair \in Pairs
    BY DEF RowsOf, Row
<1>2. \A other \in RowsOf(T, n) : other.version = row.version => other.pair = row.pair
    BY DEF KeyTable, RowsOf
<1>3. \E p \in Pairs : \E other \in RowsOf(T, n) : other.version = row.version /\ other.pair = p
    BY <1>1
<1>. QED
    BY <1>2, <1>3 DEF PairIn

\* Appending a version to a table appends its pair to the list of its name,
\* and leaves the other lists alone.
LEMMA AppendLists ==
    ASSUME NEW T \in SUBSET Row, NEW U \in SUBSET Row, KeyTable(T), KeyTable(U),
           NEW n \in Names, NEW v, NEW p \in Pairs, IsNext(T, n, v),
           U = Demote(T, n) \union
                 {[name |-> n, version |-> v, pair |-> p, active |-> TRUE]}
    PROVE  /\ List(U, n) = Append(List(T, n), p)
           /\ \A m \in Names \ {n} : List(U, m) = List(T, m)
<1> DEFINE new == [name |-> n, version |-> v, pair |-> p, active |-> TRUE]
<1>1. v \in Nat \ {0} /\ \A row \in RowsOf(T, n) : row.version < v
    BY DEF IsNext
<1>2. new \in RowsOf(U, n) /\ new.version = v /\ new.pair = p
    BY DEF RowsOf
<1>3. \A row \in T : \E d \in U : Demoted(row, d, n)
    BY DemoteRows
<1>4. \A d \in U : d = new \/ \E row \in T : Demoted(row, d, n)
    BY DemoteRows
<1>5. VersionsOf(T, n) = 1 .. v - 1
    <2>1. \A w \in VersionsOf(T, n) : w \in 1 .. v - 1
        <3> SUFFICES ASSUME NEW row \in RowsOf(T, n) PROVE row.version \in 1 .. v - 1
            BY DEF VersionsOf
        <3>1. row.version \in Nat /\ row.version > 0
            BY DEF RowsOf, Row, KeyTable
        <3>. QED
            BY <3>1, <1>1
    <2>. QED
        BY <2>1 DEF IsNext
<1>6. ASSUME NEW row \in T
      PROVE  \E d \in RowsOf(U, row.name) : d.version = row.version /\ d.pair = row.pair
    BY <1>3 DEF Demoted, RowsOf
<1>7. ASSUME NEW m, NEW w \in VersionsOf(T, m)
      PROVE  w \in VersionsOf(U, m) /\ PairIn(U, m, w) = PairIn(T, m, w)
    <2>1. PICK row \in RowsOf(T, m) : row.version = w
        BY <1>7 DEF VersionsOf
    <2>2. PICK d \in RowsOf(U, m) : d.version = w /\ d.pair = row.pair
        BY <2>1, <1>6 DEF RowsOf
    <2>3. PairIn(T, m, w) = row.pair
        BY <2>1, PairOfRow
    <2>4. PairIn(U, m, w) = d.pair
        BY <2>2, PairOfRow
    <2>. QED
        BY <2>2, <2>3, <2>4 DEF VersionsOf
<1>8. PairIn(U, n, v) = p
    BY <1>2, PairOfRow
<1>9. ASSUME NEW m, NEW w \in VersionsOf(U, m)
      PROVE  w \in VersionsOf(T, m) \/ (m = n /\ w = v)
    <2>1. PICK d \in RowsOf(U, m) : d.version = w
        BY <1>9 DEF VersionsOf
    <2>. QED
        BY <2>1, <1>4 DEF RowsOf, Demoted, VersionsOf
<1>10. VersionsOf(U, n) = 1 .. v
    <2>1. v \in VersionsOf(U, n)
        BY <1>2 DEF VersionsOf
    <2>2. \A w \in VersionsOf(U, n) : w \in 1 .. v - 1 \/ w = v
        BY <1>9, <1>5
    <2>3. \A w \in 1 .. v - 1 : w \in VersionsOf(U, n)
        BY <1>5, <1>7
    <2>4. \A w : w \in 1 .. v <=> (w \in 1 .. v - 1 \/ w = v)
        BY <1>1
    <2>. QED
        BY <2>1, <2>2, <2>3, <2>4
<1>11. ASSUME NEW m \in Names \ {n} PROVE List(U, m) = List(T, m)
    <2>1. VersionsOf(U, m) \subseteq VersionsOf(T, m)
        BY <1>9
    <2>2. VersionsOf(T, m) \subseteq VersionsOf(U, m)
        BY <1>7
    <2>3. VersionsOf(U, m) = VersionsOf(T, m)
        BY <2>1, <2>2
    <2>. QED
        BY <2>3, <1>7 DEF List
<1>12. List(U, n) = Append(List(T, n), p)
    <2> DEFINE s == List(T, n)
    <2>1. \A w \in 1 .. v - 1 : PairIn(T, n, w) \in Pairs
        <3> SUFFICES ASSUME NEW w \in 1 .. v - 1 PROVE PairIn(T, n, w) \in Pairs
            OBVIOUS
        <3>1. PICK row \in RowsOf(T, n) : row.version = w
            BY <1>5 DEF VersionsOf
        <3>. QED
            BY <3>1, PairOfRow DEF RowsOf, Row
    <2>2. s \in [1 .. v - 1 -> Pairs]
        BY <1>5, <2>1 DEF List
    <2>3. s \in Seq(Pairs) /\ Len(s) = v - 1
        BY <1>1, <2>2
    <2>4. List(U, n) = [w \in 1 .. v |-> PairIn(U, n, w)]
        BY <1>10 DEF List
    <2>5. \A w \in 1 .. v - 1 : PairIn(U, n, w) = s[w]
        BY <1>5, <1>7 DEF List
    <2>6. \A w \in 1 .. v : PairIn(U, n, w) = Append(s, p)[w]
        <3>1. /\ Append(s, p)[v] = p
              /\ \A w \in 1 .. v - 1 : Append(s, p)[w] = s[w]
            BY <2>3, <1>1, AppendProperties
        <3>2. \A w \in 1 .. v : w \in 1 .. v - 1 \/ w = v
            BY <1>1
        <3>. QED
            BY <3>1, <3>2, <2>5, <1>8
    <2>7. Append(s, p) \in Seq(Pairs) /\ Len(Append(s, p)) = v
        BY <2>3, <1>1, AppendProperties
    <2>8. Append(s, p) = [w \in 1 .. v |-> Append(s, p)[w]]
        BY <2>7, LenProperties
    <2>. QED
        BY <2>4, <2>6, <2>8
<1>. QED
    BY <1>11, <1>12

\* Dropping a name empties its list and leaves the others alone.
LEMMA DropLists ==
    ASSUME NEW T \in SUBSET Row, KeyTable(T), NEW n \in Names
    PROVE  /\ List(T \ RowsOf(T, n), n) = << >>
           /\ \A m \in Names \ {n} : List(T \ RowsOf(T, n), m) = List(T, m)
<1> DEFINE U == T \ RowsOf(T, n)
<1>1. RowsOf(U, n) = {} /\ \A m \in Names \ {n} : RowsOf(U, m) = RowsOf(T, m)
    BY DEF RowsOf
<1>2. KeyTable(U) /\ U \in SUBSET Row
    BY DropKeepsTable
<1> HIDE DEF U
<1>3. List(U, n) = << >>
    <2>1. VersionsOf(U, n) = {}
        BY <1>1 DEF VersionsOf
    <2>2. List(U, n) \in [1 .. 0 -> Pairs]
        BY <2>1 DEF List
    <2>3. List(U, n) \in Seq(Pairs) /\ Len(List(U, n)) = 0
        BY <2>2
    <2>. QED
        BY <2>3, EmptySeq
<1>4. ASSUME NEW m \in Names \ {n} PROVE List(U, m) = List(T, m)
    <2>1. VersionsOf(U, m) = VersionsOf(T, m)
        BY <1>1 DEF VersionsOf
    <2>2. ASSUME NEW w \in VersionsOf(T, m) PROVE PairIn(U, m, w) = PairIn(T, m, w)
        <3>1. PICK row \in RowsOf(T, m) : row.version = w
            BY DEF VersionsOf
        <3>2. row \in RowsOf(U, m)
            BY <1>1
        <3>3. PairIn(T, m, w) = row.pair
            BY <3>1, PairOfRow
        <3>4. PairIn(U, m, w) = row.pair
            BY <3>1, <3>2, <1>2, PairOfRow
        <3>. QED
            BY <3>3, <3>4
    <2>. QED
        BY <2>1, <2>2 DEF List
<1>. QED
    BY <1>3, <1>4 DEF U

\* The catalog of the committed table, in the module's terms.
LEMMA CatalogOfDb ==
    /\ [n \in Names |-> [v \in VersionsOf(db, n) |-> PairOf(n, v)]]
         = [n \in Names |-> List(db, n)]
    /\ [n \in Names |-> [v \in VersionsOf(db, n) |-> PairOf(n, v)]]'
         = [n \in Names |-> List(db', n)]
BY DEF List, PairIn, PairOf

\* A commit of a creation appends a version to the catalog; one of a deletion
\* drops a name from it.
LEMMA CommitRefines ==
    ASSUME IInv, NEW r \in Reqs, Commit(r)
    PROVE  Catalog!CatalogNext
<1> DEFINE cat == [n \in Names |-> List(db, n)]
           cat2 == [n \in Names |-> List(db', n)]
<1>a. TypeOK /\ KeyTableOK /\ LiveInv /\ PairInv
    BY DEF IInv
<1>b. /\ req[r].pc = "commit" /\ req[r].key \in Names
      /\ req[r].op # "delete" => req[r] \in Creation
    BY <1>a, WriterStep DEF Commit, Creation, Deletion
<1>c. PICK n0 \in Names : n0 = req[r].key
    BY <1>b
<1>1. /\ req[r].pc = "commit" /\ n0 \in Names /\ n0 = req[r].key
      /\ req[r].op # "delete" => req[r] \in Creation
    BY <1>b, <1>c
<1>2. /\ db' = live
      /\ retired' = retired \union PairsOf(RowsOf(db, n0))
    BY <1>c DEF Commit, PairsOf
<1>3. db \in SUBSET Row /\ live \in SUBSET Row /\ KeyTable(db) /\ KeyTable(live)
    BY <1>a, <1>1, CommitTable DEF TypeOK, KeyTableOK
<1>4. PairsOf(RowsOf(db, n0)) \subseteq PairsOf(db)
    BY DEF PairsOf, RowsOf
<1>5. CASE req[r].op = "delete"
    <2>1. db' = db \ RowsOf(db, n0)
        BY <1>1, <1>2, <1>5, <1>a DEF LiveInv, LiveFor
    <2>2. cat2 = [cat EXCEPT ![n0] = << >>]
        <3>1. /\ List(db \ RowsOf(db, n0), n0) = << >>
              /\ \A m \in Names \ {n0} : List(db \ RowsOf(db, n0), m) = List(db, m)
            BY <1>3, DropLists
        <3>. QED
            BY <2>1, <3>1
    <2>3. PairsOf(db) = PairsOf(db') \union PairsOf(RowsOf(db, n0))
        BY <2>1 DEF PairsOf, RowsOf
    <2>4. retired' \union PairsOf(db') = retired \union PairsOf(db)
        BY <1>2, <2>3
    <2>5. Catalog!DropName(n0)
        BY <2>2, <2>4, CatalogOfDb DEF Catalog!DropName, PairsOf
    <2>. QED
        BY <1>1, <2>5 DEF Catalog!CatalogNext
<1>6. CASE req[r].op # "delete"
    <2>0. PICK p \in Pairs : p = req[r].pair
        BY <1>1, <1>6 DEF Creation
    <2>v. PICK v : v = req[r].version
        OBVIOUS
    <2> DEFINE new == [name |-> n0, version |-> v, pair |-> p, active |-> TRUE]
    <2>1. /\ db' = Demote(db, n0) \union {NewRow(req[r])}
          /\ IsNext(db, n0, v)
        BY <1>1, <1>2, <1>6, <1>a, <2>v DEF LiveInv, LiveFor, Writing
    <2>2. NewRow(req[r]) = new
        BY <1>c, <2>0, <2>v DEF NewRow
    <2>3. /\ List(db', n0) = Append(List(db, n0), p)
          /\ \A m \in Names \ {n0} : List(db', m) = List(db, m)
        <3>1. db' \in SUBSET Row /\ KeyTable(db') /\ db' = Demote(db, n0) \union {new}
            BY <1>2, <1>3, <2>1, <2>2
        <3>2. PICK U \in SUBSET Row : U = db'
            BY <3>1
        <3>3. PICK T \in SUBSET Row : T = db
            BY <1>3
        <3>4. KeyTable(T) /\ KeyTable(U) /\ IsNext(T, n0, v) /\ U = Demote(T, n0) \union {new}
            BY <1>3, <2>1, <3>1, <3>2, <3>3
        <3>5. /\ List(U, n0) = Append(List(T, n0), p)
              /\ \A m \in Names \ {n0} : List(U, m) = List(T, m)
            BY <3>4, AppendLists
        <3>. QED
            BY <3>2, <3>3, <3>5
    <2>4. cat2 = [cat EXCEPT ![n0] = Append(@, p)]
        BY <1>1, <2>3
    <2>5. p \notin retired \union PairsOf(db)
        BY <1>a, <1>1, <1>6, <2>0 DEF PairInv, Creating
    <2>6. PairsOf(db') = PairsOf(db) \union {p}
        <3>1. ASSUME NEW d \in db' PROVE d.pair \in PairsOf(db) \union {p}
            <4>1. d = new \/ \E row \in db : Demoted(row, d, n0)
                BY <1>1, <1>3, <2>1, <2>2, DemoteRows
            <4>. QED
                BY <4>1 DEF PairsOf, Demoted
        <3>2. ASSUME NEW row \in db PROVE row.pair \in PairsOf(db')
            <4>1. PICK d \in Demote(db, n0) : Demoted(row, d, n0)
                BY <1>1, <1>3, DemoteRows
            <4>. QED
                BY <4>1, <2>1 DEF PairsOf, Demoted
        <3>3. p \in PairsOf(db')
            <4>1. new \in db' /\ new.pair = p
                BY <2>1, <2>2
            <4>. QED
                BY <4>1 DEF PairsOf
        <3>. QED
            BY <3>1, <3>2, <3>3 DEF PairsOf
    <2>7. retired' \union PairsOf(db') = (retired \union PairsOf(db)) \union {p}
        BY <1>2, <1>4, <2>6
    <2>8. Catalog!NewVersion(n0, p)
        BY <2>4, <2>5, <2>7, CatalogOfDb DEF Catalog!NewVersion, PairsOf
    <2>. QED
        BY <2>8 DEF Catalog!CatalogNext
<1>. QED
    BY <1>5, <1>6

\* Threads, lock, transactions and crashes implement the catalog: a version or
\* a deletion takes effect in one step, the commit.
THEOREM CatalogImplemented == Spec => ImplementsCatalog
<1>1. Init => Catalog!CatalogInit
    <2> SUFFICES ASSUME Init PROVE Catalog!CatalogInit
        OBVIOUS
    <2>1. db = {} /\ retired = {}
        BY DEF Init
    <2>2. ASSUME NEW n \in Names PROVE List(db, n) = << >>
        <3>1. VersionsOf(db, n) = {}
            BY <2>1 DEF VersionsOf, RowsOf
        <3>2. List(db, n) \in [1 .. 0 -> Pairs]
            BY <3>1 DEF List
        <3>3. List(db, n) \in Seq(Pairs) /\ Len(List(db, n)) = 0
            BY <3>2
        <3>. QED
            BY <3>3, EmptySeq
    <2>. QED
        BY <2>1, <2>2, CatalogOfDb DEF Catalog!CatalogInit
<1>2. IInv /\ [Next]_vars => [Catalog!CatalogNext]_(Catalog!catalogVars)
    <2> SUFFICES ASSUME IInv, [Next]_vars
                 PROVE  [Catalog!CatalogNext]_(Catalog!catalogVars)
        OBVIOUS
    <2>1. ASSUME NEW r \in Reqs, Commit(r)
          PROVE  Catalog!CatalogNext
        BY <2>1, CommitRefines
    <2>2. CASE UNCHANGED <<db, retired>>
        BY <2>2, CatalogOfDb DEF Catalog!catalogVars
    <2>3. UNCHANGED <<db, retired>> \/ \E r \in Reqs : Commit(r)
        BY DEF Next, Create, Finish, Encrypt, GenerateBegin, RotateBegin, StartCreate,
           CreateLock, CreateDemote, CreateInsert, DeleteRows, Reply, Abort, EncryptRead,
           Missing, EncryptReply, EncryptError, MissingReply, Crash, vars
    <2>. QED
        BY <2>1, <2>2, <2>3
<1>. QED
    BY <1>1, <1>2, InvariantHolds, PTL DEF Spec, ImplementsCatalog, Catalog!CatalogSpec

=============================================================================

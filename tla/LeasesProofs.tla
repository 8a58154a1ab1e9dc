---------------------------- MODULE LeasesProofs ----------------------------
(***************************************************************************)
(* Proofs about Leases: type correctness, the safety invariants, the life  *)
(* cycle of a lease as an action property, and the refinement of           *)
(* LeaseContract, for any number of users, keys, leases and threads and    *)
(* for every setting.                                                      *)
(***************************************************************************)
EXTENDS Leases, TLAPS

-----------------------------------------------------------------------------
(* The inductive invariant *)

\* The clock the job has read is not ahead of the clock.
ClockInv == job.at =< now

\* A batch is held between a scan and the last audit row of that batch, and
\* a webhook is called for one lease at a time.
JobInv ==
    /\ job.pc \in {"sleep", "scan"} => job.batch = {}
    /\ job.pc # "hook" => job.posting = {}
    /\ \A l, m \in job.posting : l = m

\* A lease whose alert has been given, or is in the batch, is no longer open;
\* a lease in the batch has not been recorded, one being posted just has.
AlertInv ==
    \A l \in LeaseId :
        /\ timeouts[l] =< 1
        /\ hooks[l] =< timeouts[l]
        /\ l \in job.batch => timeouts[l] = 0
        /\ l \in job.posting => timeouts[l] = 1 /\ hooks[l] = 0
        /\ timeouts[l] = 1 \/ l \in job.batch => leases[l].status \in {"expired", "closed"}

\* Lease l was closed while it was open: no alert exists or is on its way.
OnTime(l) ==
    /\ leases[l].status = "closed"
    /\ timeouts[l] = 0
    /\ l \notin job.batch

\* Every check-in answered "closed", recorded or about to be, was on time.
CheckinInv ==
    /\ \A l \in LeaseId : "closed" \in checkins[l] => OnTime(l)
    /\ \A r \in Reqs :
         req[r].pc = "checkin" /\ req[r].result = "closed" => OnTime(req[r].lease)

\* What a request about to release a key has behind it.
RequestInv ==
    \A r \in Reqs :
        /\ req[r].pc \in {"audit", "reply"} =>
             /\ leases[req[r].lease] # NoLease
             /\ leases[req[r].lease].user = req[r].user
             /\ leases[req[r].lease].key = req[r].key
        /\ req[r].pc = "reply" => req[r].lease \in checkouts
        /\ req[r].pc \in {"audit", "reply"} =>
             \A q \in Reqs \ {r} :
                req[q].pc \in {"audit", "reply"} => req[q].lease # req[r].lease
        /\ req[r].pc = "serve" /\ req[r].via = "unwrap" /\ RequireCheckout =>
             req[r].user \in Admins

IInv == TypeOK /\ ClockInv /\ JobInv /\ AlertInv /\ CheckinInv /\ RequestInv

-----------------------------------------------------------------------------
(* Types *)

\* Continuing a batch yields a well-formed job that sleeps or audits, and holds
\* exactly the leases it was given.
LEMMA ContinueJob ==
    ASSUME NEW rest \in SUBSET LeaseId
    PROVE  /\ Continue(rest) \in Job
           /\ Continue(rest).pc \in {"sleep", "audit"}
           /\ Continue(rest).pc = "sleep" => rest = {}
           /\ Continue(rest).at = 0
           /\ Continue(rest).batch = rest
           /\ Continue(rest).posting = {}
BY DEF Continue, Asleep, Job

\* Every step keeps every variable within its type.
LEMMA TypeStep == TypeOK /\ [Next]_vars => TypeOK'
<1> SUFFICES ASSUME TypeOK, [Next]_vars PROVE TypeOK'
    OBVIOUS
<1> USE DEF TypeOK
<1>1. CASE Tick
    BY <1>1 DEF Tick, auditVars
<1>2. ASSUME NEW u \in Users, NEW k \in Keys, GrantKey(u, k) \/ RevokeKey(u, k)
      PROVE  TypeOK'
    BY <1>2 DEF GrantKey, RevokeKey, auditVars
<1>3. ASSUME NEW r \in Reqs, Checkout(r)
      PROVE  TypeOK'
    <2>1. ASSUME NEW u \in Users, NEW k \in Keys, CheckoutBegin(r, u, k)
          PROVE  TypeOK'
        BY <2>1 DEF CheckoutBegin, auditVars, Request
    <2>2. CASE CheckoutExclusive(r)
        BY <2>2 DEF CheckoutExclusive, auditVars, Request, Idle
    <2>3. CASE CheckoutUnwrap(r)
        BY <2>3, ConstantsAssumption DEF CheckoutUnwrap, auditVars, Request, Idle
    <2>4. CASE CheckoutInsert(r)
        BY <2>4 DEF CheckoutInsert, auditVars, Request, Idle, Lease
    <2>5. CASE CheckoutAudit(r)
        BY <2>5 DEF CheckoutAudit, Request, Idle
    <2>6. CASE CheckoutReply(r)
        BY <2>6 DEF CheckoutReply, auditVars, Request
    <2>. QED
        BY <1>3, <2>1, <2>2, <2>3, <2>4, <2>5, <2>6 DEF Checkout
<1>4. ASSUME NEW r \in Reqs, Checkin(r)
      PROVE  TypeOK'
    <2>1. ASSUME NEW u \in Users, NEW l \in LeaseId, CheckinClose(r, u, l)
          PROVE  TypeOK'
        BY <2>1 DEF CheckinClose, CloseResult, auditVars, Request, Lease, NoLease
    <2>2. CASE CheckinAudit(r)
        BY <2>2 DEF CheckinAudit, Request, Idle
    <2>. QED
        BY <1>4, <2>1, <2>2 DEF Checkin
<1>5. ASSUME NEW r \in Reqs, Serve(r)
      PROVE  TypeOK'
    BY <1>5 DEF Serve, ServeBegin, ServeReply, auditVars, Request, Idle, Direct
<1>13. ASSUME NEW r \in Reqs, AuditFails(r)
      PROVE  TypeOK'
    BY <1>13 DEF AuditFails, auditVars, Request
<1>6. CASE JobWake
    BY <1>6 DEF JobWake, auditVars, Job
<1>7. CASE JobScan
    <2>1. leases' \in [LeaseId -> Lease \union {NoLease}]
        BY <1>7 DEF JobScan, DueLeases, IsOpen, Lease, NoLease
    <2>2. job' \in Job
        BY <1>7, ContinueJob DEF JobScan, DueLeases
    <2>. QED
        BY <1>7, <2>1, <2>2 DEF JobScan, auditVars
<1>8. CASE JobAudit
    <2>1. PICK l \in job.batch :
            /\ timeouts' = [timeouts EXCEPT ![l] = @ + 1]
            /\ job' = IF Webhook
                      THEN [job EXCEPT !.pc = "hook", !.batch = @ \ {l}, !.posting = {l}]
                      ELSE Continue(job.batch \ {l})
        BY <1>8 DEF JobAudit
    <2>2. l \in LeaseId
        BY DEF Job
    <2>3. timeouts' \in [LeaseId -> Nat]
        BY <2>1, <2>2
    <2>4. [job EXCEPT !.pc = "hook", !.batch = @ \ {l}, !.posting = {l}] \in Job
        BY <2>2 DEF Job
    <2>5. Continue(job.batch \ {l}) \in Job
        BY ContinueJob DEF Job
    <2>. QED
        BY <1>8, <2>1, <2>3, <2>4, <2>5 DEF JobAudit
<1>9. CASE JobWebhook
    <2>1. job' \in Job
        BY <1>9, ContinueJob DEF JobWebhook, Job
    <2>2. hooks' \in [LeaseId -> Nat]
        BY <1>9 DEF JobWebhook, Job
    <2>. QED
        BY <1>9, <2>1, <2>2 DEF JobWebhook
<1>10. CASE JobError
    BY <1>10 DEF JobError, auditVars, Asleep, Job
<1>11. CASE Crash
    BY <1>11 DEF Crash, auditVars, Asleep, Job, Request
<1>12. CASE UNCHANGED vars
    BY <1>12 DEF vars
<1>. QED
    BY <1>1, <1>2, <1>3, <1>4, <1>5, <1>6, <1>7, <1>8, <1>9, <1>10, <1>11, <1>12,
       <1>13 DEF Next, JobStep

\* Every reachable state is well typed.
THEOREM TypeCorrect == Spec => []TypeOK
<1>1. Init => TypeOK
    BY DEF Init, TypeOK, Request, Asleep, Job
<1>. QED
    BY <1>1, TypeStep, PTL DEF Spec

-----------------------------------------------------------------------------
(* The steps of the expiry job keep its own bookkeeping *)

\* The clock the job has read stays behind the clock, and its batch and its
\* program counter stay in agreement.
LEMMA JobInvStep == TypeOK /\ ClockInv /\ JobInv /\ [Next]_vars => (ClockInv /\ JobInv)'
<1> SUFFICES ASSUME TypeOK, ClockInv, JobInv, [Next]_vars
             PROVE  (ClockInv /\ JobInv)'
    OBVIOUS
<1>0. job \in Job /\ now \in Nat
    BY DEF TypeOK
<1> USE DEF ClockInv, JobInv
<1>1. CASE UNCHANGED job /\ (now' = now \/ now' = now + 1)
    BY <1>0, <1>1 DEF Job
<1>2. CASE JobWake
    BY <1>0, <1>2 DEF JobWake, Job
<1>3. CASE JobScan
    BY <1>0, <1>3, ContinueJob DEF JobScan, DueLeases
<1>4. CASE JobAudit
    <2>1. PICK l \in job.batch :
            job' = IF Webhook
                   THEN [job EXCEPT !.pc = "hook", !.batch = @ \ {l}, !.posting = {l}]
                   ELSE Continue(job.batch \ {l})
        BY <1>4 DEF JobAudit
    <2>2. CASE Webhook
        BY <1>0, <1>4, <2>1, <2>2 DEF JobAudit, Job
    <2>3. CASE ~Webhook
        BY <1>0, <1>4, <2>1, <2>3, ContinueJob DEF JobAudit, Job
    <2>. QED
        BY <2>2, <2>3
<1>5. CASE JobWebhook
    BY <1>0, <1>5, ContinueJob DEF JobWebhook, Job
<1>6. CASE job' = Asleep /\ now' = now
    BY <1>0, <1>6 DEF Asleep
<1>. QED
    BY <1>1, <1>2, <1>3, <1>4, <1>5, <1>6
       DEF Next, vars, auditVars, JobStep, Tick, GrantKey, RevokeKey, Checkout,
           CheckoutBegin, CheckoutExclusive, CheckoutUnwrap, CheckoutInsert,
           CheckoutAudit, CheckoutReply, Checkin, CheckinClose, CheckinAudit,
           AuditFails, Serve, ServeBegin, ServeReply, JobError, Crash

-----------------------------------------------------------------------------
(* What a step can do to the lease table *)

\* The three changes the code makes to the lease table; every other step leaves
\* it alone.
LEMMA LeaseSteps ==
    ASSUME TypeOK, [Next]_vars
    PROVE  \/ UNCHANGED leases
           \/ JobScan
           \/ \E r \in Reqs : CheckoutInsert(r)
           \/ \E r \in Reqs, u \in Users, l \in LeaseId : CheckinClose(r, u, l)
BY DEF Next, vars, auditVars, JobStep, Tick, GrantKey, RevokeKey, Checkout,
       CheckoutBegin, CheckoutExclusive, CheckoutUnwrap, CheckoutAudit,
       CheckoutReply, Checkin, CheckinAudit, AuditFails, Serve, ServeBegin, ServeReply,
       JobWake, JobAudit, JobWebhook, JobError, Crash

\* A row of the lease table is only ever added, expired when it is open and
\* overdue, or closed.
LEMMA LeaseRowStep ==
    ASSUME TypeOK, ClockInv, [Next]_vars, NEW l \in LeaseId, leases[l] # NoLease
    PROVE  \/ leases'[l] = leases[l]
           \/ leases'[l] = [leases[l] EXCEPT !.status = "closed"]
           \/ Overdue(l) /\ leases'[l] = [leases[l] EXCEPT !.status = "expired"]
<1>1. CASE JobScan
    <2>1. leases' = [m \in LeaseId |->
                       IF m \in DueLeases THEN [leases[m] EXCEPT !.status = "expired"]
                                          ELSE leases[m]]
        BY <1>1 DEF JobScan
    <2>2. CASE l \in DueLeases
        <3>1. leases[l].due \in Nat
            BY DEF TypeOK, Lease
        <3>2. Overdue(l)
            BY <2>2, <3>1 DEF DueLeases, Overdue, IsOpen, ClockInv, TypeOK, Job
        <3>. QED
            BY <2>1, <2>2, <3>2
    <2>. QED
        BY <2>1, <2>2
<1>2. ASSUME NEW r \in Reqs, CheckoutInsert(r)
      PROVE  leases'[l] = leases[l]
    BY <1>2 DEF CheckoutInsert, TypeOK
<1>3. ASSUME NEW r \in Reqs, NEW u \in Users, NEW m \in LeaseId, CheckinClose(r, u, m)
      PROVE  \/ leases'[l] = leases[l]
             \/ leases'[l] = [leases[l] EXCEPT !.status = "closed"]
    BY <1>3 DEF CheckinClose, TypeOK
<1>. QED
    BY <1>1, <1>2, <1>3, LeaseSteps

-----------------------------------------------------------------------------
(* Alerts *)

\* No step gives a second alert, or one for a lease that is still open.
LEMMA AlertInvStep ==
    TypeOK /\ JobInv /\ AlertInv /\ [Next]_vars => AlertInv'
<1> SUFFICES ASSUME TypeOK, JobInv, AlertInv, [Next]_vars, NEW l \in LeaseId
             PROVE  AlertInv!(l)'
    BY DEF AlertInv
<1>0. /\ AlertInv!(l)
      /\ timeouts[l] \in Nat /\ hooks[l] \in Nat
      /\ job \in Job
    BY DEF AlertInv, TypeOK
<1>1. CASE UNCHANGED <<leases, job, timeouts, hooks>>
    BY <1>0, <1>1
<1>2. ASSUME NEW r \in Reqs, CheckoutInsert(r)
      PROVE  AlertInv!(l)'
    <2>1. PICK m \in LeaseId :
            /\ leases[m] = NoLease
            /\ leases' = [leases EXCEPT ![m] =
                            [status |-> "open", user |-> req[r].user,
                             key |-> req[r].key, created |-> req[r].created,
                             due |-> req[r].due]]
        BY <1>2 DEF CheckoutInsert
    <2>2. CASE l = m
        BY <1>0, <1>2, <2>1, <2>2 DEF CheckoutInsert, auditVars, NoLease
    <2>3. CASE l # m
        BY <1>0, <1>2, <2>1, <2>3 DEF CheckoutInsert, auditVars, TypeOK
    <2>. QED
        BY <2>2, <2>3
<1>3. ASSUME NEW r \in Reqs, NEW u \in Users, NEW m \in LeaseId, CheckinClose(r, u, m)
      PROVE  AlertInv!(l)'
    <2>1. leases'[l].status \in {leases[l].status, "closed"}
        BY <1>3 DEF CheckinClose, TypeOK, Lease
    <2>. QED
        BY <1>0, <1>3, <2>1 DEF CheckinClose, auditVars
<1>4. CASE JobWake
    BY <1>0, <1>4 DEF JobWake, auditVars, Job
<1>5. CASE JobScan
    <2>1. /\ job'.batch = DueLeases /\ job'.posting = {}
          /\ UNCHANGED <<timeouts, hooks>>
        BY <1>5, ContinueJob DEF JobScan, DueLeases, auditVars
    <2>2. CASE l \in DueLeases
        <3>1. leases'[l].status = "expired"
            BY <1>5, <2>2 DEF JobScan, DueLeases, IsOpen, TypeOK, Lease, NoLease
        <3>2. timeouts[l] = 0
            BY <1>0, <2>2 DEF DueLeases, IsOpen
        <3>. QED
            BY <1>0, <2>1, <3>1, <3>2
    <2>3. CASE l \notin DueLeases
        <3>1. leases'[l] = leases[l]
            BY <1>5, <2>3 DEF JobScan
        <3>. QED
            BY <1>0, <2>1, <2>3, <3>1
    <2>. QED
        BY <2>2, <2>3
<1>6. CASE JobAudit
    <2>1. PICK m \in job.batch :
            /\ timeouts' = [timeouts EXCEPT ![m] = @ + 1]
            /\ job' = IF Webhook
                      THEN [job EXCEPT !.pc = "hook", !.batch = @ \ {m}, !.posting = {m}]
                      ELSE Continue(job.batch \ {m})
        BY <1>6 DEF JobAudit
    <2>2. job'.batch = job.batch \ {m} /\ job'.posting \subseteq {m}
        BY <1>0, <2>1, ContinueJob DEF Job
    <2>3. UNCHANGED <<leases, hooks>> /\ job.posting = {}
        BY <1>6 DEF JobAudit, JobInv
    <2>4. CASE l = m
        <3>1. timeouts'[l] = 1 /\ hooks'[l] = 0
            BY <1>0, <2>1, <2>3, <2>4 DEF TypeOK
        <3>2. l \notin job'.batch /\ leases'[l].status \in {"expired", "closed"}
            BY <1>0, <2>1, <2>2, <2>3, <2>4
        <3>. QED
            BY <3>1, <3>2
    <2>5. CASE l # m
        <3>1. timeouts'[l] = timeouts[l]
            BY <2>1, <2>5 DEF TypeOK
        <3>. QED
            BY <1>0, <2>2, <2>3, <2>5, <3>1
    <2>. QED
        BY <2>4, <2>5
<1>7. CASE JobWebhook
    <2>1. PICK m \in job.posting : hooks' \in {hooks, [hooks EXCEPT ![m] = @ + 1]}
        BY <1>7 DEF JobWebhook
    <2>2. job'.batch = job.batch /\ job'.posting = {}
        BY <1>0, <1>7, ContinueJob DEF JobWebhook, Job
    <2>3. UNCHANGED <<leases, timeouts>>
        BY <1>7 DEF JobWebhook
    <2>4. CASE l = m
        BY <1>0, <2>1, <2>2, <2>3, <2>4 DEF TypeOK
    <2>5. CASE l # m
        BY <1>0, <2>1, <2>2, <2>3, <2>5 DEF TypeOK
    <2>. QED
        BY <2>4, <2>5
<1>8. CASE job' = Asleep /\ UNCHANGED <<leases, timeouts, hooks>>
    BY <1>0, <1>8 DEF Asleep
<1>. QED
    BY <1>1, <1>2, <1>3, <1>4, <1>5, <1>6, <1>7, <1>8
       DEF Next, vars, auditVars, JobStep, Tick, GrantKey, RevokeKey, Checkout,
           CheckoutBegin, CheckoutExclusive, CheckoutUnwrap, CheckoutAudit,
           CheckoutReply, Checkin, CheckinAudit, AuditFails, Serve, ServeBegin, ServeReply,
           JobError, Crash

-----------------------------------------------------------------------------
(* Check-ins *)

\* The batch and the count of alerts of a lease grow only by a scan that finds
\* the lease open, or by an audit row of a lease in the batch.
LEMMA AlertSource ==
    ASSUME TypeOK, JobInv, [Next]_vars, NEW l \in LeaseId,
           leases[l].status # "open", l \notin job.batch
    PROVE  l \notin job'.batch /\ timeouts'[l] = timeouts[l]
<1>0. job \in Job
    BY DEF TypeOK
<1>1. CASE JobWake
    BY <1>0, <1>1 DEF JobWake, auditVars, Job
<1>2. CASE JobScan
    BY <1>2, ContinueJob DEF JobScan, DueLeases, IsOpen, auditVars
<1>3. CASE JobAudit
    <2>1. PICK m \in job.batch :
            /\ timeouts' = [timeouts EXCEPT ![m] = @ + 1]
            /\ job' = IF Webhook
                      THEN [job EXCEPT !.pc = "hook", !.batch = @ \ {m}, !.posting = {m}]
                      ELSE Continue(job.batch \ {m})
        BY <1>3 DEF JobAudit
    <2>2. job'.batch = job.batch \ {m}
        BY <1>0, <2>1, ContinueJob DEF Job
    <2>3. timeouts'[l] = timeouts[l]
        BY <2>1 DEF TypeOK
    <2>. QED
        BY <2>2, <2>3
<1>4. CASE JobWebhook
    BY <1>0, <1>4, ContinueJob DEF JobWebhook, Job
<1>5. CASE UNCHANGED timeouts /\ (UNCHANGED job \/ job' = Asleep)
    BY <1>5 DEF Asleep
<1>. QED
    BY <1>1, <1>2, <1>3, <1>4, <1>5
       DEF Next, vars, auditVars, JobStep, Tick, GrantKey, RevokeKey, Checkout,
           CheckoutBegin, CheckoutExclusive, CheckoutUnwrap, CheckoutInsert,
           CheckoutAudit, CheckoutReply, Checkin, CheckinClose, CheckinAudit,
           AuditFails, Serve, ServeBegin, ServeReply, JobError, Crash

\* A lease closed in time stays so, whatever comes after.
LEMMA OnTimeStable ==
    ASSUME TypeOK, ClockInv, JobInv, [Next]_vars, NEW l \in LeaseId, OnTime(l)
    PROVE  OnTime(l)'
<1>1. leases[l] # NoLease /\ leases[l] \in Lease
    BY DEF OnTime, TypeOK, NoLease
<1>2. leases'[l].status = "closed"
    BY <1>1, LeaseRowStep DEF OnTime, Overdue, IsOpen, Lease
<1>3. l \notin job'.batch /\ timeouts'[l] = timeouts[l]
    BY AlertSource DEF OnTime
<1>. QED
    BY <1>2, <1>3 DEF OnTime

\* Only close_lease makes a check-in result.
LEMMA CheckinSource ==
    ASSUME TypeOK, [Next]_vars, NEW r \in Reqs, req'[r].pc = "checkin"
    PROVE  \/ req'[r] = req[r]
           \/ \E u \in Users, l \in LeaseId : CheckinClose(r, u, l)
<1> USE DEF Idle
<1>1. CASE UNCHANGED req
    BY <1>1
<1>2. ASSUME NEW q \in Reqs, Checkout(q)
      PROVE  req'[r] = req[r]
    <2>0. req[q] \in Request
        BY DEF TypeOK
    <2>1. CASE CheckoutExclusive(q)
        <3>1. \/ req' = [req EXCEPT ![q] = Idle]
              \/ req' = [req EXCEPT ![q].pc = "unwrap"]
            BY <2>1 DEF CheckoutExclusive
        <3>2. ~(r = q)
            BY <2>0, <3>1, req'[r].pc = "checkin" DEF TypeOK, Request
        <3>. QED
            BY <3>1, <3>2 DEF TypeOK
    <2>2. CASE CheckoutAudit(q)
        <3>1. req' = [req EXCEPT ![q].pc = "reply"]
            BY <2>2 DEF CheckoutAudit
        <3>2. ~(r = q)
            BY <2>0, <3>1, req'[r].pc = "checkin" DEF TypeOK, Request
        <3>. QED
            BY <3>1, <3>2 DEF TypeOK
    <2>3. ASSUME NEW u \in Users, NEW k \in Keys, CheckoutBegin(q, u, k)
          PROVE  req'[r] = req[r]
        BY <2>3 DEF CheckoutBegin, TypeOK
    <2>4. CASE CheckoutUnwrap(q)
        BY <2>4 DEF CheckoutUnwrap, TypeOK
    <2>5. CASE CheckoutInsert(q)
        BY <2>5 DEF CheckoutInsert, TypeOK
    <2>6. CASE CheckoutReply(q)
        BY <2>6 DEF CheckoutReply, TypeOK
    <2>. QED
        BY <1>2, <2>1, <2>2, <2>3, <2>4, <2>5, <2>6 DEF Checkout
<1>3. ASSUME NEW q \in Reqs, NEW u \in Users, NEW l \in LeaseId, CheckinClose(q, u, l)
      PROVE  req'[r] = req[r] \/ CheckinClose(r, u, l)
    BY <1>3 DEF CheckinClose, TypeOK
<1>4. ASSUME NEW q \in Reqs, CheckinAudit(q)
      PROVE  req'[r] = req[r]
    BY <1>4 DEF CheckinAudit, TypeOK
<1>5. ASSUME NEW q \in Reqs, Serve(q)
      PROVE  req'[r] = req[r]
    BY <1>5 DEF Serve, ServeBegin, ServeReply, TypeOK
<1>6. CASE Crash
    BY <1>6 DEF Crash
<1>7. ASSUME NEW q \in Reqs, AuditFails(q)
      PROVE  req'[r] = req[r]
    BY <1>7 DEF AuditFails, TypeOK
<1>. QED
    BY <1>1, <1>2, <1>3, <1>4, <1>5, <1>6, <1>7
       DEF Next, vars, JobStep, Tick, GrantKey, RevokeKey, Checkin, JobWake,
           JobScan, JobAudit, JobWebhook, JobError

\* The verdict "closed" is only given, and recorded, for a lease in time.
LEMMA CheckinInvStep ==
    TypeOK /\ ClockInv /\ JobInv /\ AlertInv /\ CheckinInv /\ [Next]_vars => CheckinInv'
<1> SUFFICES ASSUME TypeOK, ClockInv, JobInv, AlertInv, CheckinInv, [Next]_vars
             PROVE  CheckinInv'
    OBVIOUS
<1>1. ASSUME NEW l \in LeaseId, "closed" \in checkins'[l]
      PROVE  OnTime(l)'
    <2>1. CASE "closed" \in checkins[l]
        BY <2>1, OnTimeStable DEF CheckinInv
    <2>2. CASE "closed" \notin checkins[l]
        <3>1. PICK r \in Reqs : CheckinAudit(r)
            BY <1>1, <2>2
               DEF Next, vars, auditVars, JobStep, Tick, GrantKey, RevokeKey,
                   Checkout, CheckoutBegin, CheckoutExclusive, CheckoutUnwrap,
                   CheckoutInsert, CheckoutAudit, CheckoutReply, Checkin,
                   CheckinClose, AuditFails, Serve, ServeBegin, ServeReply, JobWake, JobScan,
                   JobAudit, JobWebhook, JobError, Crash
        <3>2. req[r].pc = "checkin" /\ req[r].lease = l /\ req[r].result = "closed"
            BY <1>1, <2>2, <3>1 DEF CheckinAudit, TypeOK
        <3>. QED
            BY <3>2, OnTimeStable DEF CheckinInv
    <2>. QED
        BY <2>1, <2>2
<1>2. ASSUME NEW r \in Reqs, NEW l \in LeaseId, req'[r].pc = "checkin",
             req'[r].result = "closed", req'[r].lease = l
      PROVE  OnTime(l)'
    <2>1. CASE req'[r] = req[r]
        BY <1>2, <2>1, OnTimeStable DEF CheckinInv
    <2>2. ASSUME NEW u \in Users, NEW m \in LeaseId, CheckinClose(r, u, m)
          PROVE  OnTime(l)'
        <3>1. m = l /\ CloseResult(l) = "closed"
            BY <1>2, <2>2 DEF CheckinClose, TypeOK
        <3>2. leases[l].status = "open"
            BY <3>1 DEF CloseResult
        <3>3. timeouts[l] = 0 /\ l \notin job.batch
            BY <3>2 DEF AlertInv, TypeOK
        <3>4. leases'[l].status = "closed"
            BY <2>2, <3>1, <3>2 DEF CheckinClose, TypeOK, Lease, NoLease
        <3>5. UNCHANGED <<job, timeouts>>
            BY <2>2 DEF CheckinClose, auditVars
        <3>. QED
            BY <3>3, <3>4, <3>5 DEF OnTime
    <2>. QED
        BY <1>2, <2>1, <2>2, CheckinSource
<1>3. \A r \in Reqs : req'[r].pc = "checkin" => req'[r].lease \in LeaseId
    BY TypeStep DEF TypeOK, Request, Idle
<1>. QED
    BY <1>1, <1>2, <1>3 DEF CheckinInv

-----------------------------------------------------------------------------
(* Requests *)

\* A request reaches the audit row, the reply or a direct release only from
\* the step of its own handler that comes before.
LEMMA RequestSource ==
    ASSUME TypeOK, [Next]_vars, NEW r \in Reqs,
           req'[r].pc \in {"audit", "reply", "serve"}
    PROVE  \/ req'[r] = req[r]
           \/ CheckoutInsert(r)
           \/ CheckoutAudit(r)
           \/ \E u \in Users, k \in Keys, via \in Direct :
                ServeBegin(r, u, k, via)
<1> USE DEF Idle
<1>1. CASE UNCHANGED req
    BY <1>1
<1>2. ASSUME NEW q \in Reqs, Checkout(q)
      PROVE  req'[r] = req[r] \/ CheckoutInsert(r) \/ CheckoutAudit(r)
    <2>0. req[q] \in Request
        BY DEF TypeOK
    <2>1. CASE CheckoutExclusive(q)
        <3>1. \/ req' = [req EXCEPT ![q] = Idle]
              \/ req' = [req EXCEPT ![q].pc = "unwrap"]
            BY <2>1 DEF CheckoutExclusive
        <3>2. ~(r = q)
            BY <2>0, <3>1, req'[r].pc \in {"audit", "reply", "serve"} DEF TypeOK, Request
        <3>. QED
            BY <3>1, <3>2 DEF TypeOK
    <2>2. CASE CheckoutAudit(q)
        BY <2>2 DEF CheckoutAudit, TypeOK
    <2>3. ASSUME NEW u \in Users, NEW k \in Keys, CheckoutBegin(q, u, k)
          PROVE  req'[r] = req[r]
        BY <2>3 DEF CheckoutBegin, TypeOK
    <2>4. CASE CheckoutUnwrap(q)
        BY <2>4 DEF CheckoutUnwrap, TypeOK
    <2>5. CASE CheckoutInsert(q)
        BY <2>5 DEF CheckoutInsert, TypeOK
    <2>6. CASE CheckoutReply(q)
        BY <2>6 DEF CheckoutReply, TypeOK
    <2>. QED
        BY <1>2, <2>1, <2>2, <2>3, <2>4, <2>5, <2>6 DEF Checkout
<1>3. ASSUME NEW q \in Reqs, Checkin(q)
      PROVE  req'[r] = req[r]
    BY <1>3 DEF Checkin, CheckinClose, CheckinAudit, TypeOK
<1>4. ASSUME NEW q \in Reqs, Serve(q)
      PROVE  \/ req'[r] = req[r]
             \/ \E u \in Users, k \in Keys, via \in Direct :
                  ServeBegin(r, u, k, via)
    BY <1>4 DEF Serve, ServeBegin, ServeReply, TypeOK
<1>5. CASE Crash
    BY <1>5 DEF Crash
<1>6. ASSUME NEW q \in Reqs, AuditFails(q)
      PROVE  req'[r] = req[r]
    BY <1>6 DEF AuditFails, TypeOK
<1>. QED
    BY <1>1, <1>2, <1>3, <1>4, <1>5, <1>6
       DEF Next, vars, JobStep, Tick, GrantKey, RevokeKey, JobWake,
           JobScan, JobAudit, JobWebhook, JobError

\* The row behind a release stays there, with the same owner and key.
LEMMA LeaseStable ==
    ASSUME TypeOK, ClockInv, [Next]_vars, NEW l \in LeaseId, leases[l] # NoLease
    PROVE  /\ leases'[l] # NoLease
           /\ leases'[l].user = leases[l].user
           /\ leases'[l].key = leases[l].key
<1>1. leases[l] \in Lease
    BY DEF TypeOK
<1>. QED
    BY <1>1, LeaseRowStep DEF Lease, NoLease

\* A checkout that holds a lease is the one that has just inserted it, or held
\* the same lease before.
LEMMA HolderSource ==
    ASSUME TypeOK, [Next]_vars, NEW r \in Reqs, req'[r].pc \in {"audit", "reply"}
    PROVE  \/ CheckoutInsert(r)
           \/ /\ req[r].pc \in {"audit", "reply"}
              /\ req'[r].lease = req[r].lease
<1>1. CASE CheckoutAudit(r)
    <2>1. req[r] \in [pc : {"audit", "reply"}, user : Users, key : Keys, lease : LeaseId]
        BY <1>1 DEF CheckoutAudit, TypeOK, Request, Idle
    <2>2. req'[r] = [req[r] EXCEPT !.pc = "reply"]
        BY <1>1 DEF CheckoutAudit, TypeOK
    <2>. QED
        BY <1>1, <2>1, <2>2 DEF CheckoutAudit
<1>2. ASSUME NEW u \in Users, NEW k \in Keys, NEW via \in Direct,
             ServeBegin(r, u, k, via)
      PROVE  FALSE
    BY <1>2 DEF ServeBegin, TypeOK
<1>. QED
    BY <1>1, <1>2, RequestSource

\* Two checkouts never hold one lease: create_lease draws an unused id.
LEMMA OneHolder ==
    ASSUME TypeOK, RequestInv, [Next]_vars, NEW r \in Reqs, NEW q \in Reqs \ {r},
           req'[r].pc \in {"audit", "reply"}, req'[q].pc \in {"audit", "reply"}
    PROVE  req'[q].lease # req'[r].lease
<1>1. ASSUME NEW a \in Reqs, NEW b \in Reqs \ {a}, CheckoutInsert(a),
             req'[b].pc \in {"audit", "reply"}
      PROVE  req'[b].lease # req'[a].lease
    <2>1. PICK l \in LeaseId : leases[l] = NoLease /\ req'[a].lease = l /\ req'[b] = req[b]
        BY <1>1 DEF CheckoutInsert, TypeOK
    <2>2. leases[req[b].lease] # NoLease
        BY <1>1, <2>1 DEF RequestInv
    <2>. QED
        BY <2>1, <2>2
<1>2. CASE CheckoutInsert(r)
    BY <1>1, <1>2
<1>3. CASE CheckoutInsert(q)
    BY <1>1, <1>3
<1>4. CASE ~CheckoutInsert(r) /\ ~CheckoutInsert(q)
    <2>1. /\ req[r].pc \in {"audit", "reply"} /\ req'[r].lease = req[r].lease
          /\ req[q].pc \in {"audit", "reply"} /\ req'[q].lease = req[q].lease
        BY <1>4, HolderSource
    <2>. QED
        BY <2>1 DEF RequestInv
<1>. QED
    BY <1>2, <1>3, <1>4

\* What a request has behind it, as it is now.
Backed(r) ==
    /\ req[r].pc \in {"audit", "reply"} =>
         /\ leases[req[r].lease] # NoLease
         /\ leases[req[r].lease].user = req[r].user
         /\ leases[req[r].lease].key = req[r].key
    /\ req[r].pc = "reply" => req[r].lease \in checkouts
    /\ req[r].pc = "serve" /\ req[r].via = "unwrap" /\ RequireCheckout =>
         req[r].user \in Admins

\* A request keeps behind it what its release needs.
LEMMA RequestInvStep == TypeOK /\ ClockInv /\ RequestInv /\ [Next]_vars => RequestInv'
<1> SUFFICES ASSUME TypeOK, ClockInv, RequestInv, [Next]_vars, NEW r \in Reqs,
                    req'[r].pc \in {"audit", "reply", "serve"}
             PROVE  Backed(r)'
    BY OneHolder DEF RequestInv, Backed
<1>0. Backed(r)
    BY DEF RequestInv, Backed
<1>1. CASE req'[r] = req[r]
    <2>1. checkouts \subseteq checkouts'
        BY DEF Next, vars, auditVars, JobStep, Tick, GrantKey, RevokeKey, Checkout,
               CheckoutBegin, CheckoutExclusive, CheckoutUnwrap, CheckoutInsert,
               CheckoutAudit, CheckoutReply, Checkin, CheckinClose, CheckinAudit,
               AuditFails, Serve, ServeBegin, ServeReply, JobWake, JobScan, JobAudit,
               JobWebhook, JobError, Crash
    <2>2. req[r].pc \in {"audit", "reply"} => req[r].lease \in LeaseId
        BY DEF TypeOK, Request, Idle
    <2>. QED
        BY <1>0, <1>1, <2>1, <2>2, LeaseStable DEF Backed
<1>2. CASE CheckoutInsert(r)
    BY <1>2 DEF CheckoutInsert, TypeOK, NoLease, Backed
<1>3. CASE CheckoutAudit(r)
    <2>1. req'[r] = [req[r] EXCEPT !.pc = "reply"]
        BY <1>3 DEF CheckoutAudit, TypeOK
    <2>2. /\ req[r].pc = "audit"
          /\ req[r] \in [pc : {"audit", "reply"}, user : Users, key : Keys, lease : LeaseId]
        BY <1>3 DEF CheckoutAudit, TypeOK, Request, Idle
    <2>3. /\ req'[r].pc = "reply" /\ req'[r].lease = req[r].lease
          /\ req'[r].user = req[r].user /\ req'[r].key = req[r].key
        BY <2>1, <2>2
    <2>4. UNCHANGED leases /\ req[r].lease \in checkouts'
        BY <1>3 DEF CheckoutAudit
    <2>. QED
        BY <1>0, <2>2, <2>3, <2>4 DEF Backed
<1>4. ASSUME NEW u \in Users, NEW k \in Keys, NEW via \in Direct,
             ServeBegin(r, u, k, via)
      PROVE  Backed(r)'
    BY <1>4 DEF ServeBegin, MayServe, TypeOK, Backed
<1>. QED
    BY <1>1, <1>2, <1>3, <1>4, RequestSource

-----------------------------------------------------------------------------
(* The theorems *)

\* The invariant holds in every reachable state.
THEOREM InvariantHolds == Spec => []IInv
<1>1. Init => IInv
    BY DEF Init, IInv, TypeOK, ClockInv, JobInv, AlertInv, CheckinInv, RequestInv,
           OnTime, Request, Idle, Asleep, Job, NoLease
<1>2. IInv /\ [Next]_vars => IInv'
    BY TypeStep, JobInvStep, AlertInvStep, CheckinInvStep, RequestInvStep DEF IInv
<1>. QED
    BY <1>1, <1>2, PTL DEF Spec

\* A lease is recorded as timed out at most once, escalated at most once and
\* never without its audit row, in every behaviour (storage.py:591).
THEOREM AlertsOnce == Spec => []OneAlertEach
<1>1. IInv => OneAlertEach
    BY DEF IInv, AlertInv, OneAlertEach
<1>. QED
    BY <1>1, InvariantHolds, PTL

\* A check-in that was accepted as on time excludes a timeout report for good.
THEOREM OnTimeSafe == Spec => []OnTimeNeverEscalated
<1>1. IInv => OnTimeNeverEscalated
    BY DEF IInv, CheckinInv, OnTime, OnTimeNeverEscalated
<1>. QED
    BY <1>1, InvariantHolds, PTL

\* Under require_checkout a non-admin who opens a data key has a lease of its
\* own for it, audited before the key is sent; only new keys and plaintexts go
\* out without one (app.py:771-775, 810-813).
THEOREM DataKeysLeased == Spec => []DataKeyLeased
<1>1. IInv => DataKeyLeased
    <2> SUFFICES ASSUME IInv, RequireCheckout, NEW r \in Releasing
                 PROVE  \/ req[r].user \in Admins
                        \/ req[r].pc = "serve" /\ req[r].via \in {"generate", "decrypt"}
                        \/ req[r].pc = "reply" /\ AccountedFor(r)
        BY DEF DataKeyLeased
    <2>1. r \in Reqs /\ req[r].pc \in {"reply", "serve"}
        BY DEF Releasing
    <2>2. CASE req[r].pc = "reply"
        BY <2>1, <2>2 DEF IInv, RequestInv, AccountedFor, Releasing
    <2>3. CASE req[r].pc = "serve"
        <3>1. req[r].via \in Direct
            BY <2>1, <2>3 DEF IInv, TypeOK, Request, Idle
        <3>. QED
            BY <2>1, <2>3, <3>1 DEF IInv, RequestInv, Direct
    <2>. QED
        BY <2>1, <2>2, <2>3
<1>. QED
    BY <1>1, InvariantHolds, PTL

\* A lease row only ever moves forward: open, expired when overdue, closed.
THEOREM LifecycleHolds == Spec => LeaseLifecycle
<1>1. IInv /\ [Next]_vars =>
        [\A l \in LeaseId : leases[l] # NoLease =>
           \/ leases'[l] = leases[l]
           \/ leases'[l] = [leases[l] EXCEPT !.status = "closed"]
           \/ Overdue(l) /\ leases'[l] = [leases[l] EXCEPT !.status = "expired"]]_vars
    BY LeaseRowStep DEF IInv
<1>. QED
    BY <1>1, InvariantHolds, PTL DEF Spec, LeaseLifecycle

-----------------------------------------------------------------------------
(* Refinement *)

\* A step that does not scan, insert or close is an alert, the loss of what is
\* owed, or nothing to the contract.
LEMMA JobRefines ==
    ASSUME TypeOK, JobInv, [Next]_vars, UNCHANGED leases
    PROVE  \/ UNCHANGED <<job.batch, timeouts>>
           \/ \E l \in LeaseId : Contract!Alert(l)
           \/ Contract!Forget
<1>0. job \in Job
    BY DEF TypeOK
<1>1. CASE JobWake
    BY <1>0, <1>1 DEF JobWake, auditVars, Job
<1>2. CASE JobScan
    <2>1. job'.batch = DueLeases /\ UNCHANGED timeouts
        BY <1>2, ContinueJob DEF JobScan, DueLeases, auditVars
    <2>2. DueLeases = {}
        BY <1>2 DEF JobScan, DueLeases, IsOpen, TypeOK, Lease, NoLease
    <2>3. job.batch = {}
        BY <1>2 DEF JobScan, JobInv
    <2>. QED
        BY <2>1, <2>2, <2>3
<1>3. CASE JobAudit
    <2>1. PICK m \in job.batch :
            /\ timeouts' = [timeouts EXCEPT ![m] = @ + 1]
            /\ job' = IF Webhook
                      THEN [job EXCEPT !.pc = "hook", !.batch = @ \ {m}, !.posting = {m}]
                      ELSE Continue(job.batch \ {m})
        BY <1>3 DEF JobAudit
    <2>2. job'.batch = job.batch \ {m} /\ m \in LeaseId
        BY <1>0, <2>1, ContinueJob DEF Job
    <2>3. Contract!Alert(m)
        BY <2>1, <2>2 DEF Contract!Alert
    <2>. QED
        BY <2>2, <2>3
<1>4. CASE JobWebhook
    BY <1>0, <1>4, ContinueJob DEF JobWebhook, Job
<1>5. CASE UNCHANGED timeouts /\ job' = Asleep
    BY <1>5 DEF Asleep, Contract!Forget
<1>6. CASE UNCHANGED <<timeouts, job>>
    BY <1>6
<1>. QED
    BY <1>1, <1>2, <1>3, <1>4, <1>5, <1>6
       DEF Next, vars, auditVars, JobStep, Tick, GrantKey, RevokeKey, Checkout,
           CheckoutBegin, CheckoutExclusive, CheckoutUnwrap, CheckoutInsert,
           CheckoutAudit, CheckoutReply, Checkin, CheckinClose, CheckinAudit,
           AuditFails, Serve, ServeBegin, ServeReply, JobError, Crash

\* Every step of the handlers, the job and a crash is a step of the contract or
\* leaves it alone.
LEMMA StepRefines ==
    IInv /\ [Next]_vars => [Contract!ContractNext]_(Contract!contractVars)
<1> SUFFICES ASSUME IInv, [Next]_vars
             PROVE  \/ Contract!ContractNext
                    \/ UNCHANGED Contract!contractVars
    OBVIOUS
<1>0. TypeOK /\ JobInv
    BY DEF IInv
<1>1. CASE UNCHANGED leases
    BY <1>0, <1>1, JobRefines DEF Contract!ContractNext, Contract!contractVars
<1>2. CASE JobScan
    <2>1. /\ job'.batch = DueLeases /\ UNCHANGED timeouts
          /\ job.batch = {} /\ DueLeases \in SUBSET LeaseId
        BY <1>0, <1>2, ContinueJob DEF JobScan, DueLeases, auditVars, JobInv
    <2>2. PICK S \in SUBSET LeaseId : S = DueLeases
        BY <2>1
    <2>3. \A l \in LeaseId :
            leases'[l].status = IF l \in S THEN "expired" ELSE leases[l].status
        BY <1>0, <1>2, <2>2 DEF JobScan, DueLeases, IsOpen, TypeOK, Lease, NoLease
    <2>4. \A l \in S : leases[l].status = "open"
        BY <2>2 DEF DueLeases, IsOpen
    <2>5. Contract!Expire(S)
        BY <2>1, <2>2, <2>3, <2>4 DEF Contract!Expire
    <2>. QED
        BY <2>5 DEF Contract!ContractNext
<1>3. ASSUME NEW r \in Reqs, CheckoutInsert(r)
      PROVE  Contract!ContractNext
    <2>1. PICK l \in LeaseId :
            /\ leases[l] = NoLease
            /\ leases' = [leases EXCEPT ![l] =
                            [status |-> "open", user |-> req[r].user,
                             key |-> req[r].key, created |-> req[r].created,
                             due |-> req[r].due]]
        BY <1>3 DEF CheckoutInsert
    <2>2. UNCHANGED <<job, timeouts>>
        BY <1>3 DEF CheckoutInsert, auditVars
    <2>3. \A m \in LeaseId : leases'[m].status = IF m = l THEN "open" ELSE leases[m].status
        BY <1>0, <2>1 DEF TypeOK
    <2>4. leases[l].status = "none"
        BY <2>1 DEF NoLease
    <2>5. Contract!Open(l)
        BY <2>2, <2>3, <2>4 DEF Contract!Open
    <2>. QED
        BY <2>5 DEF Contract!ContractNext
<1>4. ASSUME NEW r \in Reqs, NEW u \in Users, NEW l \in LeaseId, CheckinClose(r, u, l)
      PROVE  Contract!ContractNext
    <2>1. leases[l] \in Lease
        BY <1>0, <1>4 DEF CheckinClose, TypeOK
    <2>2. \A m \in LeaseId : leases'[m].status = IF m = l THEN "closed" ELSE leases[m].status
        BY <1>0, <1>4, <2>1 DEF CheckinClose, TypeOK, Lease
    <2>3. UNCHANGED <<job, timeouts>>
        BY <1>4 DEF CheckinClose, auditVars
    <2>4. leases[l].status # "none"
        BY <2>1 DEF Lease
    <2>5. Contract!Close(l)
        BY <2>2, <2>3, <2>4 DEF Contract!Close
    <2>. QED
        BY <2>5 DEF Contract!ContractNext
<1>. QED
    <2>1. \/ UNCHANGED leases
          \/ JobScan
          \/ \E r \in Reqs : CheckoutInsert(r)
          \/ \E r \in Reqs, u \in Users, l \in LeaseId : CheckinClose(r, u, l)
        BY <1>0, LeaseSteps
    <2>. QED
        BY <1>1, <1>2, <1>3, <1>4, <2>1

\* The detailed specification implements the contract of a lease.
THEOREM ContractImplemented == Spec => ImplementsContract
<1>1. Init => Contract!ContractInit
    BY DEF Init, Contract!ContractInit, NoLease, Asleep
<1>. QED
    BY <1>1, StepRefines, InvariantHolds, PTL
       DEF Spec, ImplementsContract, Contract!ContractSpec

=============================================================================

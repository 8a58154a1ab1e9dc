------------------------------- MODULE Leases -------------------------------
(***************************************************************************)
(* Time-scoped checkout of a key in the QCG KMS (app.py, storage.py and    *)
(* escalation.py): the checkout, check-in, unwrap and decrypt handlers and *)
(* the background job that expires overdue leases and escalates them.      *)
(*                                                                         *)
(* The handlers run in a pool of threads over one SQLite store.  A writer  *)
(* of the store holds its lock and commits before it lets go, so one call  *)
(* of the store is one step here; a handler makes several calls, and other *)
(* handlers, the expiry job and a crash come between them.  What the       *)
(* process keeps in memory (a request in progress, the job's batch) is     *)
(* lost in a crash; leases, grants and audit rows are in the database.     *)
(*                                                                         *)
(* A request that is refused before it has changed anything (no grant, an  *)
(* unknown lease, somebody else's lease) leaves no trace but an audit row  *)
(* with a status no property reads, and is no step of the model.           *)
(***************************************************************************)
EXTENDS Naturals, FiniteSets

CONSTANTS
    Users,            \* accounts that call the API
    Admins,           \* those with is_admin set: they may use every key
    Keys,             \* key names
    LeaseId,          \* the tokens create_lease may draw; a bound on leases
    Reqs,             \* worker threads that serve requests
    TTLs,             \* the checkout_ttls of the roles, in clock ticks
    Exclusive,        \* settings.checkout_exclusive
    RequireCheckout,  \* settings.require_checkout
    Webhook,          \* whether escalation_webhook_url is set
    Faults,           \* whether audit_append may raise, in a handler or in the job
    MaxTime,          \* bound of the clock
    MaxCrashes        \* bound of the crashes

ASSUME ConstantsAssumption ==
    /\ Admins \subseteq Users
    /\ TTLs \subseteq Nat \ {0}
    /\ {Exclusive, RequireCheckout, Webhook, Faults} \subseteq BOOLEAN
    /\ MaxTime \in Nat
    /\ MaxCrashes \in Nat

VARIABLES
    now,        \* the clock _now() reads
    grants,     \* table key_grants
    leases,     \* table leases
    req,        \* what each worker thread is doing
    job,        \* the expiry loop: its program counter and its batch
    checkouts,  \* audit rows "checkout ok", as the leases they name
    checkins,   \* audit rows "checkin", as the results recorded for a lease
    timeouts,   \* number of audit rows "checkout_timeout" of a lease
    hooks,      \* number of escalations POSTed for a lease
    crashes     \* number of crashes so far

vars == <<now, grants, leases, req, job, checkouts, checkins, timeouts, hooks,
          crashes>>

auditVars == <<checkouts, checkins, timeouts, hooks>>

-----------------------------------------------------------------------------
(* Types and null records *)

NoLease == [status |-> "none"]
Lease   == [status : {"open", "expired", "closed"}, user : Users, key : Keys,
            created : Nat, due : Nat]

Idle == [pc |-> "idle"]

\* The endpoints that send a key or a plaintext without a lease:
\* /api/datakey/unwrap, /api/datakey/generate and /api/decrypt.
Direct == {"unwrap", "generate", "decrypt"}

Request ==
    {Idle}
    \union [pc : {"exclusive", "unwrap"}, user : Users, key : Keys]
    \union [pc : {"insert"}, user : Users, key : Keys, created : Nat, due : Nat]
    \union [pc : {"audit", "reply"}, user : Users, key : Keys, lease : LeaseId]
    \union [pc : {"checkin"}, lease : LeaseId, result : {"closed", "late"}]
    \union [pc : {"serve"}, user : Users, key : Keys, via : Direct]

\* The loop's position, the clock it read, the leases of its batch still to
\* be audited, and the one whose webhook is being called.
Asleep == [pc |-> "sleep", at |-> 0, batch |-> {}, posting |-> {}]
Job == [pc : {"sleep", "scan", "audit", "hook"}, at : Nat,
        batch : SUBSET LeaseId, posting : SUBSET LeaseId]

TypeOK ==
    /\ now \in Nat
    /\ grants \subseteq Users \X Keys
    /\ leases \in [LeaseId -> Lease \union {NoLease}]
    /\ req \in [Reqs -> Request]
    /\ job \in Job
    /\ checkouts \subseteq LeaseId
    /\ checkins \in [LeaseId -> SUBSET {"closed", "late"}]
    /\ timeouts \in [LeaseId -> Nat]
    /\ hooks \in [LeaseId -> Nat]
    /\ crashes \in Nat

-----------------------------------------------------------------------------
(* Reads of the store *)

HasGrant(u, k) == u \in Admins \/ <<u, k>> \in grants

IsOpen(l)  == leases[l].status = "open"
Overdue(l) == IsOpen(l) /\ leases[l].due < now

ActiveLeases(k) ==
    {l \in LeaseId : IsOpen(l) /\ leases[l].key = k /\ leases[l].due > now}

\* The one row active_lease_for_key returns: a newest active lease.
ActiveLeaseForKey(k) ==
    {l \in ActiveLeases(k) :
        \A m \in ActiveLeases(k) : leases[m].created =< leases[l].created}

-----------------------------------------------------------------------------
Init ==
    /\ now = 0
    /\ grants = {}
    /\ leases = [l \in LeaseId |-> NoLease]
    /\ req = [r \in Reqs |-> Idle]
    /\ job = Asleep
    /\ checkouts = {}
    /\ checkins = [l \in LeaseId |-> {}]
    /\ timeouts = [l \in LeaseId |-> 0]
    /\ hooks = [l \in LeaseId |-> 0]
    /\ crashes = 0

Tick ==
    /\ now < MaxTime
    /\ now' = now + 1
    /\ UNCHANGED <<grants, leases, req, job, auditVars, crashes>>

-----------------------------------------------------------------------------
(* Grants, given and taken by an administrator in one call of the store *)

GrantKey(u, k) ==
    /\ grants' = grants \union {<<u, k>>}
    /\ UNCHANGED <<now, leases, req, job, auditVars, crashes>>

RevokeKey(u, k) ==
    /\ grants' = grants \ {<<u, k>>}
    /\ UNCHANGED <<now, leases, req, job, auditVars, crashes>>

-----------------------------------------------------------------------------
(* POST /api/checkout *)

CheckoutBegin(r, u, k) ==
    /\ req[r] = Idle
    /\ HasGrant(u, k)
    /\ req' = [req EXCEPT ![r] =
                 [pc   |-> IF Exclusive THEN "exclusive" ELSE "unwrap",
                  user |-> u, key |-> k]]
    /\ UNCHANGED <<now, grants, leases, job, auditVars, crashes>>

\* The exclusive-checkout test: another user's lease is answered with 409.
CheckoutExclusive(r) ==
    /\ req[r].pc = "exclusive"
    /\ LET found == ActiveLeaseForKey(req[r].key) IN
         \/ /\ \E l \in found : leases[l].user # req[r].user
            /\ req' = [req EXCEPT ![r] = Idle]
         \/ /\ found = {} \/ \E l \in found : leases[l].user = req[r].user
            /\ req' = [req EXCEPT ![r].pc = "unwrap"]
    /\ UNCHANGED <<now, grants, leases, job, auditVars, crashes>>

\* unwrap_data_key fails (400), or the role's TTL is looked up and
\* create_lease reads the clock, before it waits for the store's lock.
CheckoutUnwrap(r) ==
    /\ req[r].pc = "unwrap"
    /\ \/ req' = [req EXCEPT ![r] = Idle]
       \/ \E ttl \in TTLs :
            req' = [req EXCEPT ![r] =
                      [pc |-> "insert", user |-> req[r].user, key |-> req[r].key,
                       created |-> now, due |-> now + ttl]]
    /\ UNCHANGED <<now, grants, leases, job, auditVars, crashes>>

\* (mutant) the response is sent without the "checkout" audit row
CheckoutInsertNoAudit(r) ==
    /\ req[r].pc = "insert"
    /\ \E l \in LeaseId :
         /\ leases[l] = NoLease
         /\ leases' = [leases EXCEPT ![l] =
                         [status |-> "open", user |-> req[r].user,
                          key |-> req[r].key, created |-> req[r].created,
                          due |-> req[r].due]]
         /\ req' = [req EXCEPT ![r] =
                      [pc |-> "reply", user |-> req[r].user,
                       key |-> req[r].key, lease |-> l]]
    /\ UNCHANGED <<now, grants, job, auditVars, crashes>>

\* create_lease inserts the row under a new random id.
CheckoutInsert(r) ==
    /\ req[r].pc = "insert"
    /\ \E l \in LeaseId :
         /\ leases[l] = NoLease
         /\ leases' = [leases EXCEPT ![l] =
                         [status |-> "open", user |-> req[r].user,
                          key |-> req[r].key, created |-> req[r].created,
                          due |-> req[r].due]]
         /\ req' = [req EXCEPT ![r] =
                      [pc |-> "audit", user |-> req[r].user,
                       key |-> req[r].key, lease |-> l]]
    /\ UNCHANGED <<now, grants, job, auditVars, crashes>>

CheckoutAudit(r) ==
    /\ req[r].pc = "audit"
    /\ checkouts' = checkouts \union {req[r].lease}
    /\ req' = [req EXCEPT ![r].pc = "reply"]
    /\ UNCHANGED <<now, grants, leases, job, checkins, timeouts, hooks,
                   crashes>>

CheckoutReply(r) ==
    /\ req[r].pc = "reply"
    /\ req' = [req EXCEPT ![r] = Idle]
    /\ UNCHANGED <<now, grants, leases, job, auditVars, crashes>>

-----------------------------------------------------------------------------
(* POST /api/checkin: close_lease, then the audit row *)

\* close_lease calls a check-in late when the lease is no longer open or is
\* past its deadline.
CloseResult(l) ==
    IF leases[l].status # "open" \/ leases[l].due < now THEN "late" ELSE "closed"

\* The caller names any lease: it has the id from its checkout, or from an
\* administrator's list of leases, which may show it before the response does.
CheckinClose(r, u, l) ==
    /\ req[r] = Idle
    /\ leases[l] # NoLease
    /\ leases[l].user = u
    /\ leases' = [leases EXCEPT ![l].status = "closed"]
    /\ req' = [req EXCEPT ![r] =
                 [pc |-> "checkin", lease |-> l, result |-> CloseResult(l)]]
    /\ UNCHANGED <<now, grants, job, auditVars, crashes>>

CheckinAudit(r) ==
    /\ req[r].pc = "checkin"
    /\ checkins' = [checkins EXCEPT ![req[r].lease] = @ \union {req[r].result}]
    /\ req' = [req EXCEPT ![r] = Idle]
    /\ UNCHANGED <<now, grants, leases, job, checkouts, timeouts, hooks,
                   crashes>>

\* audit_append raises after the store has been changed: the caller gets a 500,
\* and the lease stays open without its row, or closed without the check-in's.
AuditFails(r) ==
    /\ Faults
    /\ req[r].pc \in {"audit", "checkin"}
    /\ req' = [req EXCEPT ![r] = Idle]
    /\ UNCHANGED <<now, grants, leases, job, auditVars, crashes>>

-----------------------------------------------------------------------------
(* The paths without a lease.  require_checkout closes one of the three. *)

MayServe(u, k, via) ==
    /\ via = "unwrap" /\ RequireCheckout => u \in Admins
    /\ HasGrant(u, k)

ServeBegin(r, u, k, via) ==
    /\ req[r] = Idle
    /\ MayServe(u, k, via)
    /\ req' = [req EXCEPT ![r] =
                 [pc |-> "serve", user |-> u, key |-> k, via |-> via]]
    /\ UNCHANGED <<now, grants, leases, job, auditVars, crashes>>

\* The service call fails (400, 404), or its audit row does (500), or the key or
\* the plaintext is returned.
ServeReply(r) ==
    /\ req[r].pc = "serve"
    /\ req' = [req EXCEPT ![r] = Idle]
    /\ UNCHANGED <<now, grants, leases, job, auditVars, crashes>>

-----------------------------------------------------------------------------
(* The expiry loop: process_expired_leases, every checkout_check_interval *)

\* expire_due_leases reads the clock before it takes the lock.
JobWake ==
    /\ job.pc = "sleep"
    /\ job' = [job EXCEPT !.pc = "scan", !.at = now]
    /\ UNCHANGED <<now, grants, leases, req, auditVars, crashes>>

\* (mutant) the SELECT takes a lease at its deadline, not past it
DueLeasesAtDeadline == {l \in LeaseId : IsOpen(l) /\ leases[l].due =< job.at}

\* (mutant) the SELECT forgets status='open'
DueLeasesAnyStatus == {l \in LeaseId : leases[l] # NoLease /\ leases[l].due < job.at}

DueLeases == {l \in LeaseId : IsOpen(l) /\ leases[l].due < job.at}

\* Go on with the rest of a batch; the job sleeps once it is empty.
Continue(rest) == IF rest = {} THEN Asleep
                  ELSE [Asleep EXCEPT !.pc = "audit", !.batch = rest]

\* (mutant) the batch is returned, but its rows stay open
JobScanKeepsOpen ==
    /\ job.pc = "scan"
    /\ job' = Continue(DueLeases)
    /\ UNCHANGED <<now, grants, leases, req, auditVars, crashes>>

\* One transaction marks every due lease and returns the batch.
JobScan ==
    /\ job.pc = "scan"
    /\ leases' = [l \in LeaseId |->
                    IF l \in DueLeases THEN [leases[l] EXCEPT !.status = "expired"]
                                       ELSE leases[l]]
    /\ job' = Continue(DueLeases)
    /\ UNCHANGED <<now, grants, req, auditVars, crashes>>

\* (mutant) a lease stays in the batch after its audit row
JobAuditAgain ==
    /\ job.pc = "audit"
    /\ \E l \in job.batch :
         /\ timeouts' = [timeouts EXCEPT ![l] = @ + 1]
         /\ job' \in {job, Asleep}
    /\ UNCHANGED <<now, grants, leases, req, checkouts, checkins, hooks,
                   crashes>>

\* One lease of the batch gets its audit row.
JobAudit ==
    /\ job.pc = "audit"
    /\ \E l \in job.batch :
         /\ timeouts' = [timeouts EXCEPT ![l] = @ + 1]
         /\ job' = IF Webhook
                   THEN [job EXCEPT !.pc = "hook", !.batch = @ \ {l}, !.posting = {l}]
                   ELSE Continue(job.batch \ {l})
    /\ UNCHANGED <<now, grants, leases, req, checkouts, checkins, hooks,
                   crashes>>

\* fire_webhook never raises: the POST arrives, or its failure is logged.
JobWebhook ==
    /\ job.pc = "hook"
    /\ \E l \in job.posting :
         hooks' \in {hooks, [hooks EXCEPT ![l] = @ + 1]}
    /\ job' = Continue(job.batch)
    /\ UNCHANGED <<now, grants, leases, req, checkouts, checkins, timeouts,
                   crashes>>

\* (mutant) the error is not caught, and ends the loop
JobErrorStopsLoop ==
    /\ Faults
    /\ job.pc = "audit"
    /\ job' = [Asleep EXCEPT !.pc = "stopped"]
    /\ UNCHANGED <<now, grants, leases, req, auditVars, crashes>>

\* audit_append raises: the loop logs the error and sleeps; the batch is gone.
JobError ==
    /\ Faults
    /\ job.pc = "audit"
    /\ job' = Asleep
    /\ UNCHANGED <<now, grants, leases, req, auditVars, crashes>>

JobStep == JobWake \/ JobScan \/ JobAudit \/ JobWebhook

-----------------------------------------------------------------------------
(* The process dies and is started again over the same database *)

Crash ==
    /\ crashes < MaxCrashes
    /\ crashes' = crashes + 1
    /\ req' = [r \in Reqs |-> Idle]
    /\ job' = Asleep
    /\ UNCHANGED <<now, grants, leases, auditVars>>

-----------------------------------------------------------------------------
Checkout(r) ==
    \/ \E u \in Users, k \in Keys : CheckoutBegin(r, u, k)
    \/ CheckoutExclusive(r)
    \/ CheckoutUnwrap(r)
    \/ CheckoutInsert(r)
    \/ CheckoutAudit(r)
    \/ CheckoutReply(r)

Checkin(r) ==
    \/ \E u \in Users, l \in LeaseId : CheckinClose(r, u, l)
    \/ CheckinAudit(r)

Serve(r) ==
    \/ \E u \in Users, k \in Keys, via \in Direct : ServeBegin(r, u, k, via)
    \/ ServeReply(r)

Next ==
    \/ Tick
    \/ \E u \in Users, k \in Keys : GrantKey(u, k) \/ RevokeKey(u, k)
    \/ \E r \in Reqs : Checkout(r) \/ Checkin(r) \/ AuditFails(r) \/ Serve(r)
    \/ JobStep
    \/ JobError
    \/ Crash

\* The event loop always comes back to the expiry job, and a crashed process
\* is started again.  No request is fair: a client may never call.
Fairness == WF_vars(JobStep)

Spec == Init /\ [][Next]_vars /\ Fairness

-----------------------------------------------------------------------------
(* Safety *)

\* "A lease is only ever returned once (one alert each)" (storage.py:591):
\* however scans, check-ins and crashes interleave, a lease is recorded as
\* timed out at most once and escalated at most once, and never escalated
\* without the audit row.
OneAlertEach ==
    \A l \in LeaseId : timeouts[l] =< 1 /\ hooks[l] =< timeouts[l]

\* A lease whose check-in close_lease accepted as being on time is never
\* reported as timed out, whichever of the job and the check-in came first.
OnTimeNeverEscalated ==
    \A l \in LeaseId : "closed" \in checkins[l] => timeouts[l] = 0

\* The requests about to send a plaintext key, or a plaintext, to their caller.
Releasing == {r \in Reqs : req[r].pc \in {"reply", "serve"}}

\* The lease of a checkout accounts for it: the row is there, with the caller
\* and the key, its audit row is there, and no other checkout answers with it.
AccountedFor(r) ==
    /\ req[r].lease \in checkouts
    /\ leases[req[r].lease] # NoLease
    /\ leases[req[r].lease].user = req[r].user
    /\ leases[req[r].lease].key = req[r].key
    /\ \A q \in Releasing \ {r} :
         req[q].pc = "reply" => req[q].lease # req[r].lease

\* With require_checkout a non-admin who opens a wrapped data key has a lease of
\* its own for it, one for each key sent: the row of the lease and its row of the
\* audit log are both in the database before the response is (config.py:69-71,
\* app.py:771-775).  The code leaves two paths open: /api/datakey/generate sends
\* a new data key, and /api/decrypt a plaintext, to whoever has the grant.
DataKeyLeased ==
    RequireCheckout =>
        \A r \in Releasing :
            \/ req[r].user \in Admins
            \/ req[r].pc = "serve" /\ req[r].via \in {"generate", "decrypt"}
            \/ req[r].pc = "reply" /\ AccountedFor(r)

(* Action properties *)

\* A lease row goes from open to expired to closed and never back; its owner,
\* key and deadline are fixed when it is created, and only a lease that is
\* open and past its deadline expires.
LeaseLifecycle ==
    [][\A l \in LeaseId : leases[l] # NoLease =>
         \/ leases'[l] = leases[l]
         \/ leases'[l] = [leases[l] EXCEPT !.status = "closed"]
         \/ Overdue(l) /\ leases'[l] = [leases[l] EXCEPT !.status = "expired"]
      ]_vars

(* Liveness *)

\* Every lease that is past its deadline is closed or expired in the end, also
\* when the process crashes on the way.
OverdueHandled ==
    \A l \in LeaseId : Overdue(l) ~> ~IsOpen(l)

-----------------------------------------------------------------------------
(* Refinement *)

Contract == INSTANCE LeaseContract WITH
    status <- [l \in LeaseId |-> leases[l].status],
    owed   <- job.batch,
    alerts <- timeouts

\* The handlers, the job and the crashes keep the contract of a lease: an
\* alert is owed from the scan to the audit row, and is given at most once.
ImplementsContract == Contract!ContractSpec

=============================================================================

# A verification project for QCG KMS and Sentinel Gate

This directory holds TLA+ specifications of the core of the repository, TLC
configurations that check them on small instances, and theorems about them that
TLAPS proves for every value of the constants. Source lines are quoted as
`file.py:line`. `K` is `QCG-KMS/src/qcg_kms`, and `G` is
`Sentinel-Gate-QCG/src/sentinel_gate_qcg`.

## 1. The system

Two services, a command line client and a web console.

* **QCG KMS** (`K`): an HTTP service that keeps post-quantum key pairs, seals and
  opens data for its users, and leases data keys for a limited time. Its handlers
  are plain functions, so the framework runs them in a pool of threads. They
  share one SQLite connection; writers hold a lock and commit, readers hold
  nothing. A background task expires overdue leases.
* **Sentinel Gate** (`G`): a reverse proxy and middleware that decides for each
  request whether to allow, limit, challenge or ban it. It is one event loop of
  coroutines over a Redis server. It can be embedded in the KMS.
* **The client** (`K/cli.py`, copied in `QCG-CLI-Kit`): encrypts files, checks
  them out and in, and pins the signing key of the service.
* **The console** (`QCG-KMS/ui/src`, called `U` below): a single page for users
  and administrators, which polls the KMS and changes its lists.

### Inventory

| Component | State | Operations | What is hard |
|---|---|---|---|
| Leases, escalation (`app.py` 121-134, 744-832; `storage.py` 533-604; `escalation.py`) | `leases`, `key_grants`, audit rows, the loop's batch | checkout, check-in, unwrap, decrypt, grant, revoke, scan, audit, webhook | threads against the job, failed audit rows, crash between commit and audit row, deadlines |
| Key table (`storage.py` 135-179; `service.py`; `app.py` 606-760) | `kms_keys`, the open transaction, the lock | generate, rotate, delete, encrypt, generate data key | readers on the writer's connection, rollback, crash, versions that are reused |
| Redis client and decision pipeline (`redis_client.py`, `middleware.py`) | failure count, time of opening, commands in flight | decide, execute, ping, half opening | outcomes in any order, many probes at once, outage in the middle of a request |
| Accounts (`app.py` 253-390, 511-556; `storage.py` 243-354, 396-425; `auth.py`; `security.py`) | `users`, `sessions`, two throttles in memory | setup, register, approve, login, logout, change and reset of a password, create, delete | check in one call and act in another, throttles lost in a restart |
| API keys, MFA, roles (`app.py` 511-520, 557-603) | `api_keys`, `totp_secret`, `mfa_enabled`, `role` | mint, revoke, enroll, activate, change role | enrolling again while MFA is on; keys and deletion |
| Audit log (`storage.py` 486-530) | a chain of hashes | append, list, verify | clock read before the lock, verification without it |
| Signing identity (`app.py` 84-97; `storage.py` 196-240; `cli.py` 316-378) | key pair in `kms_meta`, pins in the client | load or replace at start, verify, trust | replaced after a change of the master key |
| Rate limits and bans (`limiter.py`, `reputation.py`) | buckets, strikes and bans in Redis, the local buckets | consume, ban, unban, check | clocks of several workers, expiry, INCR and EXPIRE apart |
| Challenge (`challenge.py`, `middleware.py` 107-125) | burnt nonces in Redis, signed tokens | issue, verify, burn, pass | single use while Redis fails |
| Telemetry (`telemetry.py`, `livestats.py`, `telemetry_store.py`) | bounded queue, counters, history table | emit, consume, record, prune | full queue, failing sink, stop with a queue that is not empty |
| Anomaly score (`anomaly.py`) | features per identity in Redis | score, record outcome | numeric; its commands are in Breaker |
| Kernel sync (`kernel_sync.py`) | two nftables sets | list bans, flush, add | four commands that are not one |
| Client files (`cli.py` 385-545) | ciphertext, plaintext, sidecar with the lease | encrypt, decrypt, check in, shred | interrupted between two of its steps |
| Console (`U/App.jsx`, `U/api.js`) | cookie, requests under way, the parts of the page | sign in and out, forced password, lists, polls, second factor | answers that overtake each other, parts that are gone, other users' changes |
| Client address (`client_ip.py`) | none | resolve | headers that a client makes up |
| Cryptography (`crypto.py`, `service.py`, `kem/`, `sig/`) | none | seal, open, wrap, sign | a decapsulation that never fails, fields joined as text |
| Layers of a request (`app.py` of both, `device_auth.py`, `security.py`) | none | device gate, host check, decision, size, headers | which layer sees what another refused |
| Settings (`config.py` of both) | none | load, complete, refuse | what a process may start with |
| Admin API, metrics, logging, triage, kit, benchmarks | none that matters here | | |

How they interact. The handlers of the KMS call the store, which several of them
do more than once: between two calls other handlers, the expiry job and a crash
may come. Leases read the grants; a checkout opens an envelope with the key
table. Deleting a user removes its sessions, grants and API keys. Every handler
appends to the audit log, through the same lock. In the gateway the middleware
calls limiter, reputation, anomaly and challenge, which all send their commands
through one client with one circuit breaker; the telemetry consumer, the admin
API and the readiness probe use the same client. The kernel sync reads the bans
that the middleware wrote.

What makes each component correct: *leases*: no wrapped data key opened without an
audited lease where one is required, one alert per overdue lease, none for a check-in on time, every overdue
lease dealt with. *Keys*: one newest active version, envelopes that can be
opened, no use of a superseded pair. *Breaker*: opens only on a streak, sheds the
load of an outage, closes again, every request is answered. *Accounts*: an
administrator is left, sessions stand for approved accounts, guesses are bounded.
*Audit*: the chain verifies whatever interleaves. *Limits*: never more admitted
than capacity and refill pay for; bans and strikes expire. *Challenge*: a solution
is used once. *Telemetry*: no event blocks a request, every one is accounted for,
and the history stays bounded. *Kernel sync*: the filter follows the ban. *Client
files*: one readable copy at any time, and no plaintext shredded under an open
lease. *Identity*: a pin stays valid across restarts. *Console*: the page shows
whose session it has, and its lists come to show what the service has.
*Cryptography*: what is sealed opens with its own key, name and version only.
*Layers*: nothing passes a check that comes before it. *Settings*: no gateway lets
VIPs in on a placeholder and no KMS wraps its keys under one (other secrets may be
placeholders, section 4), and the ranges a process starts with are those the models
assume.

## 2. The modules

| Module | What it is |
|---|---|
| `Leases` | handlers, grants, expiry job, crash |
| `LeaseContract` | what a lease promises, without threads, clock or log; `Leases` implements it |
| `KeyStore` | the key table statement by statement, over the shared connection |
| `KeyCatalog` | versions appended and names dropped in one step; `KeyStore` implements it |
| `Breaker` | the circuit breaker and the pipeline of commands that runs through it |
| `Accounts` | accounts, throttles, sessions |
| `AuditChain` | the hash chain of the audit log, as operators on logs |
| `Limits` | the token bucket in Redis and the one of the fallback, with an ideal bucket beside each |
| `Bans` | strikes, ban and the packet filter that follows it |
| `ClientAddress` | the choice of the client's address, as an operator |
| `Challenge` | proof of work: single use and passes |
| `Telemetry` | event queue, consumer, rate, history |
| `Client` | the commands of `qcg` on one file, its lease and its pin |
| `Envelopes` | what the key service computes with its keys, over symbolic algorithms |
| `Ingress` | the stacks of middleware of both applications, as functions of a request |
| `Configuration` | which settings a process starts with, and what it makes of them |
| `Console` | one tab of the web console and the handlers it calls |
| `MC...` | the definitions TLC needs: symmetry, inputs |
| `...Proofs` | the theorems |

Definitions marked `(mutant)` are deliberate mistakes: with one of them in place
of the definition that follows it, a property must fail. They are used by
nothing else. Variables marked `(history)` are read by properties only.

The type invariant of a module is a theorem (`TypeCorrect`) and is not checked
again by a run, except that of `Console` (`TabTypeOK`), and that of `Telemetry`
(`FlowTypeOK`), which is a conjunct of `Accounted`. Eight modules hold the proofs,
so some hold those of several modules, whose names are therefore distinct: `Flow...`
belongs to `Telemetry` and `Tab...` to `Console`.

`AuditChain`, `ClientAddress`, `Envelopes`, `Ingress` and `Configuration` have no
state. They are operators, whose properties TLC evaluates as assumptions when a run
starts (`MCAccounts`, `MCBans`, `MCClient`, `MCBreaker`), over small sets of inputs,
and which are proved for all inputs.

### Leases

One step is one call of the store, which is a committed transaction; a request is
a thread with a program counter (`req`), and the expiry loop another (`job`).
`CheckoutBegin` to `CheckoutReply` are the handler `checkout` with its four calls
of the store; `CheckinClose` and `CheckinAudit` are `checkin`; `ServeBegin` and
`ServeReply` are the three paths that send data without a lease, each with its own
rule (`MayServe`): `/api/datakey/unwrap`, `/api/datakey/generate` and `/api/decrypt`.
`AuditFails` is the audit row that raises after the lease is stored or closed: the
request ends, and the lease stays. `JobWake` reads
the clock before the lock is taken, as `expire_due_leases` does; `JobScan` is its
transaction; `JobAudit`, `JobWebhook` and `JobError` are
`process_expired_leases` and the `except` of the loop. `Crash` loses threads and
job and keeps the tables. The audit rows that properties read are variables
(`checkouts`, `checkins`, `timeouts`). A request that is refused before it has
changed anything is no step. `now` is the clock of the one machine, and never
goes back.

* `leases_safety`: two threads, two leases, exclusive checkout, `require_checkout`,
  failing audit rows, failing webhooks, one crash, clock up to 3 (a checkout, its
  deadline, past it, and once more). 4 269 160 states. `OneAlertEach`,
  `OnTimeNeverEscalated`, `DataKeyLeased`, `LeaseLifecycle`. `DataKeyLeased` asks for
  a lease of its own for each key that is sent, so that neither an earlier checkout of
  the same user and key nor a closed one accounts for a later one.
* `leases_live`: one thread, two leases, no symmetry. 969 912 states.
  `OverdueHandled` and `ImplementsContract`.

Fairness: `WF_vars(JobStep)`. The loop sleeps a fixed time, catches every
exception, and is created again at every start. `JobError` is not fair: an audit
row may fail, it need not. No request is fair. The clock is not fair either;
`OverdueHandled` starts from a lease that already is past its deadline.

### KeyStore

Writers hold `lock` and run a transaction; readers hold nothing and use the same
connection. So there are two tables: `live`, as the connection sees it, and `db`,
as committed. A rotation is `CreateLock` (the SELECT of the highest version),
`CreateDemote` (the UPDATE), `CreateInsert`, `Commit`. `Abort` rolls back,
`Crash` restarts with `db`. `EncryptRead` reads the active row at any time;
`EncryptReply` waits for the lock, because the audit row does. A key pair is a
model value; an envelope remembers, for the properties, which pair sealed it.

* `key_store_safety`: two names, four pairs, two threads, deletions, failures, a
  crash. 177 020 states. `KeyTableOK`, `SealsWithCurrentKey`, `ImplementsCatalog`.
  Four pairs allow two rotations of a name, or one of each, with a fourth pair
  drawn and lost.
* `key_store_rotation`: one name, three threads, four pairs, a crash, no deletions
  or failures. 20 464 states. `EnvelopeFindsItsKey`, which does not hold with them
  (section 4).

### Breaker

A coroutine gives way only while a command is in flight, so one step takes the
answer, does what the code does, and sends the next command or reaches a verdict.
`Then` is the order of the commands in `_decide_with_redis`; what they do in Redis
is left to `Limits`, `Bans` and `Challenge`, so every branch may be taken. `wait`
is the time left until the circuit may half open; `failures` is the code's counter
and saturates at `MaxFailures`, above the threshold, beyond which the code does not
tell values apart. Redis goes down and up at any time; a command in flight has the
outcome of the moment it ends.

* `breaker_outage`: two coroutines, threshold 3, reset 2. 14 914 states.
  `OpensOnStreak`, `OutageLoad`, `FallbackOnlyFirst`, `OpensApart`, `Answered`,
  `Recovers`. A threshold above the number of coroutines makes a streak of several
  rounds, and two coroutines give stragglers and two probes.

Fairness: time passes (`WF(Tick)`), and every command ends and is handled
(`WF(Complete(t))`), by the socket timeout of the client and the event loop.
Requests need not arrive; `Recovers` assumes that Redis stays up and that they do,
because the breaker half opens only when somebody asks.

### Accounts and AuditChain

A request is a thread at a stage of its handler. `SetupCheck`, `RegisterCheck`,
`LoginCheck`, `ChangeCheck` and `Authorise` are the checks a handler begins with;
the following stages are its calls of the store. So between the count of
administrators and a deletion (`app.py:528-531`), or between the verified password
and the session (`app.py:313-333`), everything else may happen. A user is a row
`[admin, status, temp]`; `creds` holds both tables of credentials, the sessions
(tokens that end) and the API keys (`MintCheck`, `Mint`, `AdminRevoke`), which
`_authenticate` takes alike. Passwords and codes are right or wrong. The throttles count for one client; `Age` lets an entry leave
its window. `Crash` empties the throttles and seeds an administrator if the table
is empty. `overlap` and `apart` remember the cases that the properties leave out:
deletions that overlap, and names that were deleted while a session or a key was
being made for them, or that got a key without an approved account.

* `accounts_safety`: two names, a session and an API key, two threads, one attempt.
  1 441 069 states. `ThrottleBound`, `CredentialsLive`, `AdminKept`. Two names are an
  administrator and a victim, or two administrators; two threads are every pair
  of handlers, and two credentials let them act for different users. The tokens and
  keys bound what is live only, and come back.

No fairness: nothing is promised to a request here. Left out: changes of roles,
which only choose the time of a lease, and the pruning inside the throttle. The
second factor is in `Console`.

`AuditChain` is `audit_append` and `audit_verify` as operators. A row is the time, a
number of readings of the clock of which `Grain` share six digits, and columns that are
NULL or a sequence of characters, one of which is the bar that separates columns; two
columns stand for the five. `Text` is what the code makes of a row (`storage.py:494-497`):
the time is rounded (`Stamp`), NULL becomes an empty text (`Shown`), and the bar is put
between (`Joined`). A hash is the pair it is computed from, so that equal hashes mean
equal texts and not equal rows. `MCAccounts` assumes the four statements about it for
logs of up to two rows (TLC evaluates them at the start of `accounts_safety`), with the
three alterations that are not found; `AccountsProofs` proves them for every log.

### Limits

One identity, its bucket in Redis (`bucket`) and its entry in the fallback table of
one worker (`local`). `Send` reads the worker's clock, `Script` is
`TOKEN_BUCKET_LUA`, which runs atomically but with the clock that was read up to
`MaxLag` ago, so scripts come in another order than their clocks. The time to live
is the code's. `Modes` are the limits that are in force with no alarm, under attack
and for an anomalous client. `LocalConsume` and `OtherConsume` are
`LocalTokenBucket.consume` for this identity and for one that is new; of the others
only their number before and after this entry matters, because a full table pushes
out the entry inserted first. `credit` and `creditLocal` are ideal buckets on one
clock; the history `promise` is what a refusal told the client. Tokens are whole
numbers of a unit that makes the settings whole; rounding of floats is left out.

* `limits_safety`: two requests in flight, costs 1 and 3, burst 4, refill 2, lag 1,
  slack 1, a table of two identities, clock up to 4, which is beyond the time that a
  key lives. 1.29 million states. `PaidFor`, `RetryKept`. A lag of one tick and two
  requests are enough to set a bucket's clock back.

### Bans and ClientAddress

One identity: its counter of strikes, its ban, requests that check and punish, the
operator API that bans and unbans, and the sidecar. One step is one command of
Redis (`Count` is INCR, `Expire`, `SetBan`, `UnbanBan`, `UnbanStrikes`) or of nft
(`SyncList`, `SyncFlush`, `SyncAdd`). A command that fails ends its request and may
have been applied, and `Overflow` is the power of the factor that no float holds: the
strike is counted and no ban is set. Times to live count down in `Tick`. The factor is
a fraction, `Factor / Unit`.

* `bans_follow`: two requests, base 2, factor 3/2, longest ban 4, window 4.
  23 424 states. `StrikesTimed`, `StrikesForgotten`, `LetInAgain`, `KernelFollows`.
  Strikes saturate where a ban has its longest time; the window is long enough to
  count all of them in it.

`StrikesForgotten` does not ask for one kind of window: it says that an identity that
stops offending ends with no strike for good, unless an EXPIRE was lost. `KernelFollows`
has two halves: an address that is banned no more comes to stay out of the filter,
although a round that listed it before may add it once again; and one that stays banned,
by bans that are renewed, comes to be in the filter again and again.

Fairness: `WF(Tick)`, and `WF(Proceed(r))`: a command sent by a request ends, by the
socket timeout. Failures are not fair. Neither is the sidecar, which depends on
Redis and nft: `KernelFollows` assumes that it finishes its round now and then, and
`LetInAgain` that operators stop banning (a burst of requests can only set the bans
that were on their way).

`ClientAddress` is `resolve`. `AddressKept` says that what a client puts in the
header itself changes nothing, for a client that comes through exactly as many
trusted proxies as are configured, or directly. `MCBans` evaluates it for four
addresses, two of them proxies; `BansProofs` proves it.

### Ingress

A middleware is a function of the request and of the answer it would get from what
it wraps. `Gateway` and `Kms` are the two stacks in the order of `create_app`
(`G/app.py:31-104`, `K/app.py:157-214`): the middleware that is added last is the
outermost. An answer carries the layers that the request has reached, the layers
whose headers it bears, and what telemetry has recorded of it. What the engine
decides is an input. `DeviceFirst`, `SizesHold`, `HeadersHold`, `RecordsHold`.

### Challenge

Challenges and passes are signed and kept by clients, so the gateway's only state
is the mark of a used nonce in Redis (`key`). `Verify` and `VerifyPass` are the
checks on a worker's clock; `Vouch` is a request with the VIP key, whose solution
nobody verifies and which is given a pass all the same; `Present`, `BurnCreated`, `BurnExists`, `BurnOpen`,
`BurnFails` and `Admit` are the way of a solution through `_decide_with_redis` and
`_burn_challenge`; `Enter` is a request with a pass. Issued tokens carry whole
seconds. `BurnFails` may have set the mark. `Lose` is a restart of Redis, and begins
the count of uses again.

* `challenge_use`: two clients, one of them a VIP, one challenge, two requests under
  way at a time, two ticks a second, challenges of two seconds and passes of one, lag
  one tick, clock up to 9. 1 841 614 states. `UsedOnce`, `PassEarned`. The clock goes
  past the expiry of a challenge, of its mark and of the pass it earned; a request that
  has ended makes room for another, so there may be a use after a refused one. A pass
  that no clock accepts any more is forgotten.

`PassEarned` says what a pass is worth: a solution that was accepted from its own
client, or the VIP key at its own address, not long before. It is not a solution in
every case, which is what one would expect of the code (section 4).

`UsedOnce` allows a second use in one case: the first was accepted within `MaxLag`
of the issue, and the second is already verified when challenge and mark expire
together. The mark lives as long as the challenge (`middleware.py:123`), counted
from the moment it is set.

### Telemetry

A step is what the event loop does between two awaits. `Emit` is `emit`; `Take`,
`Reverse`, `FindLocally`, `AskProvider`, `ProviderAnswers`, `Record` and `Outcome`
are the consumer with the awaits of its lookup; `RecordLive` and `RecordRow` are the
two sinks, called in `Fold`. The history has `view`, the table as the connection
sees it, and `db`, what is committed: an INSERT whose COMMIT failed is committed by
the next. `Restart` loses queue, event in hand and figures. The rate is
`RateTotal` over `RateSpan`; the sum over the buckets is a recursive function of the
seconds (`RateSums`), so that it can be reasoned about.

* `telemetry_flow`: queue of 2, window 1, retention 1, pruning every 2 seconds, four
  events, clock up to 5. 381 627 states. `Accounted`, `RetentionBound`, `RateBound`,
  `Drained`. Four events fill the queue with one in hand and drop one.

Fairness: `WF(Consume)`. Every await of the consumer has a timeout or an `except`.

### Client

One file: `plain`, `cipher` (`<file>.qcg`), `sidecar`, the pinned key, and of the
KMS its leases and its signing identity. A command is a program of its own with a
stage; `Kill` ends it between two steps, and stands for an error of the KMS too.
Files are written in place, so they are torn from `CipherOpen`/`PlainOpen` on until
`CipherWrite`/`PlainWrite`. `PowerFails` tears what was not written out (`dirty`).
`Restart(m)` is the start of the KMS with master key `m`: `get_signing_identity`
loads the identity, or replaces it if it cannot be opened.

* `client_files`: three versions of the file, two leases, two master keys.
  297 114 states. `ClosedBeforeShred`, `PinValid`, `EditsKept`. Two leases are needed
  for an orphan beside the current one; the third version for an edit while an
  encryption of the second is under way.

`EditsKept` excludes the four steps that the client does not guard (`Unguarded`).

### Envelopes

What ML-KEM, HKDF, AES-GCM and ML-DSA return is a tuple of what it depends on: equal
values have equal origins, and a decapsulation with a foreign key returns another
secret, as FIPS 203 prescribes, not an error. `EnvelopeEncrypt`, `EnvelopeDecrypt`,
`UnwrapDataKey`, `WrapSecret` and `SigningMessage` are the code's own composition of
them. `EnvelopeBound`, `DataKeyBound`, `SecretsSealed`, `SignatureBound`; this is
what `KeyStore` and `Leases` take for granted when an envelope opens with its pair
and with no other. The strength of the algorithms is not a question here.

### Configuration

`LoadGate` and `LoadKms` are the two `get_settings`, with their validators: settings
are refused, or accepted with what the process makes of them. All numbers have their
bounds (`GateNumbers`, `KmsNumbers`); of a secret only what the validators ask of it
is kept. A float counts in thousandths, so a positive one is taken to be at least a
thousandth. `BareStart`, `SafeStart`, `LoadedStands`, and `ModelsJustified`, which says
for those constants of the other modules that are settings that what is assumed of them
holds of the settings of every process. Not settings, and so assumed only: the
lifetimes of leases by role and the costs of single routes, which no validator bounds;
how late the clock of a worker is read (`MaxLag`, in `Challenge` less than the life of
a challenge, for which less than a second is enough, and in `Limits` no more than the
60 seconds of `Slack`); what `math.ceil` makes of a burst and a refill; the numbers
written in the code, such as the hour between prunings; users, requests and clients;
and the bounds of the runs.

### Console

A request of the tab is sent (an action of `Person`, or a poll), served by the
handler of the KMS (`Serve`) and answered (`Arrives`), in three steps; it may fail
in each. `flight` holds the requests; `gone` says that the part of the page that
asked is not mounted any more, so its answer finds nobody. `part` is what mounted
parts hold. Two handlers have a step more, because what they check and what they then
change are two transactions: a login (`ServeCheck`, `ServeLogin`) and the activation of
a second factor (`ServeCheck`, `ServeActivate`); between the two the account may be
deleted or enrolled again. `Elsewhere` is what other browsers do. `OtherTab` is another
tab of the same browser, which has the same cookie: it signs in as anybody, or out, and
this page is not told. What else it may do is what `Elsewhere` and the requests of this
tab do, a second enrolment being that of a double click. `Changers` and `Listers` are
who may change the list that is not polled and who is given it: for the API keys anybody
may make one of his own and only administrators see the list (`K/app.py:581`, `593`).

* `console_tab`: an administrator and an employee, two sessions, two requests by
  clicks and one by a poll at a time, two filters, two secrets, three clicks.
  594 245 states. `IdentityShown`, `SecondFactorKept`, `OwnChangesShown`,
  `MonitorSettles`, `RequestsSettle`, `TabTypeOK`. Two requests are enough for
  answers to cross; three clicks are a sign-in and two more.

`IdentityShown` asks only that no `/api/me` is under way; a sign-in or a sign-out
under way, and requests that have lost their part, do not disturb it. The
exceptions, an answer of `/api/me` that was late or failed and another tab that has
signed in or out since, are remembered in `astray`. `SecondFactorKept` has two more, in
`replaced`: an enrolment while the factor is enabled, and an enrolment or a removal
between the two transactions of an activation. Administrators are not deleted here;
`Accounts` has that.

Fairness: `WF` of the arrival of some answer of a click. Polls are not fair; the two
liveness properties assume that their answers keep arriving.

## 3. What is proved

TLAPS checks every leaf of the eight `...Proofs` modules, for any sets of users,
keys, threads, requests and any settings. Every safety invariant and every action
property that a run checks is the statement of a theorem. The assumptions are those
stated in the modules (`ConstantsAssumption`, `NoneAssumption`,
`AddressAssumption`...): finite sets where they are counted, positive thresholds,
null values that are different from others. `PowersAssumption` of `Bans` is a fact
of arithmetic, that powers of a natural number are natural and those of a positive one
positive, stated because the provers do not know exponentiation; `DefaultsAssumption` of `Configuration` says
that the default of each setting is within its bounds, which TLC evaluates and the
provers cannot, for a table of that width. TLC evaluates every assumption in the
runs. Each module states an inductive invariant (`IInv`, `FlowInv`, `TabInv`) and
proves it step by step; the safety properties follow.

| Proofs in | are about |
|---|---|
| `LeasesProofs`, `KeyStoreProofs`, `LimitsProofs`, `ChallengeProofs` | the module of the name, and the contract it implements |
| `BreakerProofs` | `Breaker`, `Configuration`, `Telemetry` |
| `AccountsProofs` | `Accounts`, `AuditChain` |
| `BansProofs` | `Bans`, `ClientAddress`, `Ingress` |
| `ClientProofs` | `Client`, `Envelopes`, `Console` |

* **Leases.** `IInv` adds to the types: the clock the job read is not ahead; a
  batch exists only between scan and audit row; a lease in a batch has not been
  recorded, and is no longer open; an on-time check-in, recorded or in progress,
  left a closed lease that is in no batch (without the part in progress
  `OnTimeNeverEscalated` is not inductive); a request about to reply has its
  audited lease, which no other request has (each stage of a checkout past the INSERT
  holds a lease of its own). `AlertsOnce`, `OnTimeSafe`, `DataKeysLeased`, `LifecycleHolds`,
  and `ContractImplemented`: each step is a step of `LeaseContract` or a stutter.
* **KeyStore.** The table is proper at every commit because `IInv` says how far
  `live` is ahead of `db` in each stage of the one transaction under way, that a
  thread is inside a transaction exactly when it holds the lock, and that a pair
  belongs to one row or one request. `KeyTableProper`, `SealsCurrent`,
  `CatalogImplemented`; and `EnvelopesOpen` under `~Deletes` and `~Faults`.
* **Breaker.** While the circuit is open, errors counted and commands in flight
  are together at most the coroutines; once half open the count is one short of
  the threshold and the reset time is over. `StreakNeeded`, `LoadBounded`,
  `FallbackPure`, `ReopensLate`.
* **Accounts.** Failures counted and threads past the check are together below
  the limit plus the threads; a request about to create a session or a key has a
  live account or one that was set apart since; until two deletions overlap, the one that was
  checked is alone and leaves an administrator, so every stage that needs an
  administrator finds one. `ThrottleHolds`, `CredentialsHold`, `AdministratorStays`.
* **AuditChain** (in `AccountsProofs`). `ChainGrows`: an append keeps a log that
  verifies. `AlterationsFound`: altered fields are found exactly if the text of a
  row changes; `FieldAlterationsFound`: so a single altered field is, unless NULL and
  the empty text change places or the time moves within its six digits; `EndsNotMissed`:
  rows taken off the end are not.
* **Limits.** The ideal bucket holds at least what the bucket in Redis is worth on
  the fastest clock, and the key lives until it would be full on the slowest
  (`BucketInv`, which needs `FlightInv`: a script in flight is at most `MaxLag`
  old). So an expiry gives nothing away, and neither does a tightened limit.
  `NothingFree`; and `RetriesKept`, because the entry of the fallback will hold the
  refused cost when the client was told to come back.
* **Bans and ClientAddress.** `StrikesHaveTime`, with the fact that a request that
  sets a ban has counted a strike. `AddressesKept` for any proxies and headers.
* **Challenge.** The mark lives at least a challenge's life after each use, and a
  solution in flight was verified before the challenge expired; so a second use
  falls between the two only if the first came at once. A request that was let on, for
  a solution or as a VIP, has been for at most the lag of two commands when its pass is
  made (`LetOnKeeps`). `ChallengeUsedOnce`, `PassesEarned`.
* **Client.** What each command has done to the files at each of its stages
  (`FilesInv`). `ShredsClosed`, `PinsValid`, and the action property `VersionKept`.
* **Telemetry.** `FlowInv` is `Accounted`, that the events in the pipeline bear
  numbers already given out (without it a new event need not come last), and that
  the last pruning left nothing older than its cutoff and the last row came before
  the next one was due. `EventsAccounted`, `RetentionHolds`. `RateHolds` adds that no
  bucket exceeds the busiest second (`PeakInv`). The sum over the buckets is bounded
  by the busiest second times the seconds that have any event, by induction over
  the seconds (`SumsBound`), and these are at most one more than the window. The
  library's induction theorems take an operator and cannot be used; `Successors`
  derives induction from the well-foundedness of `<` on the naturals, for a set in
  the place of the operator, and `SumsExist` shows with it that the recursive
  definition has a solution.
* **Console.** `TabInv`: every request under way is proper for what the service and
  the authenticator hold now (an answer to `/api/me` names the owner of its token,
  however old it is, because tokens are never given to another user; a code that was
  sent is of a secret the person holds); what is not `gone` is mounted; the page
  shows the cookie's user, or `/api/me` is under way and will tell (`IdentInv`); a
  list has the changes made in it, or an answer that will have them is under way
  (`OwnInv`); an activation whose code was verified still has the secret of that code,
  or its user was enrolled again or removed since (`FactorInv`). It uses that `null` is not a request (`NoneAssumption`). `TabTypes`,
  `IdentityHolds`, `SecondFactorHolds`, `OwnChangesHold`.
* **Envelopes.** `EnvelopesBound`, `DataKeysBound`, `SecretsAreSealed`; and
  `SignaturesBound`, because a field begins with its length, so that the message can
  be taken apart in one way only (`crypto.py:75`).
* **Ingress.** One lemma says what the stack of the KMS makes of a request
  (`KmsAnswer`), and the theorems read it: `DevicesFirst`, `SizesAreHeld`,
  `HeadersAreHeld`, `RecordsAreHeld`.
* **Configuration.** `StartsBare`, `StartsSafe` (for the secrets it names), `StartsAgain`
  (what a process has made of its settings it would make of them again), `StartsJustify`
  (for the constants that are settings, listed in section 2).

Only model-checked: the liveness properties (`OverdueHandled`, `Answered`,
`Recovers`, `StrikesForgotten`, `LetInAgain`, `KernelFollows`, `Drained`,
`MonitorSettles`, `RequestsSettle`). Each rests on weak fairness, which is a
statement about `ENABLED`, and that is outside the prover's reach.

## 4. Where the code and its words differ

Differences met while modelling. The models do what the code does, and the
properties name the exception where one is needed.

Leases
* "If true, only one open checkout per key at a time" (`K/config.py:67`): the test
  and the INSERT are two calls (`app.py:797`, `812`), so two checkouts by two users
  may both pass it.
* "If the deadline passes without a check-in, the KMS records a `checkout_timeout`
  audit event" (`QCG-KMS/README.md:179-180`): the scan commits before the first
  audit row (`escalation.py:38`), and a crash in between loses the alert for ever.
* A check-in after the deadline and before the next scan is recorded as late and
  never escalated (`storage.py:574`). A retry of an on-time check-in is recorded
  as late too.
* "so every decryption is leased, time-bounded, and escalation-tracked"
  (`K/config.py:69-71`, and `app.py:771-772`): `require_checkout` closes
  `/api/datakey/unwrap` only. `/api/datakey/generate` hands whoever has the grant a new
  data key in plaintext with no lease (`app.py:744-760`), and `/api/decrypt` opens data
  (`app.py:717`); `DataKeyLeased` is about the opening of wrapped keys and names both.
* An audit row that fails after `create_lease` (`app.py:812-813`) ends the request with
  an error and leaves an open lease that the log does not name, for a key that nobody
  was sent. It keeps the key from others where checkouts are exclusive, and is
  escalated.

Keys
* "so decryption finds the right private key automatically" (`QCG-KMS/README.md:97`):
  an encryption may read the row of a rotation that is rolled back afterwards
  (`storage.py:155`), and its envelope has no key.
* "locate the exact private key" (`service.py:5-6`): a key that is deleted and
  generated again starts at version 1 (`storage.py:144`), and an old envelope names
  the new pair.
* A rotation that read its key before a deletion makes version 1 of a key nobody
  generated (`service.py:66`). A reader between the UPDATE and the INSERT of a
  rotation is told that the key does not exist.

Accounts, audit log
* "cannot delete the last administrator" (`app.py:530`): two that delete each other
  both pass the check (`app.py:528`). `needs_setup` then reports true, and
  `/api/setup` answers 409 as long as any user exists.
* An administrator can make an API key for any name (`app.py:584-588`): whoever
  registers that name later shares it with the holder of the key, before approval.
  A key or a session that is being created while its user is deleted outlives the
  user, and serves the next one of that name.
* Two first-run setups can both succeed (`app.py:255`).
* A reset of a password leaves the sessions of the user (`storage.py:277`), and
  one of them may set the new password without knowing the temporary one
  (`app.py:368`).
* `/api/mfa/enroll` replaces the secret of a factor that is enabled (`app.py:562`,
  `storage.py:460`). `/api/mfa/activate` verifies the code and enables the factor in two
  calls (`app.py:571-574`): an enrolment served in between leaves an enabled factor with
  a secret that nobody may have seen.
* Deleting an API key by its label deletes every key with that label
  (`storage.py:390`).
* `audit_verify` "returns False if any row was altered" (`storage.py:517`): not if
  characters move across a separator, if a column that is NULL becomes empty or the
  other way round (`storage.py:496-497`), if the time changes behind its sixth digit,
  nor if rows are missing at the end.

Gateway
* "instead of cascading HTTP 500s" (`redis_client.py:7-9`): `decide` catches
  `CircuitOpen` only (`middleware.py:170`), so the commands that fail before the
  circuit opens end as server errors. "On a Redis hiccup we fail open"
  (`middleware.py:112`): likewise only while the circuit is open.
* INCR without its EXPIRE leaves a counter that never expires (`reputation.py:66`).
* "Count strikes within a rolling window" (`reputation.py:62`): the EXPIRE is sent with
  the first strike only, so the window is fixed, and begins with the strike that made
  the counter.
* `factor ** (strikes - 1)` raises OverflowError for a very long streak
  (`reputation.py:69-70`), after the strike was counted and before a ban is set: whoever
  offended most is not banned.
* "least-recently-used identities are evicted when full" (`limiter.py:112`): the one
  evicted is the one inserted first (`limiter.py:131-132`), however busy it is.
* A request with the VIP key skips the verification of its solution
  (`middleware.py:198`), and still gets a pass for its address if it bears any token and
  solution while a challenge would be needed (`middleware.py:233-235`).
* The docstring of `apply_to_nft` says "atomically" (`kernel_sync.py`); flush and add
  are commands of their own, and a failure in between leaves nobody blocked until
  the next round.
* HSET without its EXPIRE caches a location for ever (`telemetry.py:321-335`).
* No hop (`G/config.py:68`) behaves like one.
* A handler or an engine that raises passes every middleware: its 500 bears no
  security headers, and telemetry has no record of it.
* Of the secrets only the VIP key is compared with the known placeholders;
  `hmac_secret` and `admin_token` need only be present (`G/config.py:277-324`).
* No validator bounds `route_costs` or, in the KMS, `checkout_ttls`: that they are
  positive is an assumption of `Limits` and `Leases`.

Settings, layers and envelopes of the KMS
* "Order: outermost first" (`K/app.py:163`): the middleware listed first is the
  innermost. A refusal for its host or its length bears no security headers.
* With the default settings the embedded gateway refuses a body above 1 MiB, below
  the limit of the KMS itself, twice `max_plaintext_bytes`.
* `QCG_ALLOWED_HOSTS=","` is read as no hosts, and no host is checked.
* "unwrap failed (wrong key or tampered header)" (`service.py:159`) is not what
  happens for a ciphertext of the right length: another key comes back, which opens
  nothing (`DataKeyBound`).

Client
* `decrypt` run twice overwrites the sidecar, and the first lease is orphaned; a kill
  between the checkout and the sidecar orphans one too, and the check-in that follows
  closes nothing and shreds. It also truncates a plaintext that was edited.
* A sidecar that is torn stops every later check-in, after it has re-encrypted. A torn
  trust store loses all pins. Re-encrypting a torn plaintext replaces a good `.qcg`;
  the `.qcg` is not synchronised before the plaintext is shredded.
* A restart of the KMS with another master key replaces its identity (`app.py:90`), and
  every pin fails.

Console
* Enter in the sign-in form does not look at `busy`: two logins, one orphaned session.
* The answer of `/api/me` may come after another sign-in (`App.jsx:1177`). The cookie is
  that of all tabs (`App.jsx:1184-1187`), and a page does not ask again: after a sign-in
  or sign-out in another tab it shows the earlier user, whose requests are no longer his.
  A logout that fails is shown as done.
* Anybody signed in may make an API key (`K/app.py:581`), and only an administrator is
  given the list (`K/app.py:593`).
* "Decline" in a list that is out of date deletes an account that has been approved
  (`App.jsx:1022`). Lists that are not polled keep an older answer that came late.

## 5. What is left

* A composition of grants, leases and key table with the deletion of users: what a
  deleted user still holds. Today `Leases` takes an envelope to be opened, and
  `Accounts` does not see grants.
* Changes of roles while a checkout is choosing its time.
* Which password is in force after a reset that races a change (`app.py:368`).
* Two threads in the pruning of one throttle (`security.py:92`).
* The first load of the console's lists, and its benchmark panel.
* Abstract specifications, with the proof that they are implemented, of the breaker
  (closed, open, half open), of a challenge (unused, used) and of the telemetry queue.
* A proof that the ideal buckets of `Limits` bound what is admitted in any interval,
  not only since the start.

Not modelled: the anomaly score (statistics over reals, and a trained model; its
commands are in `Breaker`), the classes of devices (patterns over user agents), the
strength of the algorithms (`Envelopes` takes them at their definitions; `Challenge`
and `AuditChain` take signatures and hashes to hold), geo lookups beyond their
awaits, metrics, logging, the triage of incidents (offline, changes no state),
packaging and the copy of the client in the kit, benchmarks.

## 6. Running

    tlc -config LeasesSafety.cfg MCLeases.tla
    tlapm LeasesProofs.tla

Each run is a `.cfg` of its `MC` module, named in `PROJECT.json`. `leases_safety`,
`leases_live`, `limits_safety`, `accounts_safety`, `challenge_use`, `telemetry_flow` and
`console_tab` take one to three minutes, the others less. Deadlock is checked, except where a bound on the
clock, the events or the clicks ends the behaviour (`limits_safety`,
`challenge_use`, `telemetry_flow`, `console_tab`).

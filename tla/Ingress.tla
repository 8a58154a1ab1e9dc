------------------------------- MODULE Ingress -------------------------------
(***************************************************************************)
(* The way of a request into Sentinel Gate and into the KMS: the stacks of *)
(* middleware that their applications are wrapped in (app.py of both), the *)
(* device gate (device_auth.py), the host check, the gateway's middleware  *)
(* around its decision (middleware.py) and the KMS's own (security.py).    *)
(*                                                                         *)
(* A middleware is a function of the request and of the answer that it     *)
(* would get from what it wraps.  What the engine decides and what the     *)
(* application does are part of the request.                               *)
(***************************************************************************)
EXTENDS ClientAddress

CONSTANT Hosts    \* values of the Host header

\* What the engine may decide, or the application do; either may raise instead.
Decisions == {"allow", "ban", "limit", "challenge", "unavailable", "raises"}
Outcomes == {"answers", "raises"}

\* A content-length that is not there, one that is no number, and the others.
None == <<"none", 0>>
NoNumber == <<"no number", 0>>
Lengths(numbers) == {None, NoNumber} \union ({"length"} \X numbers)

Request == [peer : Addresses, certified : BOOLEAN, probe : BOOLEAN, host : Hosts,
            length : Lengths(Int), crowded : BOOLEAN,
            decision : Decisions, outcome : Outcomes]

IsLonger(length, most) == length[1] = "length" /\ length[2] > most

\* An answer: its status, whose security headers it bears, which layers the request
\* has reached, and what telemetry has recorded of it.
Answer(status, reached) ==
    [status |-> status, marks |-> {}, reached |-> reached, records |-> {}]

Through(layer, inner) == [inner EXCEPT !.reached = @ \union {layer}]

\* The handlers.  What they raise goes through every middleware, and becomes a 500.
App(r) == Answer(IF r.outcome = "raises" THEN 500 ELSE 200, {"app"})

Crashed(r, answer) == r.outcome = "raises" /\ "app" \in answer.reached

-----------------------------------------------------------------------------
(* Sentinel Gate *)

\* DeviceAuthGate; Trusted is settings.trusted_proxies.
DeviceGate(r, inner) ==
    IF r.probe \/ (r.peer \in Trusted /\ r.certified)
    THEN Through("device", inner)
    ELSE Answer(403, {"device"})

\* TrustedHostMiddleware, which is put into the stack only if there are hosts.
HostsChecked(hosts) == hosts # << >> /\ hosts # <<"*">>

HostGate(hosts, r, inner) ==
    IF ~HostsChecked(hosts) \/ \E i \in DOMAIN hosts : hosts[i] = r.host
    THEN Through("host", inner)
    ELSE Answer(400, {"host"})

Status(decision) ==
    CASE decision = "ban" -> 403
      [] decision = "limit" \/ decision = "challenge" -> 429
      [] decision = "unavailable" -> 503

Decided(r, inner) ==
    CASE r.decision = "raises" -> Answer(500, {"sentinel", "engine"})
      [] r.decision = "allow" ->
            LET lost == Crashed(r, inner)
            IN  [inner EXCEPT !.marks = IF lost THEN @ ELSE @ \union {"gate"},
                              !.records = IF lost THEN @ ELSE {inner.status},
                              !.reached = @ \union {"sentinel", "engine"}]
      [] OTHER ->
            [status |-> Status(r.decision), marks |-> {"gate"},
             reached |-> {"sentinel", "engine"}, records |-> {Status(r.decision)}]

\* SentinelMiddleware: cheap checks, then the decision; refusals and answers are
\* decorated and recorded, what is raised is not.
Sentinel(maxBody, r, inner) ==
    CASE r.crowded -> Answer(431, {"sentinel"})
      [] ~r.crowded /\ IsLonger(r.length, maxBody) -> Answer(413, {"sentinel"})
      [] OTHER -> Decided(r, inner)

\* create_app: the middleware that is added last is the outermost.
Gateway(s, r) ==
    LET checked == HostGate(s.trusted_hosts, r, Sentinel(s.max_body_bytes, r, App(r)))
    IN  IF s.mtls_enabled /\ s.mtls_mode = "header" THEN DeviceGate(r, checked) ELSE checked

-----------------------------------------------------------------------------
(* The KMS *)

SecurityHeaders(r, inner) ==
    IF r.outcome = "raises" THEN inner ELSE [inner EXCEPT !.marks = @ \union {"kms"}]

BodySizeLimit(most, r, inner) ==
    CASE r.length = NoNumber -> Answer(400, {"size"})
      [] IsLonger(r.length, most) -> Answer(413, {"size"})
      [] OTHER -> Through("size", inner)

\* create_app; "starts" is whether the embedded gateway does: if not, the KMS goes on
\* without it.
Kms(s, r) ==
    LET own == HostGate(s.allowed_hosts, r,
                        BodySizeLimit(2 * s.max_plaintext_bytes, r, SecurityHeaders(r, App(r))))
    IN  IF s.sentinel_embedded /\ s.starts THEN Sentinel(s.max_body_bytes, r, own) ELSE own

-----------------------------------------------------------------------------
GateSettings(sizes, lists) ==
    [trusted_hosts : lists, max_body_bytes : sizes, mtls_enabled : BOOLEAN,
     mtls_mode : {"header", "native"}]

KmsSettings(sizes, lists) ==
    [allowed_hosts : lists, max_plaintext_bytes : sizes, max_body_bytes : sizes,
     sentinel_embedded : BOOLEAN, starts : BOOLEAN]

\* "Device authorization runs first so unauthorized devices are rejected before any
\* rate-limiting work" (sentinel_gate_qcg app.py:70): in header mode nothing but the
\* device gate sees a request that comes past the proxies or without the verdict of
\* one of them, and what the gate lets through meets the host check before the
\* engine.
DeviceFirst(s, r) ==
    LET answer == Gateway(s, r) IN
      /\ s.mtls_enabled /\ s.mtls_mode = "header" /\ ~r.probe
         /\ ~(r.peer \in Trusted /\ r.certified)
            => answer.status = 403 /\ answer.reached = {"device"} /\ answer.records = {}
      /\ "engine" \in answer.reached /\ HostsChecked(s.trusted_hosts)
            => \E i \in DOMAIN s.trusted_hosts : s.trusted_hosts[i] = r.host

\* "rejects oversized request bodies early" (security.py:9): a body whose declared
\* length is above the limit, or is no number, meets no handler of the KMS, with the
\* gateway embedded or not; and every other request of a known host meets one unless
\* the embedded gateway has refused it.
SizesHold(s, r) ==
    LET answer == Kms(s, r)
        tooLong == IsLonger(r.length, 2 * s.max_plaintext_bytes) \/ r.length = NoNumber
        known == ~HostsChecked(s.allowed_hosts)
                 \/ \E i \in DOMAIN s.allowed_hosts : s.allowed_hosts[i] = r.host
        refused == /\ s.sentinel_embedded /\ s.starts
                   /\ r.crowded \/ IsLonger(r.length, s.max_body_bytes) \/ r.decision # "allow"
    IN  "app" \in answer.reached <=> known /\ ~tooLong /\ ~refused

\* Which answers bear security headers.  The KMS's own are on what its handlers
\* answer and on nothing else: SecurityHeadersMiddleware was added first and is the
\* innermost, although "Order: outermost first" (QCG-KMS app.py:163) says otherwise,
\* so a refusal for its host or its length has none of them.  The gateway's are on
\* whatever it has decided.
HeadersHold(s, r) ==
    LET answer == Kms(s, r)
        embedded == s.sentinel_embedded /\ s.starts
    IN  /\ "kms" \in answer.marks <=> "app" \in answer.reached /\ r.outcome # "raises"
        /\ "gate" \in answer.marks <=>
              /\ embedded /\ "engine" \in answer.reached
              /\ r.decision # "raises" /\ ~Crashed(r, answer)

\* Telemetry records a request exactly once, with the status that the client gets,
\* if the engine has decided on it and nothing was raised; it knows nothing of the
\* others.
RecordsHold(s, r) ==
    \A answer \in {Gateway(s[1], r), Kms(s[2], r)} :
        answer.records =
            IF "engine" \in answer.reached /\ r.decision # "raises" /\ ~Crashed(r, answer)
            THEN {answer.status} ELSE {}

==============================================================================

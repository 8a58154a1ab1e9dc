-------------------------------- MODULE MCBans --------------------------------
(* Bans for TLC, the addresses under which they are kept, and the way of a      *)
(* request to them.  No symmetry: the run checks liveness.                      *)
EXTENDS Bans, Ingress

ShortHeaders == UNION {[1 .. n -> Addresses] : n \in 0 .. 2}

ASSUME AddressCheck == AddressKept

\* A peer of each kind, and lengths around both limits.
SomeRequests ==
    {r \in [peer : Addresses, certified : BOOLEAN, probe : BOOLEAN, host : Hosts,
            length : Lengths(0 .. 3), crowded : BOOLEAN,
            decision : Decisions, outcome : Outcomes] :
        r.peer \in {CHOOSE a \in Trusted : TRUE, CHOOSE a \in Addresses \ Trusted : TRUE}}

Lists == {<< >>, <<"*">>, <<CHOOSE h \in Hosts : TRUE>>}

ASSUME IngressCheck ==
    \A r \in SomeRequests :
        /\ \A s \in GateSettings({2}, Lists) :
              /\ DeviceFirst(s, r)
              /\ \A t \in KmsSettings({1}, {s.trusted_hosts}) : RecordsHold(<<s, t>>, r)
        /\ \A s \in KmsSettings({1, 2}, Lists) : SizesHold(s, r) /\ HeadersHold(s, r)

===============================================================================

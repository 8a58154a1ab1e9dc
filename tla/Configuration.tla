---------------------------- MODULE Configuration ----------------------------
(***************************************************************************)
(* The settings of Sentinel Gate (config.py) and of the KMS (config.py):   *)
(* which of them a process starts with, and what it makes of those that    *)
(* are missing.                                                            *)
(*                                                                         *)
(* A number that the code reads as a float is counted in thousandths.  Of  *)
(* a secret only what the validators ask of it is kept.                    *)
(***************************************************************************)
EXTENDS Integers, Sequences

CONSTANTS
    Environments,   \* values of "environment"
    Production,     \* those that is_production counts in
    Items,          \* items of a list of hosts or of networks
    Networks        \* the items that are networks

ASSUME EnvironmentsAssumption == Production \subseteq Environments /\ Networks \subseteq Items

\* Bounds of a number: its least value and, unless there is none, its greatest.
AtLeast(least, default) == [default |-> default, least |-> least, most |-> {}]
Above0(default) == AtLeast(1, default)
Between(least, most, default) == [default |-> default, least |-> least, most |-> {most}]

\* The numbers of the gateway, each with its bounds.
GateNumbers == [
    redis_socket_timeout |-> Above0(250),   redis_connect_timeout |-> Above0(500),
    redis_max_connections |-> Above0(64),   trusted_proxy_hops |-> AtLeast(0, 1),
    anon_refill_per_sec |-> Above0(500),    anon_burst |-> Above0(10000),
    vip_refill_per_sec |-> Above0(5000),    vip_burst |-> Above0(100000),
    default_route_cost |-> Above0(1000),
    base_ban_seconds |-> Above0(30),        max_ban_seconds |-> Above0(3600),
    ban_escalation_factor |-> AtLeast(1000, 2000),
    strike_window_seconds |-> Above0(3600),
    global_refill_per_sec |-> Above0(2000000),
    global_burst |-> Above0(20000000),
    under_attack_limit_multiplier |-> Between(1, 1000, 250),
    challenge_difficulty_bits |-> Between(4, 28, 16),
    challenge_difficulty_bump |-> Between(0, 8, 4),
    challenge_ttl_seconds |-> Above0(120),  challenge_pass_ttl_seconds |-> Above0(900),
    anomaly_challenge_threshold |-> Between(0, 1000, 600),
    anomaly_throttle_threshold |-> Between(0, 1000, 800),
    telemetry_queue_size |-> Above0(10000), access_log_max_bytes |-> Above0(52428800),
    access_log_backup_count |-> AtLeast(0, 5),
    reverse_dns_timeout_seconds |-> Between(1, 5000, 1000),
    geo_cache_ttl_seconds |-> Above0(86400), geo_max_lookups_per_sec |-> Above0(5000),
    dashboard_recent_max |-> Between(1, 5000, 200),
    dashboard_rate_window_seconds |-> Between(1, 3600, 60),
    max_body_bytes |-> Above0(1048576),     max_header_count |-> Above0(100),
    fallback_burst |-> Above0(20000),       fallback_refill_per_sec |-> Above0(1000),
    circuit_breaker_threshold |-> Above0(5),
    circuit_breaker_reset_seconds |-> Above0(10000)]

\* The numbers of the KMS.
KmsNumbers == [
    port |-> Between(1, 65535, 8800),       max_plaintext_bytes |-> Above0(1048576),
    login_max_attempts |-> Above0(10),      login_window_seconds |-> Above0(60),
    checkout_default_ttl |-> Above0(1800),  checkout_check_interval |-> Above0(30),
    sentinel_timeout_seconds |-> Between(1, 30000, 3000),
    telemetry_history_retention_days |-> Between(1, 3650, 90)]

Fits(bound, value) == value >= bound.least /\ \A m \in bound.most : value =< m

InBounds(numbers, values) == \A f \in DOMAIN numbers : Fits(numbers[f], values[f])

Defaults(numbers) == [f \in DOMAIN numbers |-> numbers[f].default]

\* Nothing of this depends on a constant; it is stated for the proofs, because the
\* provers do not get through all the numbers of the gateway at once.
ASSUME DefaultsAssumption == InBounds(GateNumbers, Defaults(GateNumbers))

-----------------------------------------------------------------------------
(* Secrets and texts *)

\* Secrets by what strip, the placeholders, their length and base64 make of them.
Empty == {"unset", "empty"}
Placeholders == Empty \union {"blank", "placeholder"}
Secrets == Placeholders \union {"short", "long", "generated"}
MasterKeys == Placeholders \union {"undecodable", "wrong length", "good", "generated"}

\* A text from the environment: not set, or <<"text", the items between its commas>>.
\* (The gateway also takes a list in JSON as it is.)
Unset == <<"unset">>
Blank == "blank"
Named(items) == SelectSeq(items, LAMBDA item : item # Blank)

\* _parse_str_list of the gateway ...
ParseStrList(text) == IF text = Unset THEN << >> ELSE Named(text[2])

\* ... and _parse_hosts of the KMS.
ParseHosts(text) ==
    IF text = Unset \/ text[2] = <<Blank>> THEN <<"*">> ELSE Named(text[2])

\* _parse_ttls and ttl_for_role.  What is given for a role has no bounds.
DefaultTtls == [technician |-> 900, engineer |-> 3600, manager |-> 7200, admin |-> 28800]
ParseTtls(value) == IF value = Unset THEN DefaultTtls ELSE value
TtlForRole(s, role) ==
    IF role \in DOMAIN s.checkout_ttls THEN s.checkout_ttls[role]
    ELSE s.numbers.checkout_default_ttl

-----------------------------------------------------------------------------
(* The validators of the whole.  A settings object is refused, or accepted   *)
(* with what it has become.                                                  *)

Refused == <<"refused">>
Accepted(s) == <<"accepted", s>>

\* Settings as they are read, with numbers out of a set of them.
GateSettings(numbers) ==
    [environment : Environments, vip_enabled : BOOLEAN, vip_api_key : Secrets,
     hmac_secret : Secrets, admin_token : Secrets,
     mtls_mode : {"header", "native", "other"}, log_format : {"json", "console", "other"},
     trusted_proxies : SUBSET Items, numbers : numbers]

\* The bounds, _check_mtls_mode, _validate_log_format and _validate_cidrs
GateFieldsValid(s) ==
    /\ InBounds(GateNumbers, s.numbers)
    /\ s.mtls_mode # "other" /\ s.log_format # "other"
    /\ s.trusted_proxies \subseteq Networks

\* _enforce_safe_config
EnforceSafeConfig(s) ==
    LET production == s.environment \in Production
        placeholder == s.vip_api_key \in Placeholders
    IN  IF \/ production /\ s.vip_enabled /\ (placeholder \/ s.vip_api_key = "short")
           \/ production /\ (s.hmac_secret \in Empty \/ s.admin_token \in Empty)
           \/ s.numbers.max_ban_seconds < s.numbers.base_ban_seconds
        THEN Refused
        ELSE Accepted([s EXCEPT !.vip_enabled = @ /\ ~placeholder,
                                !.hmac_secret = IF @ \in Empty THEN "generated" ELSE @])

LoadGate(s) == IF GateFieldsValid(s) THEN EnforceSafeConfig(s) ELSE Refused

KmsSettings(numbers) ==
    [environment : Environments, master_key : MasterKeys,
     kem_backend : {"auto", "liboqs", "kyber_py", "other"},
     sig_backend : {"auto", "liboqs", "dilithium_py", "other"},
     enable_docs : {"unset", "on", "off"}, numbers : numbers]

\* The bounds, _check_backend and _check_sig_backend
KmsFieldsValid(s) ==
    /\ InBounds(KmsNumbers, s.numbers)
    /\ s.kem_backend # "other" /\ s.sig_backend # "other"

\* _resolve_master_key
ResolveMasterKey(s) ==
    LET production == s.environment \in Production
        key == IF s.master_key \in Placeholders THEN "generated" ELSE s.master_key
    IN  IF \/ production /\ s.master_key \in Placeholders
           \/ key \in {"undecodable", "wrong length"}
        THEN Refused
        ELSE Accepted([s EXCEPT !.master_key = key,
                                !.enable_docs = IF @ # "unset" THEN @
                                                ELSE IF production THEN "off" ELSE "on"])

LoadKms(s) == IF KmsFieldsValid(s) THEN ResolveMasterKey(s) ELSE Refused

-----------------------------------------------------------------------------
(* Properties *)

\* "no field default that crashes a bare startup, secrets are mandatory only in
\* production" (QCG-KMS config.py:3): outside production both processes start with
\* their default numbers whatever secrets they are given, the KMS unless its master
\* key is a key that cannot be used.
BareStart(gate, kms) ==
    /\ /\ gate.environment \notin Production /\ gate.numbers = Defaults(GateNumbers)
       /\ gate.mtls_mode # "other" /\ gate.log_format # "other" /\ gate.trusted_proxies = {}
       => LoadGate(gate) # Refused
    /\ /\ kms.environment \notin Production /\ kms.numbers = Defaults(KmsNumbers)
       /\ kms.kem_backend # "other" /\ kms.sig_backend # "other"
       /\ kms.master_key \notin {"undecodable", "wrong length"}
       => LoadKms(kms) # Refused

\* "refuses to start under a configuration that would silently weaken security"
\* (sentinel_gate_qcg config.py:5), as far as it goes: no gateway takes a placeholder
\* for the key of its VIPs, nor in production a short one; none signs with an empty
\* secret; in production none has changed what it was told, nor is the admin API
\* without a token; and no KMS keeps private keys under a placeholder, nor in
\* production under a master key that it made up.  A placeholder that is not empty
\* passes for hmac_secret and for admin_token (config.py:305-322).
SafeStart(gate, kms) ==
    /\ LoadGate(gate) # Refused =>
          LET s == LoadGate(gate)[2] IN
            /\ s.vip_enabled => s.vip_api_key \notin Placeholders
            /\ s.hmac_secret \notin Empty
            /\ s.environment \in Production =>
                  /\ s = gate /\ s.admin_token \notin Empty
                  /\ s.vip_enabled => s.vip_api_key # "short"
    /\ LoadKms(kms) # Refused =>
          LET s == LoadKms(kms)[2] IN
            /\ s.master_key \in {"good", "generated"} /\ s.enable_docs # "unset"
            /\ s.environment \in Production => s.master_key = kms.master_key

\* What a process has made of its settings it would make of them again: they are
\* accepted, and unchanged.
LoadedStands(gate, kms) ==
    /\ LoadGate(gate) # Refused => LoadGate(LoadGate(gate)[2]) = LoadGate(gate)
    /\ LoadKms(kms) # Refused => LoadKms(LoadKms(kms)[2]) = LoadKms(kms)

\* What the modules of the components assume of those of their constants that are
\* settings of the gateway.  Bans counts its factor in thousandths, with Unit = 1000;
\* Challenge has a number of ticks in a second, and asks for readings of the clock
\* that are late by less than the lifetime of a challenge, which a lag of less than a
\* second is; Limits has a burst and a refill for every kind of client, and one that
\* is tightened is no greater than in full.
GateJustifies(n, second, full) ==
    /\ n.base_ban_seconds \in Nat \ {0} /\ n.strike_window_seconds \in Nat \ {0}
    /\ n.max_ban_seconds \in Nat /\ n.max_ban_seconds >= n.base_ban_seconds
    /\ n.ban_escalation_factor \in Nat /\ n.ban_escalation_factor >= 1000
    /\ n.circuit_breaker_threshold \in Nat \ {0} /\ n.circuit_breaker_reset_seconds \in Nat \ {0}
    /\ second * n.challenge_pass_ttl_seconds \in Nat
    /\ second * n.challenge_pass_ttl_seconds >= second
    /\ \A lag \in 0 .. second - 1 : lag < second * n.challenge_ttl_seconds
    /\ n.anon_burst \in Nat /\ n.vip_burst \in Nat /\ n.fallback_burst \in Nat
    /\ n.anon_refill_per_sec \in Nat \ {0} /\ n.vip_refill_per_sec \in Nat \ {0}
    /\ n.fallback_refill_per_sec \in Nat \ {0} /\ n.default_route_cost \in Nat \ {0}
    /\ full * n.under_attack_limit_multiplier \in 0 .. full * 1000
    /\ n.telemetry_queue_size \in Nat \ {0} /\ n.dashboard_rate_window_seconds \in Nat \ {0}
    /\ n.trusted_proxy_hops \in Nat

\* And of the KMS.
KmsJustifies(n) ==
    /\ n.login_max_attempts \in Nat \ {0} /\ n.checkout_default_ttl \in Nat \ {0}
    /\ n.telemetry_history_retention_days \in Nat

\* Those assumptions hold of every process that has started.  Not settings, and not
\* among them: the lifetimes of leases by role and the costs of single routes, which
\* no validator bounds; how late clocks are read; the rounding of a key's time to
\* live and its 60 seconds, the hour between prunings and the other constants of the
\* code; sets of users, requests and clients; and the bounds of the runs.
ModelsJustified(gate, kms, second, full) ==
    /\ LoadGate(gate) # Refused => GateJustifies(LoadGate(gate)[2].numbers, second, full)
    /\ LoadKms(kms) # Refused => KmsJustifies(LoadKms(kms)[2].numbers)

==============================================================================

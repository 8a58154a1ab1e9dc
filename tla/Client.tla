-------------------------------- MODULE Client --------------------------------
(***************************************************************************)
(* The command line client qcg (cli.py) on one file: the plaintext, its    *)
(* encrypted form <file>.qcg, the sidecar that remembers the lease of a    *)
(* checkout, and the signing key pinned for the KMS; and what of the KMS   *)
(* the client depends on: its leases and its signing identity.             *)
(*                                                                         *)
(* A command is a program of its own: it may be killed between any two     *)
(* steps, and leaves the files as they are.  Files are written in place,   *)
(* so a file is torn from the moment it is opened until it is complete.    *)
(* A power failure may also tear what the system has not yet written out.  *)
(***************************************************************************)
EXTENDS Naturals

CONSTANTS
    MaxEdits,     \* bound of the versions of the plaintext
    MaxLeases,    \* bound of the checkouts
    MaxMasters    \* bound of the master keys the KMS is started with

ASSUME ConstantsAssumption == {MaxEdits, MaxLeases, MaxMasters} \subseteq Nat \ {0}

VARIABLES
    plain, cipher,   \* the two files
    dirty,           \* which of them the system has not written out
    sidecar,         \* the lease that the sidecar names, 0 without one
    cmd,             \* the command that is running
    edits,           \* versions of the plaintext so far
    leases,          \* leases granted so far
    open,            \* the leases that are open at the KMS
    trust,           \* the entry of the trust store for this KMS
    identity,        \* the signing identity of the KMS ...
    sealedBy,        \* ... the master key that seals it in the database ...
    master,          \* ... and the master key the KMS runs with
    moved            \* (history) the master key has changed since the key was pinned

fileVars == <<plain, cipher, dirty, sidecar, edits>>
leaseVars == <<leases, open>>
kmsVars == <<identity, sealedBy, master>>
trustVars == <<trust, moved>>
vars == <<fileVars, cmd, leaseVars, trustVars, kmsVars>>

\* A file is absent, a whole version of the plaintext, or torn: cut off, or made
\* of what was.
Absent == [kind |-> "absent", v |-> 0]
Torn == [kind |-> "torn", v |-> 0]
Whole(v) == [kind |-> "whole", v |-> v]
File == {Absent, Torn} \union {Whole(v) : v \in 1 .. MaxEdits}

\* The trust store is there, or a write of it was cut off, or it has a pin.
NoPin == [kind |-> "none", id |-> 0]
TornStore == [kind |-> "torn", id |-> 0]
Pin(i) == [kind |-> "pin", id |-> i]
Trust == {NoPin, TornStore} \union {Pin(i) : i \in 1 .. MaxMasters}

\* A sidecar whose write was cut off names nothing that can be read.
TornSidecar == MaxLeases + 1

\* id is the identity that signed the recipient key, pin the one that is being
\* pinned, v the version that is being encrypted, lease the lease that decrypt was
\* given or checkin closes.
Idle == [op |-> "none", stage |-> "none", id |-> 0, pin |-> 0, v |-> 0, lease |-> 0]
Ops == {"encrypt", "checkin", "decrypt", "trust"}
Stages == {"verify", "pin", "open", "stream", "close", "shred", "unlink", "tidy", "sidecar"}
Cmd == {Idle} \union [op : Ops, stage : Stages, id : 0 .. MaxMasters,
                      pin : 0 .. MaxMasters, v : 0 .. MaxEdits, lease : 0 .. MaxLeases]

TypeOK ==
    /\ plain \in File /\ cipher \in File
    /\ dirty \subseteq {"plain", "cipher"}
    /\ sidecar \in 0 .. leases \union {TornSidecar}
    /\ cmd \in Cmd
    /\ edits \in 1 .. MaxEdits
    /\ leases \in 0 .. MaxLeases
    /\ open \subseteq 1 .. leases
    /\ trust \in Trust
    /\ identity \in 1 .. MaxMasters
    /\ sealedBy \in 1 .. MaxMasters /\ master = sealedBy
    /\ moved \in BOOLEAN

Init ==
    /\ plain = Whole(1) /\ cipher = Absent
    /\ dirty = {}
    /\ sidecar = 0
    /\ cmd = Idle
    /\ edits = 1
    /\ leases = 0 /\ open = {}
    /\ trust = NoPin
    /\ identity = 1 /\ sealedBy = 1 /\ master = 1
    /\ moved = FALSE

-----------------------------------------------------------------------------
Start(op, stage, id, lease) ==
    cmd' = [op |-> op, stage |-> stage, id |-> id, pin |-> 0, v |-> 0, lease |-> lease]

At(op, stage) == cmd.op = op /\ cmd.stage = stage
Goto(stage) == cmd' = [cmd EXCEPT !.stage = stage]

\* The command that goes on with version v and this lease.
Resumed(stage, v, lease) ==
    [op |-> cmd.op, stage |-> stage, id |-> cmd.id, pin |-> cmd.pin, v |-> v, lease |-> lease]

Exit == cmd' = Idle

-----------------------------------------------------------------------------
(* The trust store: _verify_recipient_key, _pin_signing_key, cmd_trust *)

\* POST /api/datakey/generate: the KMS signs the recipient key.
EncryptBegin ==
    /\ cmd = Idle
    /\ plain # Absent
    /\ \E stage \in {"verify", "open"} : Start("encrypt", stage, identity, 0)
    /\ UNCHANGED <<fileVars, leaseVars, trustVars, kmsVars>>

\* The signature is checked with the pinned key.
Verified == trust = Pin(cmd.id)

\* Without a pin the key that the KMS serves now is pinned first.  A store that
\* cannot be parsed, or a signature of another key, ends the command.
Verify ==
    /\ At("encrypt", "verify")
    /\ IF Verified THEN Goto("open")
       ELSE IF trust = NoPin THEN Goto("pin")
       ELSE Exit
    /\ UNCHANGED <<fileVars, leaseVars, trustVars, kmsVars>>

TrustBegin ==
    /\ cmd = Idle
    /\ trust.kind # "torn"
    /\ Start("trust", "pin", 0, 0)
    /\ UNCHANGED <<fileVars, leaseVars, trustVars, kmsVars>>

\* The key has been fetched, and the store is opened, which empties it.
PinOpen ==
    /\ cmd.stage = "pin"
    /\ trust # TornStore
    /\ trust' = TornStore
    /\ cmd' = [cmd EXCEPT !.pin = identity]
    /\ UNCHANGED <<fileVars, leaseVars, kmsVars, moved>>

\* It is written, and encrypt checks the signature with the new pin.
PinWrite ==
    /\ cmd.stage = "pin"
    /\ trust = TornStore
    /\ trust' = Pin(cmd.pin)
    /\ moved' = (cmd.pin # identity)
    /\ IF cmd.op = "encrypt" /\ cmd.id = cmd.pin THEN Goto("open") ELSE Exit
    /\ UNCHANGED <<fileVars, leaseVars, kmsVars>>

\* The user removes a store that cannot be read.
DropStore ==
    /\ cmd = Idle
    /\ trust = TornStore
    /\ trust' = NoPin
    /\ UNCHANGED <<fileVars, cmd, leaseVars, kmsVars, moved>>

-----------------------------------------------------------------------------
(* Encrypting in place: cmd_encrypt, cmd_checkin *)

\* checkin asks for a data key, and does not verify its signature; the user may
\* name the lease (--lease-id).
CheckinBegin ==
    /\ cmd = Idle
    /\ plain # Absent
    /\ \E lease \in 0 .. leases : Start("checkin", "open", 0, lease)
    /\ UNCHANGED <<fileVars, leaseVars, trustVars, kmsVars>>

CipherOpen ==
    /\ cmd.op \in {"encrypt", "checkin"} /\ cmd.stage = "open"
    /\ cipher' = Torn
    /\ dirty' = dirty \union {"cipher"}
    /\ cmd' = Resumed("stream", plain.v, cmd.lease)
    /\ UNCHANGED <<plain, sidecar, edits, leaseVars, trustVars, kmsVars>>

\* (mutant) an error of the stream is swallowed
CipherWriteAnyway ==
    /\ cmd.op \in {"encrypt", "checkin"} /\ cmd.stage = "stream"
    /\ cipher' \in {plain, Torn}
    /\ IF cmd.op = "checkin" THEN Goto("close") ELSE Exit
    /\ UNCHANGED <<plain, dirty, sidecar, edits, leaseVars, trustVars, kmsVars>>

\* A plaintext that is saved while it is read makes no version.
CipherWrite ==
    /\ cmd.op \in {"encrypt", "checkin"} /\ cmd.stage = "stream"
    /\ cipher' = IF plain = Whole(cmd.v) THEN plain ELSE Torn
    /\ IF cmd.op = "checkin" THEN Goto("close") ELSE Exit
    /\ UNCHANGED <<plain, dirty, sidecar, edits, leaseVars, trustVars, kmsVars>>

\* The lease that checkin closes, if any: the one it was given, or the sidecar's.
Named == IF cmd.lease # 0 THEN cmd.lease ELSE sidecar

\* (mutant) a check-in that fails does not end the command
CheckinCloseAnyway ==
    /\ At("checkin", "close")
    /\ Named # TornSidecar
    /\ open' \in {open, open \ {Named}}
    /\ cmd' = Resumed("shred", cmd.v, Named)
    /\ UNCHANGED <<fileVars, leases, trustVars, kmsVars>>

\* POST /api/checkin, skipped without a lease.  An error ends the command, although
\* the lease may have been closed; --keep-plaintext ends it as well.
CheckinClose ==
    /\ At("checkin", "close")
    /\ \/ /\ Named # TornSidecar
          /\ open' = open \ {Named}
          /\ cmd' \in {Resumed("shred", cmd.v, Named), Idle}
       \/ /\ Named # 0
          /\ UNCHANGED open
          /\ Exit
    /\ UNCHANGED <<fileVars, leases, trustVars, kmsVars>>

\* _shred overwrites the plaintext ...
Shred ==
    /\ At("checkin", "shred")
    /\ plain' = Torn
    /\ Goto("unlink")
    /\ UNCHANGED <<cipher, dirty, sidecar, edits, leaseVars, trustVars, kmsVars>>

\* ... and removes it, if the system lets it ...
Unlink ==
    /\ cmd.op = "checkin" /\ cmd.stage \in {"shred", "unlink"}
    /\ plain' \in {Absent, plain}
    /\ Goto("tidy")
    /\ UNCHANGED <<cipher, dirty, sidecar, edits, leaseVars, trustVars, kmsVars>>

\* ... and the sidecar goes too.
Tidy ==
    /\ At("checkin", "tidy")
    /\ sidecar' = 0
    /\ Exit
    /\ UNCHANGED <<plain, cipher, dirty, edits, leaseVars, trustVars, kmsVars>>

-----------------------------------------------------------------------------
(* cmd_decrypt *)

\* The header is read; POST /api/checkout opens a lease, whose answer may be
\* lost, and /api/datakey/unwrap does not.
DecryptBegin ==
    /\ cmd = Idle
    /\ cipher # Absent
    /\ \/ /\ leases < MaxLeases
          /\ leases' = leases + 1
          /\ open' = open \union {leases'}
          /\ Start("decrypt", "open", 0, leases') \/ Exit
       \/ /\ Start("decrypt", "open", 0, 0)
          /\ UNCHANGED leaseVars
    /\ UNCHANGED <<fileVars, trustVars, kmsVars>>

PlainOpen ==
    /\ At("decrypt", "open")
    /\ plain' = Torn
    /\ dirty' = dirty \union {"plain"}
    /\ Goto("stream")
    /\ UNCHANGED <<cipher, sidecar, edits, leaseVars, trustVars, kmsVars>>

\* A file that was cut off does not authenticate: the command fails, and leaves
\* what it had decrypted and no sidecar.  One that a torn plaintext was encrypted to
\* does, and gives it back.
PlainWrite ==
    /\ At("decrypt", "stream")
    /\ plain' = cipher
    /\ \/ cmd.lease # 0 /\ Goto("sidecar")
       \/ (cmd.lease = 0 \/ cipher = Torn) /\ Exit
    /\ UNCHANGED <<cipher, dirty, sidecar, edits, leaseVars, trustVars, kmsVars>>

\* The sidecar is written in place, and may be cut off.
SidecarWrite ==
    /\ At("decrypt", "sidecar")
    /\ sidecar' \in {cmd.lease, TornSidecar}
    /\ Exit
    /\ UNCHANGED <<plain, cipher, dirty, edits, leaseVars, trustVars, kmsVars>>

-----------------------------------------------------------------------------
(* The user, the machine, and the KMS *)

\* The user saves the plaintext, perhaps while a command is running.
Edit ==
    /\ plain.kind = "whole"
    /\ edits < MaxEdits
    /\ edits' = edits + 1
    /\ plain' = Whole(edits')
    /\ dirty' = dirty \ {"plain"}
    /\ UNCHANGED <<cipher, sidecar, cmd, leaseVars, trustVars, kmsVars>>

\* A command is interrupted, or the KMS answers it with an error.
Kill ==
    /\ cmd # Idle
    /\ Exit
    /\ UNCHANGED <<fileVars, leaseVars, trustVars, kmsVars>>

Flush ==
    /\ dirty # {}
    /\ dirty' = {}
    /\ UNCHANGED <<plain, cipher, sidecar, edits, cmd, leaseVars, trustVars, kmsVars>>

\* Nothing of what qcg writes is synchronised, only what _shred overwrites.
PowerFails ==
    /\ dirty # {}
    /\ \/ "plain" \in dirty /\ plain # Absent /\ plain' = Torn
       \/ plain' = plain
    /\ \/ "cipher" \in dirty /\ cipher' = Torn
       \/ cipher' = cipher
    /\ dirty' = {}
    /\ Exit
    /\ UNCHANGED <<sidecar, edits, leaseVars, trustVars, kmsVars>>

\* The lease runs out (Leases).
Expire(l) ==
    /\ l \in open
    /\ open' = open \ {l}
    /\ UNCHANGED <<fileVars, cmd, leases, trustVars, kmsVars>>

\* (mutant) every start of the KMS makes an identity
LoadedNever(m) == FALSE

\* get_signing_identity: whether the stored one can be opened.
Loaded(m) == sealedBy = m

\* An identity that cannot be opened is replaced, and the new one is saved.
SealedAfter(m) == IF Loaded(m) THEN sealedBy ELSE m

\* The KMS is started with master key m.
Restart(m) ==
    /\ m \in {master, master + 1} /\ m =< MaxMasters
    /\ Loaded(m) \/ identity < MaxMasters
    /\ master' = m
    /\ sealedBy' = SealedAfter(m)
    /\ identity' = IF Loaded(m) THEN identity ELSE identity + 1
    /\ moved' = (moved \/ m # master)
    /\ UNCHANGED <<fileVars, cmd, leaseVars, trust>>

CommandStep ==
    \/ EncryptBegin \/ Verify
    \/ TrustBegin \/ PinOpen \/ PinWrite
    \/ CheckinBegin \/ CipherOpen \/ CipherWrite
    \/ CheckinClose \/ Shred \/ Unlink \/ Tidy
    \/ DecryptBegin \/ PlainOpen \/ PlainWrite \/ SidecarWrite

Next ==
    \/ CommandStep
    \/ Edit \/ DropStore \/ Kill \/ Flush \/ PowerFails
    \/ \E l \in open : Expire(l)
    \/ \E m \in 1 .. MaxMasters : Restart(m)

Spec == Init /\ [][Next]_vars

-----------------------------------------------------------------------------
(* Properties *)

\* Someone still has the last version: in the plaintext, or encrypted.
Held == plain = Whole(edits) \/ cipher = Whole(edits)

\* What cli.py does not guard: decrypt over a plaintext that has been edited,
\* encrypt over the good .qcg of a plaintext that is torn, an edit while checkin is
\* running, and a power failure before the .qcg is written out.
Unguarded ==
    \/ At("decrypt", "open") /\ plain = Whole(edits)
    \/ cmd.stage = "open" /\ plain.kind = "torn"
    \/ cmd.op = "checkin" /\ cmd.stage # "open" /\ cmd.v # edits
    \/ dirty # {} /\ dirty' = {} /\ cmd' = Idle

\* The last version of the file is not lost by any other step: a command that is
\* killed or fails half way, at any step, leaves the plaintext or the .qcg whole
\* (the order of re-encryption, check-in and shredding in cmd_checkin, and the end
\* of the command when one of them fails).
EditsKept == [][Held => Held' \/ Unguarded]_vars

\* The local plaintext is only destroyed once the lease that the check-in names is
\* closed, so an access that the KMS still counts as open can be handed in again
\* (cmd_checkin: _post exits on an error of /api/checkin before _shred).
ClosedBeforeShred ==
    cmd.op = "checkin" /\ cmd.stage \in {"shred", "unlink", "tidy"} => cmd.lease \notin open

\* As long as the master key stays, restarts of the KMS keep its signing identity,
\* and a client that has pinned it goes on verifying (lifespan, _pin_signing_key).
PinValid == trust.kind = "pin" /\ ~moved => trust = Pin(identity)

=============================================================================

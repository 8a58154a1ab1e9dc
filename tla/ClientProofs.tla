----------------------------- MODULE ClientProofs -----------------------------
(***************************************************************************)
(* Proofs about Client, for any number of edits, checkouts and master      *)
(* keys: its types, what check-in leaves of an access, when a pinned key   *)
(* stays valid, and that no command of qcg loses the last version of a     *)
(* file but in the cases that Unguarded names.  Then about Envelopes, for  *)
(* any keys, texts and random draws: what opens and what stays closed; and *)
(* about Console, for any users, sessions and requests under way: its      *)
(* types, whom the page shows, and what becomes of a second factor and of  *)
(* the changes made in a list.                                             *)
(***************************************************************************)
EXTENDS Client, Envelopes, Console, SequenceTheorems, TLAPS

-----------------------------------------------------------------------------
(* The inductive invariant *)

InPlace == {"encrypt", "checkin"}
Closing == {"close", "shred", "unlink", "tidy"}

\* The lease of the command has been granted; a key is being pinned from the
\* moment the trust store is emptied.
CmdInv ==
    /\ cmd.lease =< leases
    /\ cmd.stage = "verify" => cmd.pin = 0
    /\ cmd.stage = "pin" => (trust = TornStore <=> cmd.pin # 0)

\* The plaintext, if it is whole, is not older than what is encrypted; and what
\* each command has already done to the two files.
FilesInv ==
    /\ plain.kind = "whole" => plain = Whole(edits) \/ cipher # Whole(edits)
    /\ plain.v =< edits /\ cipher.v =< edits /\ cmd.v =< edits
    /\ cmd.op \in InPlace /\ cmd.stage \in {"verify", "pin", "open"} => plain # Absent
    /\ cmd.op \in InPlace /\ cmd.stage = "stream" =>
          /\ cipher = Torn
          /\ cmd.v = edits => plain = Whole(edits)
    /\ At("decrypt", "stream") => plain = Torn
    /\ cmd.op = "checkin" /\ cmd.stage \in Closing /\ cmd.v = edits =>
          cipher = Whole(edits)

IInv == TypeOK /\ CmdInv /\ FilesInv /\ ClosedBeforeShred /\ PinValid

-----------------------------------------------------------------------------
(* The steps *)

\* Every step keeps the types.
LEMMA TypeStep ==
    ASSUME TypeOK, CmdInv, [Next]_vars
    PROVE  TypeOK'
<1>. USE ConstantsAssumption DEF TypeOK, File, Absent, Torn, Whole, Trust, NoPin, TornStore, Pin, TornSidecar, Cmd, Idle, Ops, Stages,
         fileVars, leaseVars, kmsVars, trustVars, CmdInv
<1>1. CASE EncryptBegin
    BY <1>1 DEF EncryptBegin, Start
<1>2. CASE Verify
    BY <1>2 DEF Verify, At, Goto, Exit, Verified
<1>3. CASE TrustBegin
    BY <1>3 DEF TrustBegin, Start
<1>4. CASE PinOpen
    BY <1>4 DEF PinOpen
<1>5. CASE PinWrite
    BY <1>5 DEF PinWrite, Goto, Exit
<1>6. CASE CheckinBegin
    BY <1>6 DEF CheckinBegin, Start
<1>7. CASE CipherOpen
    BY <1>7 DEF CipherOpen, Resumed
<1>8. CASE CipherWrite
    BY <1>8 DEF CipherWrite, Goto, Exit
<1>9. CASE CheckinClose
  <2>1. cmd.op = "checkin" /\ cmd \in [op : Ops, stage : Stages, id : 0 .. MaxMasters,
                      pin : 0 .. MaxMasters, v : 0 .. MaxEdits, lease : 0 .. MaxLeases]
    BY <1>9 DEF CheckinClose, At
  <2>2. CASE Named # TornSidecar
    <3>1. Named \in 0 .. MaxLeases
      BY <2>1, <2>2 DEF Named
    <3>2. Resumed("shred", cmd.v, Named) \in Cmd
      BY <2>1, <3>1 DEF Resumed
    <3>. QED
      BY <1>9, <3>1, <3>2 DEF CheckinClose, Exit
  <2>3. CASE Named = TornSidecar
    BY <1>9, <2>3 DEF CheckinClose, Exit
  <2>. QED
    BY <2>2, <2>3
<1>10. CASE Shred
    BY <1>10 DEF Shred, At, Goto
<1>11. CASE Unlink
    BY <1>11 DEF Unlink, Goto
<1>12. CASE Tidy
    BY <1>12 DEF Tidy, At, Exit
<1>13. CASE DecryptBegin
  <2>1. leases' \in 0 .. MaxLeases /\ leases =< leases'
    BY <1>13 DEF DecryptBegin
  <2>2. cmd' \in Cmd
    BY <1>13, <2>1 DEF DecryptBegin, Start, Exit
  <2>3. open' \subseteq 1 .. leases'
    <3>1. \/ open' = open /\ leases' = leases
          \/ open' = open \union {leases + 1} /\ leases' = leases + 1
      BY <1>13 DEF DecryptBegin
    <3>2. leases \in Nat /\ leases' \in Nat /\ open \subseteq 1 .. leases
      BY <2>1
    <3>3. ASSUME NEW l \in open' PROVE l \in 1 .. leases'
      <4>1. CASE open' = open /\ leases' = leases
        BY <3>2, <3>3, <4>1
      <4>2. CASE open' = open \union {leases + 1} /\ leases' = leases + 1
        <5>1. CASE l \in open
          <6>1. l \in 1 .. leases
            BY <3>2, <5>1
          <6>. QED
            BY ONLY <6>1, <3>2, <4>2
        <5>2. CASE l = leases + 1
          BY ONLY <5>2, <3>2, <4>2
        <5>. QED
          BY <3>3, <4>2, <5>1, <5>2
      <4>. QED
        BY <3>1, <4>1, <4>2
    <3>. QED
      BY <3>3
  <2>4. sidecar' \in 0 .. leases' \union {TornSidecar}
    BY <1>13, <2>1 DEF DecryptBegin
  <2>. QED
    BY <1>13, <2>1, <2>2, <2>3, <2>4 DEF DecryptBegin
<1>14. CASE PlainOpen
    BY <1>14 DEF PlainOpen, At, Goto
<1>15. CASE PlainWrite
    BY <1>15 DEF PlainWrite, At, Goto, Exit
<1>16. CASE SidecarWrite
    BY <1>16 DEF SidecarWrite, At, Exit
<1>17. CASE Edit
    BY <1>17 DEF Edit
<1>18. CASE DropStore
    BY <1>18 DEF DropStore
<1>19. CASE Kill
    BY <1>19 DEF Kill, Exit
<1>20. CASE Flush
    BY <1>20 DEF Flush
<1>21. CASE PowerFails
    BY <1>21 DEF PowerFails, Exit
<1>22. ASSUME NEW l \in open, Expire(l) PROVE TypeOK'
    BY <1>22 DEF Expire
<1>23. ASSUME NEW m \in 1 .. MaxMasters, Restart(m) PROVE TypeOK'
    BY <1>23 DEF Restart, Loaded, SealedAfter
<1>24. CASE UNCHANGED vars
    BY <1>24 DEF vars
<1>. QED
    BY <1>1, <1>2, <1>3, <1>4, <1>5, <1>6, <1>7, <1>8, <1>9, <1>10, <1>11, <1>12, <1>13, <1>14, <1>15, <1>16, <1>17, <1>18, <1>19, <1>20, <1>21, <1>22, <1>23, <1>24 DEF Next, CommandStep

\* Every step keeps what is known of the command.
LEMMA CmdStep ==
    ASSUME TypeOK, CmdInv, [Next]_vars
    PROVE  CmdInv'
<1>. USE ConstantsAssumption DEF TypeOK, File, Absent, Torn, Whole, Trust, NoPin, TornStore, Pin, TornSidecar, Cmd, Idle, Ops, Stages,
         fileVars, leaseVars, kmsVars, trustVars, CmdInv
<1>1. CASE EncryptBegin
    BY <1>1 DEF EncryptBegin, Start
<1>2. CASE Verify
    BY <1>2 DEF Verify, At, Goto, Exit, Verified
<1>3. CASE TrustBegin
    BY <1>3 DEF TrustBegin, Start
<1>4. CASE PinOpen
    BY <1>4 DEF PinOpen
<1>5. CASE PinWrite
    BY <1>5 DEF PinWrite, Goto, Exit
<1>6. CASE CheckinBegin
    BY <1>6 DEF CheckinBegin, Start
<1>7. CASE CipherOpen
    BY <1>7 DEF CipherOpen, Resumed
<1>8. CASE CipherWrite
    BY <1>8 DEF CipherWrite, Goto, Exit
<1>9. CASE CheckinClose
    BY <1>9 DEF CheckinClose, At, Named, Exit, Resumed
<1>10. CASE Shred
    BY <1>10 DEF Shred, At, Goto
<1>11. CASE Unlink
    BY <1>11 DEF Unlink, Goto
<1>12. CASE Tidy
    BY <1>12 DEF Tidy, At, Exit
<1>13. CASE DecryptBegin
    BY <1>13 DEF DecryptBegin, Start, Exit
<1>14. CASE PlainOpen
    BY <1>14 DEF PlainOpen, At, Goto
<1>15. CASE PlainWrite
    BY <1>15 DEF PlainWrite, At, Goto, Exit
<1>16. CASE SidecarWrite
    BY <1>16 DEF SidecarWrite, At, Exit
<1>17. CASE Edit
    BY <1>17 DEF Edit
<1>18. CASE DropStore
    BY <1>18 DEF DropStore
<1>19. CASE Kill
    BY <1>19 DEF Kill, Exit
<1>20. CASE Flush
    BY <1>20 DEF Flush
<1>21. CASE PowerFails
    BY <1>21 DEF PowerFails, Exit
<1>22. ASSUME NEW l \in open, Expire(l) PROVE CmdInv'
    BY <1>22 DEF Expire
<1>23. ASSUME NEW m \in 1 .. MaxMasters, Restart(m) PROVE CmdInv'
    BY <1>23 DEF Restart, Loaded, SealedAfter
<1>24. CASE UNCHANGED vars
    BY <1>24 DEF vars
<1>. QED
    BY <1>1, <1>2, <1>3, <1>4, <1>5, <1>6, <1>7, <1>8, <1>9, <1>10, <1>11, <1>12, <1>13, <1>14, <1>15, <1>16, <1>17, <1>18, <1>19, <1>20, <1>21, <1>22, <1>23, <1>24 DEF Next, CommandStep

\* Every step keeps what is known of the files.
LEMMA FilesStep ==
    ASSUME TypeOK, CmdInv, FilesInv, [Next]_vars
    PROVE  FilesInv'
<1>. USE ConstantsAssumption DEF TypeOK, File, Absent, Torn, Whole, Trust, NoPin, TornStore, Pin, TornSidecar, Cmd, Idle, Ops, Stages,
         fileVars, leaseVars, kmsVars, trustVars, CmdInv, FilesInv, InPlace, Closing, At
<1>1. CASE EncryptBegin
    BY <1>1 DEF EncryptBegin, Start
<1>2. CASE Verify
    BY <1>2 DEF Verify, At, Goto, Exit, Verified
<1>3. CASE TrustBegin
    BY <1>3 DEF TrustBegin, Start
<1>4. CASE PinOpen
    BY <1>4 DEF PinOpen
<1>5. CASE PinWrite
    BY <1>5 DEF PinWrite, Goto, Exit
<1>6. CASE CheckinBegin
    BY <1>6 DEF CheckinBegin, Start
<1>7. CASE CipherOpen
  <2>1. cmd'.op = cmd.op /\ cmd'.stage = "stream" /\ cmd'.v = plain.v
    BY <1>7 DEF CipherOpen, Resumed
  <2>2. plain.v =< edits /\ (plain.v = edits => plain = Whole(edits))
    BY SMTT(30)
  <2>. QED
    BY <1>7, <2>1, <2>2 DEF CipherOpen
<1>8. CASE CipherWrite
    BY <1>8 DEF CipherWrite, Goto, Exit
<1>9. CASE CheckinClose
    BY <1>9 DEF CheckinClose, At, Named, Exit, Resumed
<1>10. CASE Shred
    BY <1>10 DEF Shred, At, Goto
<1>11. CASE Unlink
    BY <1>11 DEF Unlink, Goto
<1>12. CASE Tidy
    BY <1>12 DEF Tidy, At, Exit
<1>13. CASE DecryptBegin
    BY <1>13 DEF DecryptBegin, Start, Exit
<1>14. CASE PlainOpen
    BY <1>14 DEF PlainOpen, At, Goto
<1>15. CASE PlainWrite
    BY <1>15 DEF PlainWrite, At, Goto, Exit
<1>16. CASE SidecarWrite
    BY <1>16 DEF SidecarWrite, At, Exit
<1>17. CASE Edit
    BY <1>17 DEF Edit
<1>18. CASE DropStore
    BY <1>18 DEF DropStore
<1>19. CASE Kill
    BY <1>19 DEF Kill, Exit
<1>20. CASE Flush
    BY <1>20 DEF Flush
<1>21. CASE PowerFails
    BY <1>21 DEF PowerFails, Exit
<1>22. ASSUME NEW l \in open, Expire(l) PROVE FilesInv'
    BY <1>22 DEF Expire
<1>23. ASSUME NEW m \in 1 .. MaxMasters, Restart(m) PROVE FilesInv'
    BY <1>23 DEF Restart, Loaded, SealedAfter
<1>24. CASE UNCHANGED vars
    BY <1>24 DEF vars
<1>. QED
    BY <1>1, <1>2, <1>3, <1>4, <1>5, <1>6, <1>7, <1>8, <1>9, <1>10, <1>11, <1>12, <1>13, <1>14, <1>15, <1>16, <1>17, <1>18, <1>19, <1>20, <1>21, <1>22, <1>23, <1>24 DEF Next, CommandStep

\* A lease that is closed stays closed, and no other is taken meanwhile.
LEMMA CloseStep ==
    ASSUME TypeOK, CmdInv, ClosedBeforeShred, [Next]_vars
    PROVE  ClosedBeforeShred'
<1>. USE ConstantsAssumption DEF TypeOK, File, Absent, Torn, Whole, Trust, NoPin, TornStore, Pin, TornSidecar, Cmd, Idle, Ops, Stages,
         fileVars, leaseVars, kmsVars, trustVars, CmdInv, ClosedBeforeShred
<1>1. CASE EncryptBegin
    BY <1>1 DEF EncryptBegin, Start
<1>2. CASE Verify
    BY <1>2 DEF Verify, At, Goto, Exit, Verified
<1>3. CASE TrustBegin
    BY <1>3 DEF TrustBegin, Start
<1>4. CASE PinOpen
    BY <1>4 DEF PinOpen
<1>5. CASE PinWrite
    BY <1>5 DEF PinWrite, Goto, Exit
<1>6. CASE CheckinBegin
    BY <1>6 DEF CheckinBegin, Start
<1>7. CASE CipherOpen
    BY <1>7 DEF CipherOpen, Resumed
<1>8. CASE CipherWrite
    BY <1>8 DEF CipherWrite, Goto, Exit
<1>9. CASE CheckinClose
    BY <1>9 DEF CheckinClose, At, Named, Exit, Resumed
<1>10. CASE Shred
    BY <1>10 DEF Shred, At, Goto
<1>11. CASE Unlink
    BY <1>11 DEF Unlink, Goto
<1>12. CASE Tidy
    BY <1>12 DEF Tidy, At, Exit
<1>13. CASE DecryptBegin
    BY <1>13 DEF DecryptBegin, Start, Exit
<1>14. CASE PlainOpen
    BY <1>14 DEF PlainOpen, At, Goto
<1>15. CASE PlainWrite
    BY <1>15 DEF PlainWrite, At, Goto, Exit
<1>16. CASE SidecarWrite
    BY <1>16 DEF SidecarWrite, At, Exit
<1>17. CASE Edit
    BY <1>17 DEF Edit
<1>18. CASE DropStore
    BY <1>18 DEF DropStore
<1>19. CASE Kill
    BY <1>19 DEF Kill, Exit
<1>20. CASE Flush
    BY <1>20 DEF Flush
<1>21. CASE PowerFails
    BY <1>21 DEF PowerFails, Exit
<1>22. ASSUME NEW l \in open, Expire(l) PROVE ClosedBeforeShred'
    BY <1>22 DEF Expire
<1>23. ASSUME NEW m \in 1 .. MaxMasters, Restart(m) PROVE ClosedBeforeShred'
    BY <1>23 DEF Restart, Loaded, SealedAfter
<1>24. CASE UNCHANGED vars
    BY <1>24 DEF vars
<1>. QED
    BY <1>1, <1>2, <1>3, <1>4, <1>5, <1>6, <1>7, <1>8, <1>9, <1>10, <1>11, <1>12, <1>13, <1>14, <1>15, <1>16, <1>17, <1>18, <1>19, <1>20, <1>21, <1>22, <1>23, <1>24 DEF Next, CommandStep

\* A pin stays that of the identity, as long as the master key stays.
LEMMA PinStep ==
    ASSUME TypeOK, CmdInv, PinValid, [Next]_vars
    PROVE  PinValid'
<1>. USE ConstantsAssumption DEF TypeOK, File, Absent, Torn, Whole, Trust, NoPin, TornStore, Pin, TornSidecar, Cmd, Idle, Ops, Stages,
         fileVars, leaseVars, kmsVars, trustVars, CmdInv, PinValid
<1>1. CASE EncryptBegin
    BY <1>1 DEF EncryptBegin, Start
<1>2. CASE Verify
    BY <1>2 DEF Verify, At, Goto, Exit, Verified
<1>3. CASE TrustBegin
    BY <1>3 DEF TrustBegin, Start
<1>4. CASE PinOpen
    BY <1>4 DEF PinOpen
<1>5. CASE PinWrite
    BY <1>5 DEF PinWrite, Goto, Exit
<1>6. CASE CheckinBegin
    BY <1>6 DEF CheckinBegin, Start
<1>7. CASE CipherOpen
    BY <1>7 DEF CipherOpen, Resumed
<1>8. CASE CipherWrite
    BY <1>8 DEF CipherWrite, Goto, Exit
<1>9. CASE CheckinClose
    BY <1>9 DEF CheckinClose, At, Named, Exit, Resumed
<1>10. CASE Shred
    BY <1>10 DEF Shred, At, Goto
<1>11. CASE Unlink
    BY <1>11 DEF Unlink, Goto
<1>12. CASE Tidy
    BY <1>12 DEF Tidy, At, Exit
<1>13. CASE DecryptBegin
    BY <1>13 DEF DecryptBegin, Start, Exit
<1>14. CASE PlainOpen
    BY <1>14 DEF PlainOpen, At, Goto
<1>15. CASE PlainWrite
    BY <1>15 DEF PlainWrite, At, Goto, Exit
<1>16. CASE SidecarWrite
    BY <1>16 DEF SidecarWrite, At, Exit
<1>17. CASE Edit
    BY <1>17 DEF Edit
<1>18. CASE DropStore
    BY <1>18 DEF DropStore
<1>19. CASE Kill
    BY <1>19 DEF Kill, Exit
<1>20. CASE Flush
    BY <1>20 DEF Flush
<1>21. CASE PowerFails
    BY <1>21 DEF PowerFails, Exit
<1>22. ASSUME NEW l \in open, Expire(l) PROVE PinValid'
    BY <1>22 DEF Expire
<1>23. ASSUME NEW m \in 1 .. MaxMasters, Restart(m) PROVE PinValid'
    BY <1>23 DEF Restart, Loaded, SealedAfter
<1>24. CASE UNCHANGED vars
    BY <1>24 DEF vars
<1>. QED
    BY <1>1, <1>2, <1>3, <1>4, <1>5, <1>6, <1>7, <1>8, <1>9, <1>10, <1>11, <1>12, <1>13, <1>14, <1>15, <1>16, <1>17, <1>18, <1>19, <1>20, <1>21, <1>22, <1>23, <1>24 DEF Next, CommandStep

\* A step loses the last version in the cases that Unguarded names only.
LEMMA EditsStep ==
    ASSUME TypeOK, CmdInv, FilesInv, Held, ~Unguarded, [Next]_vars
    PROVE  Held'
<1>. USE ConstantsAssumption DEF TypeOK, File, Absent, Torn, Whole, Trust, NoPin, TornStore, Pin, TornSidecar, Cmd, Idle, Ops, Stages,
         fileVars, leaseVars, kmsVars, trustVars, CmdInv, FilesInv, InPlace, Closing, At, Held, Unguarded
<1>1. CASE EncryptBegin
    BY <1>1 DEF EncryptBegin, Start
<1>2. CASE Verify
    BY <1>2 DEF Verify, At, Goto, Exit, Verified
<1>3. CASE TrustBegin
    BY <1>3 DEF TrustBegin, Start
<1>4. CASE PinOpen
    BY <1>4 DEF PinOpen
<1>5. CASE PinWrite
    BY <1>5 DEF PinWrite, Goto, Exit
<1>6. CASE CheckinBegin
    BY <1>6 DEF CheckinBegin, Start
<1>7. CASE CipherOpen
    BY <1>7 DEF CipherOpen, Resumed
<1>8. CASE CipherWrite
    BY <1>8 DEF CipherWrite, Goto, Exit
<1>9. CASE CheckinClose
    BY <1>9 DEF CheckinClose, At, Named, Exit, Resumed
<1>10. CASE Shred
    BY <1>10 DEF Shred, At, Goto
<1>11. CASE Unlink
    BY <1>11 DEF Unlink, Goto
<1>12. CASE Tidy
    BY <1>12 DEF Tidy, At, Exit
<1>13. CASE DecryptBegin
    BY <1>13 DEF DecryptBegin, Start, Exit
<1>14. CASE PlainOpen
    BY <1>14 DEF PlainOpen, At, Goto
<1>15. CASE PlainWrite
    BY <1>15 DEF PlainWrite, At, Goto, Exit
<1>16. CASE SidecarWrite
    BY <1>16 DEF SidecarWrite, At, Exit
<1>17. CASE Edit
    BY <1>17 DEF Edit
<1>18. CASE DropStore
    BY <1>18 DEF DropStore
<1>19. CASE Kill
    BY <1>19 DEF Kill, Exit
<1>20. CASE Flush
    BY <1>20 DEF Flush
<1>21. CASE PowerFails
    BY <1>21 DEF PowerFails, Exit
<1>22. ASSUME NEW l \in open, Expire(l) PROVE Held'
    BY <1>22 DEF Expire
<1>23. ASSUME NEW m \in 1 .. MaxMasters, Restart(m) PROVE Held'
    BY <1>23 DEF Restart, Loaded, SealedAfter
<1>24. CASE UNCHANGED vars
    BY <1>24 DEF vars
<1>. QED
    BY <1>1, <1>2, <1>3, <1>4, <1>5, <1>6, <1>7, <1>8, <1>9, <1>10, <1>11, <1>12, <1>13, <1>14, <1>15, <1>16, <1>17, <1>18, <1>19, <1>20, <1>21, <1>22, <1>23, <1>24 DEF Next, CommandStep

-----------------------------------------------------------------------------
(* The theorems *)

\* The invariant holds at first ...
LEMMA InvInit == Init => IInv
<1>. SUFFICES ASSUME Init PROVE IInv
    OBVIOUS
<1>1. TypeOK
  <2>1. cmd \in Cmd /\ trust \in Trust
    BY DEF Init, Cmd, Trust
  <2>2. plain \in File /\ cipher \in File
    BY ConstantsAssumption DEF Init, File
  <2>3. /\ edits \in 1 .. MaxEdits /\ leases \in 0 .. MaxLeases
        /\ identity \in 1 .. MaxMasters /\ sealedBy \in 1 .. MaxMasters
    BY ConstantsAssumption DEF Init
  <2>4. sidecar \in 0 .. leases
    BY DEF Init
  <2>. QED
    BY <2>1, <2>2, <2>3, <2>4 DEF Init, TypeOK
<1>2. CmdInv
    BY DEF Init, CmdInv, Idle
<1>3. FilesInv
    BY DEF Init, FilesInv, InPlace, Closing, At, Idle, Absent, Torn, Whole
<1>4. ClosedBeforeShred /\ PinValid
    BY DEF Init, ClosedBeforeShred, PinValid, Idle, NoPin
<1>. QED
    BY <1>1, <1>2, <1>3, <1>4 DEF IInv

\* ... and every step keeps it.
LEMMA InvNext == IInv /\ [Next]_vars => IInv'
BY TypeStep, CmdStep, FilesStep, CloseStep, PinStep DEF IInv

\* The invariant holds in every state, for all values of the constants.
THEOREM InvariantHolds == Spec => []IInv
BY InvInit, InvNext, PTL DEF Spec

\* Every variable of Client keeps its type (TypeOK).
THEOREM TypeCorrect == Spec => []TypeOK
<1>1. IInv => TypeOK
    BY DEF IInv
<1>. QED
    BY <1>1, InvariantHolds, PTL

\* A plaintext is destroyed only when the lease that its check-in names is closed
\* (ClosedBeforeShred).
THEOREM ShredsClosed == Spec => []ClosedBeforeShred
<1>1. IInv => ClosedBeforeShred
    BY DEF IInv
<1>. QED
    BY <1>1, InvariantHolds, PTL

\* A pinned key is that of the KMS, as long as the master key stays (PinValid).
THEOREM PinsValid == Spec => []PinValid
<1>1. IInv => PinValid
    BY DEF IInv
<1>. QED
    BY <1>1, InvariantHolds, PTL

\* No step loses the last version of the file but in the cases that Unguarded
\* names (EditsKept).
THEOREM VersionKept == Spec => EditsKept
<1>1. IInv /\ [Next]_vars => [Held => Held' \/ Unguarded]_vars
    BY EditsStep DEF IInv
<1>. QED
    BY <1>1, InvariantHolds, PTL DEF Spec, EditsKept

-----------------------------------------------------------------------------
(* Envelopes *)

\* What the table of keys holds opens only under its own master key.
THEOREM SecretsAreSealed == SecretsSealed
<1> SUFFICES ASSUME NEW wrapping \in Secrets, NEW other \in Secrets, NEW secret \in Secrets,
                    NEW nonce \in Nonces
             PROVE  UnwrapSecret(other, WrapSecret(wrapping, nonce, secret)) =
                       IF other = wrapping THEN Done(secret) ELSE Raised
    BY DEF SecretsSealed
<1> DEFINE blob == WrapSecret(wrapping, nonce, secret)
<1>1. /\ Decoded(blob).nonce = nonce
      /\ Decoded(blob).box = Seal(wrapping, nonce, KeyWrap, secret)
    BY DEF WrapSecret, Encoded, Decoded
<1>2. Unseal(other, nonce, KeyWrap, Seal(wrapping, nonce, KeyWrap, secret)) =
         IF other = wrapping THEN Done(secret) ELSE Raised
    BY DEF Unseal, Seal
<1>3. QED  BY <1>1, <1>2 DEF UnwrapSecret

LEMMA EncapsulateResult ==
    ASSUME NEW backend \in KemBackends, NEW pk, NEW r
    PROVE  Encapsulate(backend, pk, r) = <<KemText(pk, r), Shared(pk, r)>>
BY DEF Encapsulate, OqsEncapsulate, KyberEncapsulate, OqsEncap, KyberEncaps

LEMMA DecapsResult ==
    ASSUME NEW sk, NEW other, NEW r
    PROVE  DecapsLibrary(sk, KemText(PublicOf(other), r)) =
              Done(IF sk = other THEN Shared(PublicOf(sk), r)
                                 ELSE <<"rejected", sk, KemText(PublicOf(other), r)>>)
<1> DEFINE ct == KemText(PublicOf(other), r)
<1>1. ct # Malformed
    BY DEF KemText, Malformed
<1>2. ct[2] = PublicOf(other) /\ ct[3] = r
    BY DEF KemText
<1>3. PublicOf(sk) = PublicOf(other) <=> sk = other
    BY DEF PublicOf
<1>4. QED  BY <1>1, <1>2, <1>3 DEF DecapsLibrary

\* What an honest box opens with, and what it then gives.
LEMMA UnsealBox ==
    ASSUME NEW shared, NEW nonce, NEW aad, NEW box \in Boxes \union {AlteredBox},
           Unseal(DeriveDek(shared), nonce, aad, box) # Raised
    PROVE  \E sk \in Secrets, r \in Randoms, text \in Plaintexts :
              /\ shared = Shared(PublicOf(sk), r)
              /\ box = Seal(DeriveDek(shared), nonce, aad, text)
              /\ Unseal(DeriveDek(shared), nonce, aad, box) = Done(text)
<1>1. box = Seal(DeriveDek(shared), nonce, aad, box[5])
    BY DEF Unseal
<1>2. box # AlteredBox
    BY <1>1 DEF Seal, AlteredBox
<1>3. PICK dek \in Deks, n \in Nonces, a \in Aads, text \in Plaintexts :
          box = Seal(dek, n, a, text)
    BY <1>2 DEF Boxes
<1>4. dek = DeriveDek(shared) /\ text = box[5]
    BY <1>1, <1>3 DEF Seal
<1>5. PICK sk \in Secrets, r \in Randoms : dek = DeriveDek(Shared(PublicOf(sk), r))
    BY <1>3 DEF Deks
<1>6. shared = Shared(PublicOf(sk), r)
    BY <1>4, <1>5 DEF DeriveDek
<1>7. Unseal(DeriveDek(shared), nonce, aad, box) = Done(text)
    BY <1>1, <1>4 DEF Unseal
<1>8. QED  BY <1>1, <1>4, <1>6, <1>7

\* What is encrypted to a key is read with that key, and nothing but an encryption
\* to it, under its nonce and associated data, is.
THEOREM EnvelopesBound == EnvelopeBound
<1> SUFFICES ASSUME NEW rows \in [Rows -> Secrets], NEW ref \in Rows, NEW aad \in Aads
             PROVE  /\ \A backend \in KemBackends, text \in Plaintexts, r \in Randoms,
                         nonce \in Nonces :
                          LET env == EnvelopeEncrypt(backend, PublicOf(rows[ref]), text, aad,
                                                     r, nonce)
                          IN  Decrypt(rows, ref, env, aad) = Done(text)
                    /\ \A env \in Returned :
                          Decrypt(rows, ref, env, aad) # Raised =>
                              \E r \in Randoms, text \in Plaintexts :
                                  LET made == EnvelopeEncrypt("auto", PublicOf(rows[ref]), text,
                                                              aad, r, Decoded(env.nonce))
                                  IN  /\ env.v = made.v
                                      /\ Decoded(env.kem_ct) = Decoded(made.kem_ct)
                                      /\ Decoded(env.ct) = Decoded(made.ct)
                                      /\ Decrypt(rows, ref, env, aad) = Done(text)
    BY DEF EnvelopeBound
<1> DEFINE sk == rows[ref]
<1>1. \A env : Decrypt(rows, ref, env, aad) = EnvelopeDecrypt(sk, env, aad)
    BY DEF Decrypt
<1>2. ASSUME NEW backend \in KemBackends, NEW text, NEW r, NEW nonce
      PROVE  LET made == EnvelopeEncrypt(backend, PublicOf(sk), text, aad, r, nonce)
             IN  /\ made.v = Version
                 /\ Decoded(made.kem_ct) = KemText(PublicOf(sk), r)
                 /\ Decoded(made.nonce) = nonce
                 /\ Decoded(made.ct) = Seal(DeriveDek(Shared(PublicOf(sk), r)), nonce, aad, text)
    BY EncapsulateResult DEF EnvelopeEncrypt, Encoded, Decoded
<1>3. ASSUME NEW backend \in KemBackends, NEW text \in Plaintexts, NEW r \in Randoms,
             NEW nonce \in Nonces
      PROVE  Decrypt(rows, ref, EnvelopeEncrypt(backend, PublicOf(sk), text, aad, r, nonce), aad)
                = Done(text)
    <2> DEFINE env == EnvelopeEncrypt(backend, PublicOf(sk), text, aad, r, nonce)
               dek == DeriveDek(Shared(PublicOf(sk), r))
    <2>1. DecapsLibrary(sk, Decoded(env.kem_ct)) = Done(Shared(PublicOf(sk), r))
        <3>1. Decoded(env.kem_ct) = KemText(PublicOf(sk), r)
            BY <1>2
        <3>2. QED  BY <3>1, DecapsResult, Zenon
    <2>2. Unseal(dek, nonce, aad, Seal(dek, nonce, aad, text)) = Done(text)
        BY DEF Unseal, Seal
    <2>3. EnvelopeDecrypt(sk, env, aad) =
             Unseal(dek, Decoded(env.nonce), aad, Decoded(env.ct))
        <3> HIDE DEF env, dek
        <3>1. env.v = Version
            BY <1>2 DEF env
        <3>2. QED  BY <2>1, <3>1 DEF EnvelopeDecrypt, Done, Raised, dek
    <2>4. QED  BY <1>1, <1>2, <2>2, <2>3
<1>4. ASSUME NEW env \in Returned, Decrypt(rows, ref, env, aad) # Raised
      PROVE  \E r \in Randoms, text \in Plaintexts :
                LET made == EnvelopeEncrypt("auto", PublicOf(rows[ref]), text, aad, r,
                                            Decoded(env.nonce))
                IN  /\ env.v = made.v
                    /\ Decoded(env.kem_ct) = Decoded(made.kem_ct)
                    /\ Decoded(env.ct) = Decoded(made.ct)
                    /\ Decrypt(rows, ref, env, aad) = Done(text)
    <2> DEFINE shared == DecapsLibrary(sk, Decoded(env.kem_ct))
               nonce == Decoded(env.nonce)
               box == Decoded(env.ct)
    <2>1. /\ env.v = Version /\ shared # Raised
          /\ EnvelopeDecrypt(sk, env, aad) = Unseal(DeriveDek(shared[2]), nonce, aad, box)
        BY <1>1, <1>4 DEF EnvelopeDecrypt
    <2>2. /\ Decoded(env.kem_ct) \in KemTexts \union {Malformed}
          /\ box \in Boxes \union {AlteredBox}
        BY DEF Returned, Base64Of, Decoded
    <2>3. Decoded(env.kem_ct) # Malformed
        BY <2>1 DEF DecapsLibrary
    <2>4. PICK other \in Secrets, r \in Randoms : Decoded(env.kem_ct) = KemText(PublicOf(other), r)
        BY <2>2, <2>3 DEF KemTexts
    <2>5. shared = Done(IF sk = other THEN Shared(PublicOf(sk), r)
                                      ELSE <<"rejected", sk, KemText(PublicOf(other), r)>>)
        BY <2>4, DecapsResult
    <2>6. PICK s2 \in Secrets, r2 \in Randoms, text \in Plaintexts :
             /\ shared[2] = Shared(PublicOf(s2), r2)
             /\ box = Seal(DeriveDek(shared[2]), nonce, aad, text)
             /\ Unseal(DeriveDek(shared[2]), nonce, aad, box) = Done(text)
        <3>1. Unseal(DeriveDek(shared[2]), nonce, aad, box) # Raised
            BY <1>1, <1>4, <2>1
        <3>2. QED  BY <2>2, <3>1, UnsealBox
    <2>7. sk = other /\ shared[2] = Shared(PublicOf(sk), r)
        BY <2>5, <2>6 DEF Done, Shared
    <2>8. "auto" \in KemBackends
        BY DEF KemBackends
    <2>9. Decrypt(rows, ref, env, aad) = Done(text)
        BY <1>1, <2>1, <2>6
    <2> HIDE DEF shared, nonce, box
    <2>10. box = Decoded(env.ct) /\ nonce = Decoded(env.nonce)
        BY DEF box, nonce
    <2>11. QED  BY <1>2, <2>1, <2>4, <2>6, <2>7, <2>8, <2>9, <2>10
<1>5. QED  BY <1>3, <1>4

\* The service unwraps a header to the data key that the client was given exactly if
\* row and ciphertext are the header's own; otherwise it raises nothing, and its
\* answer opens nothing.
THEOREM DataKeysBound == DataKeyBound
<1> SUFFICES ASSUME NEW rows \in [Rows -> Secrets], NEW ref \in Rows,
                    NEW kem_ct \in Base64Of(KemTexts)
             PROVE  LET unwrapped == UnwrapDataKey(rows, ref, kem_ct) IN
                      /\ unwrapped # Raised
                      /\ \A backend \in KemBackends, r \in Randoms :
                            LET made == GenerateDataKey(backend, rows[ref], r)
                            IN  unwrapped = Done(made.dek)
                                  <=> Decoded(kem_ct) = Decoded(made.kem_ct)
                      /\ Decoded(kem_ct)[2] # PublicOf(rows[ref]) =>
                            \A nonce \in Nonces, aad \in Aads, box \in Boxes :
                                Unseal(unwrapped[2], nonce, aad, box) = Raised
    BY DEF DataKeyBound
<1> DEFINE sk == rows[ref]
           unwrapped == UnwrapDataKey(rows, ref, kem_ct)
<1>1. PICK other \in Secrets, drawn \in Randoms : Decoded(kem_ct) = KemText(PublicOf(other), drawn)
    BY DEF Base64Of, KemTexts, Decoded
<1> DEFINE shared == IF sk = other THEN Shared(PublicOf(sk), drawn)
                                   ELSE <<"rejected", sk, KemText(PublicOf(other), drawn)>>
<1>2. unwrapped = Done(DeriveDek(shared))
    <2>1. DecapsLibrary(sk, Decoded(kem_ct)) = Done(shared)
        BY <1>1, DecapsResult
    <2> HIDE DEF shared
    <2>2. Unwrapped(sk, kem_ct) = Done(DeriveDek(shared))
        BY <2>1 DEF Unwrapped, Done, Raised
    <2>3. QED  BY <2>2 DEF UnwrapDataKey
<1>3. unwrapped # Raised
    BY <1>2 DEF Done, Raised
<1>4. ASSUME NEW backend \in KemBackends, NEW r \in Randoms
      PROVE  LET made == GenerateDataKey(backend, sk, r)
             IN  unwrapped = Done(made.dek) <=> Decoded(kem_ct) = Decoded(made.kem_ct)
    <2> DEFINE made == GenerateDataKey(backend, sk, r)
    <2>1. made.dek = DeriveDek(Shared(PublicOf(sk), r))
          /\ Decoded(made.kem_ct) = KemText(PublicOf(sk), r)
        BY EncapsulateResult DEF GenerateDataKey, Encoded, Decoded
    <2>2. KemText(PublicOf(other), drawn) = KemText(PublicOf(sk), r) <=> other = sk /\ drawn = r
        BY DEF KemText, PublicOf
    <2>3. Done(DeriveDek(shared)) = Done(DeriveDek(Shared(PublicOf(sk), r))) <=>
             other = sk /\ drawn = r
        BY DEF Done, DeriveDek, Shared
    <2> HIDE DEF made, shared
    <2>4. QED  BY <1>1, <1>2, <2>1, <2>2, <2>3 DEF made
<1>5. ASSUME Decoded(kem_ct)[2] # PublicOf(sk), NEW nonce \in Nonces, NEW aad \in Aads,
             NEW box \in Boxes
      PROVE  Unseal(unwrapped[2], nonce, aad, box) = Raised
    <2>1. sk # other
        BY <1>1, <1>5 DEF KemText
    <2>2. \A s \in Secrets, r \in Randoms : shared # Shared(PublicOf(s), r)
        BY <2>1 DEF Shared
    <2> HIDE DEF shared
    <2>3. unwrapped[2] = DeriveDek(shared)
        BY <1>2 DEF Done
    <2>4. Unseal(DeriveDek(shared), nonce, aad, box) = Raised
        BY <2>2, UnsealBox
    <2>5. QED  BY <2>3, <2>4
<1>6. QED  BY <1>3, <1>4, <1>5

LEMMA Parts ==
    ASSUME NEW x \in Seq(Nat), NEW s \in Seq(Nat)
    PROVE  /\ x \o s \in Seq(Nat) /\ Len(x \o s) = Len(x) + Len(s)
           /\ \A i \in 1 .. Len(x) : (x \o s)[i] = x[i]
           /\ \A i \in 1 .. Len(s) : (x \o s)[Len(x) + i] = s[i]
OBVIOUS

\* Concatenation under a name the provers leave folded.
Cat(x, y) == x \o y

LEMMA Joined ==
    \A x, y, z \in Seq(Nat) : Cat(x, y) \in Seq(Nat) /\ Cat(Cat(x, y), z) = Cat(x, Cat(y, z))
<1> SUFFICES ASSUME NEW x \in Seq(Nat), NEW y \in Seq(Nat), NEW z \in Seq(Nat)
             PROVE  x \o y \in Seq(Nat) /\ (x \o y) \o z = x \o (y \o z)
    BY DEF Cat
<1>1. QED  BY ConcatAssociative

LEMMA FourJoined ==
    ASSUME NEW a \in Seq(Nat), NEW b \in Seq(Nat), NEW c \in Seq(Nat), NEW d \in Seq(Nat)
    PROVE  Cat(Cat(Cat(a, b), c), d) = Cat(a, Cat(b, Cat(c, d)))
<1>1. Cat(Cat(Cat(a, b), c), d) = Cat(Cat(a, b), Cat(c, d))
    BY Joined
<1>2. Cat(Cat(a, b), Cat(c, d)) = Cat(a, Cat(b, Cat(c, d)))
    BY Joined
<1>3. QED  BY <1>1, <1>2

\* A field of the message that is signed ends where its length says, so the first
\* field and what follows it are known from the two together.
LEMMA FieldEnds ==
    ASSUME NEW a \in Seq(Nat), NEW b \in Seq(Nat), NEW s \in Seq(Nat), NEW t \in Seq(Nat),
           Cat(Field(a), s) = Cat(Field(b), t)
    PROVE  a = b /\ s = t
<1>1. /\ Field(a) \in Seq(Nat) /\ Len(Field(a)) = Len(a) + 1
      /\ Field(a)[1] = Len(a) /\ \A i \in 1 .. Len(a) : Field(a)[i + 1] = a[i]
    BY DEF Field
<1>2. /\ Field(b) \in Seq(Nat) /\ Len(Field(b)) = Len(b) + 1
      /\ Field(b)[1] = Len(b) /\ \A i \in 1 .. Len(b) : Field(b)[i + 1] = b[i]
    BY DEF Field
<1> HIDE DEF Field
<1> DEFINE u == Field(a) \o s
           w == Field(b) \o t
<1>3. /\ u \in Seq(Nat) /\ Len(u) = Len(a) + 1 + Len(s)
      /\ \A i \in 1 .. Len(a) + 1 : u[i] = Field(a)[i]
      /\ \A i \in 1 .. Len(s) : u[Len(a) + 1 + i] = s[i]
    <2> DEFINE x == Field(a)
    <2>1. x \in Seq(Nat) /\ Len(x) = Len(a) + 1
        BY <1>1
    <2> HIDE DEF x
    <2>2. /\ x \o s \in Seq(Nat) /\ Len(x \o s) = Len(x) + Len(s)
          /\ \A i \in 1 .. Len(x) : (x \o s)[i] = x[i]
          /\ \A i \in 1 .. Len(s) : (x \o s)[Len(x) + i] = s[i]
        BY <2>1, Parts
    <2>3. QED  BY <2>1, <2>2 DEF x
<1>4. /\ w \in Seq(Nat) /\ Len(w) = Len(b) + 1 + Len(t)
      /\ \A i \in 1 .. Len(b) + 1 : w[i] = Field(b)[i]
      /\ \A i \in 1 .. Len(t) : w[Len(b) + 1 + i] = t[i]
    <2> DEFINE x == Field(b)
    <2>1. x \in Seq(Nat) /\ Len(x) = Len(b) + 1
        BY <1>2
    <2> HIDE DEF x
    <2>2. /\ x \o t \in Seq(Nat) /\ Len(x \o t) = Len(x) + Len(t)
          /\ \A i \in 1 .. Len(x) : (x \o t)[i] = x[i]
          /\ \A i \in 1 .. Len(t) : (x \o t)[Len(x) + i] = t[i]
        BY <2>1, Parts
    <2>3. QED  BY <2>1, <2>2 DEF x
<1>5. u = w
    BY DEF Cat
<1> HIDE DEF u, w
<1>6. Len(a) = Len(b) /\ Len(s) = Len(t)
    <2>1. u[1] = Field(a)[1] /\ w[1] = Field(b)[1]
        BY <1>3, <1>4
    <2>2. Len(a) = Len(b)
        BY <1>1, <1>2, <1>5, <2>1
    <2>3. Len(a) + 1 + Len(s) = Len(b) + 1 + Len(t)
        BY <1>3, <1>4, <1>5
    <2>4. QED  BY <2>2, <2>3
<1>7. \A i \in 1 .. Len(a) : a[i] = b[i]
    <2> SUFFICES ASSUME NEW i \in 1 .. Len(a)  PROVE a[i] = b[i]
        OBVIOUS
    <2>1. i + 1 \in 1 .. Len(a) + 1 /\ i + 1 \in 1 .. Len(b) + 1
        BY <1>6
    <2>2. u[i + 1] = Field(a)[i + 1]
        BY <1>3, <2>1
    <2>3. w[i + 1] = Field(b)[i + 1]
        BY <1>4, <2>1
    <2>4. QED  BY <1>1, <1>2, <1>5, <1>6, <2>2, <2>3
<1>8. \A i \in 1 .. Len(s) : s[i] = t[i]
    <2> SUFFICES ASSUME NEW i \in 1 .. Len(s)  PROVE s[i] = t[i]
        OBVIOUS
    <2>1. i \in 1 .. Len(t)
        BY <1>6
    <2>2. u[Len(a) + 1 + i] = s[i]
        BY <1>3
    <2>3. w[Len(b) + 1 + i] = t[i]
        BY <1>4, <2>1
    <2>4. QED  BY <1>5, <1>6, <2>2, <2>3
<1>9. QED  BY <1>6, <1>7, <1>8, SeqEqual

LEMMA FieldsEnd ==
    \A a, b, s, t \in Seq(Nat) : Cat(Field(a), s) = Cat(Field(b), t) => a = b /\ s = t
<1> SUFFICES ASSUME NEW a \in Seq(Nat), NEW b \in Seq(Nat), NEW s \in Seq(Nat),
                    NEW t \in Seq(Nat), Cat(Field(a), s) = Cat(Field(b), t)
             PROVE  a = b /\ s = t
    OBVIOUS
<1>1. QED  BY FieldEnds

LEMMA FieldType == \A a \in Seq(Nat) : Field(a) \in Seq(Nat)
BY DEF Field

LEMMA LastField ==
    ASSUME NEW a \in Seq(Nat), NEW b \in Seq(Nat), Field(a) = Field(b)
    PROVE  a = b
<1>1. Field(a) \o << >> = Field(a) /\ Field(b) \o << >> = Field(b)
    BY FieldType
<1>2. << >> \in Seq(Nat)
    OBVIOUS
<1>3. QED  BY <1>1, <1>2, FieldEnds

LEMMA MessageEnds ==
    ASSUME NEW a \in Seq(Nat), NEW b \in Seq(Nat), NEW c \in Seq(Nat), NEW d \in Seq(Nat)
    PROVE  /\ Field(a) \in Seq(Nat)
           /\ Cat(Field(c), Field(d)) \in Seq(Nat)
           /\ Cat(Field(b), Cat(Field(c), Field(d))) \in Seq(Nat)
           /\ SigningMessage(a, b, c, d) = Cat(Field(a), Cat(Field(b), Cat(Field(c), Field(d))))
<1>1. Field(a) \in Seq(Nat) /\ Field(b) \in Seq(Nat) /\ Field(c) \in Seq(Nat) /\ Field(d) \in Seq(Nat)
    BY FieldType
<1>2. Cat(Field(c), Field(d)) \in Seq(Nat)
    BY <1>1, Joined
<1>3. Cat(Field(b), Cat(Field(c), Field(d))) \in Seq(Nat)
    BY <1>1, <1>2, Joined
<1>4. Cat(Cat(Cat(Field(a), Field(b)), Field(c)), Field(d))
        = Cat(Field(a), Cat(Field(b), Cat(Field(c), Field(d))))
    <2> DEFINE x == Field(a)
               y == Field(b)
               z == Field(c)
               u == Field(d)
    <2>1. x \in Seq(Nat) /\ y \in Seq(Nat) /\ z \in Seq(Nat) /\ u \in Seq(Nat)
        BY <1>1
    <2> HIDE DEF x, y, z, u
    <2>2. Cat(Cat(Cat(x, y), z), u) = Cat(x, Cat(y, Cat(z, u)))
        BY <2>1, FourJoined
    <2>3. QED  BY <2>2 DEF x, y, z, u
<1>5. SigningMessage(a, b, c, d) = Cat(Cat(Cat(Field(a), Field(b)), Field(c)), Field(d))
    BY Zenon DEF SigningMessage, Cat
<1>6. QED  BY <1>1, <1>2, <1>3, <1>4, <1>5

\* The signature of a public key is that of no other name, version, algorithm or key.
THEOREM SignaturesBound ==
    ASSUME NEW name1 \in Seq(Nat), NEW digits1 \in Seq(Nat), NEW algorithm1 \in Seq(Nat),
           NEW key1 \in Seq(Nat),
           NEW name2 \in Seq(Nat), NEW digits2 \in Seq(Nat), NEW algorithm2 \in Seq(Nat),
           NEW key2 \in Seq(Nat),
           Unsigned \notin Secrets
    PROVE  SignatureBound(name1, name2, digits1, digits2, algorithm1, algorithm2, key1, key2)
<1> DEFINE first == SigningMessage(name1, digits1, algorithm1, key1)
           second == SigningMessage(name2, digits2, algorithm2, key2)
           Same == name1 = name2 /\ digits1 = digits2 /\ algorithm1 = algorithm2 /\ key1 = key2
<1>1. first = second => Same
    <2> SUFFICES ASSUME first = second  PROVE Same
        OBVIOUS
    <2> DEFINE c1 == Cat(Field(algorithm1), Field(key1))
               c2 == Cat(Field(algorithm2), Field(key2))
               d1 == Cat(Field(digits1), c1)
               d2 == Cat(Field(digits2), c2)
    <2>1. c1 \in Seq(Nat) /\ c2 \in Seq(Nat) /\ d1 \in Seq(Nat) /\ d2 \in Seq(Nat)
        BY MessageEnds
    <2>2. Field(key1) \in Seq(Nat) /\ Field(key2) \in Seq(Nat)
        BY FieldType
    <2>3. Cat(Field(name1), d1) = Cat(Field(name2), d2)
        BY MessageEnds
    <2>4. name1 = name2 /\ d1 = d2
        <3> HIDE DEF d1, d2
        <3>1. QED  BY <2>1, <2>3, FieldsEnd
    <2>5. Cat(Field(digits1), c1) = Cat(Field(digits2), c2)
        BY <2>4
    <2>6. digits1 = digits2 /\ c1 = c2
        <3> HIDE DEF c1, c2
        <3>1. QED  BY <2>1, <2>5, FieldsEnd
    <2>7. Cat(Field(algorithm1), Field(key1)) = Cat(Field(algorithm2), Field(key2))
        BY <2>6
    <2>8. algorithm1 = algorithm2 /\ Field(key1) = Field(key2)
        BY <2>2, <2>7, FieldsEnd
    <2>9. QED  BY <2>4, <2>6, <2>8, LastField
<1>2. SUFFICES ASSUME NEW signer \in Secrets
               PROVE  LET served == PublicKey(signer, [name |-> name1, version |-> digits1,
                                           algorithm |-> algorithm1, public_key |-> key1])
                      IN  Verifies(signer, second, served.signature) <=> Same
    BY DEF SignatureBound
<1>3. PublicKey(signer, [name |-> name1, version |-> digits1, algorithm |-> algorithm1,
                           public_key |-> key1]).signature = Sign(signer, first)
    BY DEF PublicKey, SignPublicKey
<1>4. Sign(signer, first) = Sign(signer, second) <=> first = second
    <2> HIDE DEF first, second
    <2>1. QED  BY DEF Sign
<1>5. Same => first = second
    OBVIOUS
<1>6. QED  BY <1>1, <1>3, <1>4, <1>5 DEF Verifies

-----------------------------------------------------------------------------
(* The web console: the inductive invariant.  A request under way is proper  *)
(* for what the service and the authenticator hold, its part is mounted if it *)
(* is not gone, the page shows the cookie's user or /api/me is under way, and *)
(* a list has the own changes or a request for it is under way that will.     *)

Places == Slots \union {Timer}

Kinds == [status : {"none", "pending", "active"}, must : BOOLEAN, reset : BOOLEAN,
          secret : 0 .. MaxSecrets, mfa : BOOLEAN]
Pages == [user : Users \union {None}, must : BOOLEAN, mfa : BOOLEAN,
          view : {"console", "monitor"}]

\* A request r under way, when o are the owners of the tokens, k changes and n
\* secrets have been made, and the authenticator holds the secrets c.
Proper(r, o, k, n, c) ==
    /\ r \in Requests
    /\ r.op \in {"setup", "register", "forgot", "approve", "delete", "reset"} => r.x \in Users
    /\ r.op = "login" => r.x.user \in Users
    /\ r.op = "activate" => r.x \in c
    /\ r.state = "code" => r.op = "login"
    /\ r.state = "passed" =>
          r.op = "login" \/ (r.op = "activate" /\ r.t \in Tokens /\ o[r.t] # None)
    /\ r.state = "ok" =>
          /\ r.op = "me" => r.ans \in Me /\ r.t \in Tokens /\ o[r.t] = r.ans.user
          /\ r.op = "login" => r.ans \in Tokens /\ o[r.ans] # None
          /\ r.op = "enroll" => r.ans \in 1 .. n
          /\ r.op \in {"keys", "change"} => r.ans \in 0 .. k

FlightOK(f, o, k, n, c) ==
    /\ f \in [Places -> Requests \union {None}]
    /\ \A s \in Places : f[s] # None => Proper(f[s], o, k, n, c)

\* What is not gone is mounted in b.
HereOK(f, b) ==
    \A s \in Places : f[s] # None /\ ~f[s].gone => Mounted(Sender(f[s].op), b)

ServerInv ==
    /\ acct \in [Users -> Kinds]
    /\ owner \in [Tokens -> Users \union {None}]
    /\ \A u \in Users : acct[u].status = "none" => acct[u].secret = 0
    /\ \A t \in live : t \in Tokens /\ owner[t] # None
    /\ keys \in Nat /\ secrets \in 0 .. MaxSecrets

BrowserInv ==
    /\ cookie \in Tokens \union {None}
    /\ cookie # None => owner[cookie] # None
    /\ known \subseteq 1 .. secrets

PageInv ==
    /\ tab \in Pages
    /\ part = Kept(part, tab)
    /\ part.filter \in Filters
    /\ part.keys \in Nat /\ part.own \in Nat

\* The user shown is the cookie's, or /api/me is under way and will tell.
IdentInv ==
    SignedIn(tab) /\ ~astray =>
        \/ cookie # None /\ owner[cookie] = tab.user
        \/ \E s \in Places : flight[s] # None /\ flight[s].op = "me"

\* r is an activation whose code has been verified: the secret is still that of
\* the code, or its user is one of those that were enrolled again or removed.
Enabling(r) == r # None /\ r.op = "activate" /\ r.state = "passed"

FactorInv ==
    /\ SecondFactorKept
    /\ \A s \in Places : Enabling(flight[s]) =>
          \/ owner[flight[s].t] \in replaced
          \/ acct[owner[flight[s].t]].secret = flight[s].x

\* r is a request for the list of keys, whose answer has n changes or more.
Coming(r, n) == r # None /\ ~r.gone /\ r.op = "keys" /\ (r.state = "ok" => r.ans >= n)

OwnInv ==
    /\ part.own =< keys
    /\ Shows("console") /\ ~part.crossed =>
          part.keys >= part.own \/ \E s \in Places : Coming(flight[s], part.own)

TabInv ==
    /\ ServerInv /\ BrowserInv /\ PageInv
    /\ FlightOK(flight, owner, keys, secrets, known)
    /\ HereOK(flight, tab)
    /\ IdentInv /\ FactorInv /\ OwnInv

\* The record that has the fields of the page part p.
Fields(p) == [screen |-> p.screen, otp |-> p.otp, list |-> p.list, keys |-> p.keys,
              own |-> p.own, crossed |-> p.crossed, enroll |-> p.enroll,
              filter |-> p.filter, shown |-> p.shown]

-----------------------------------------------------------------------------
(* Requests and what is under way *)

\* What a request that is sent is.
LEMMA PlainForm ==
    ASSUME NEW op \in TabOps, NEW x \in Arguments, NEW t \in Tokens \union {None}
    PROVE  LET r == Request(op, x, t) IN
           /\ r \in Requests /\ r # None /\ r.op = op /\ r.x = x /\ r.t = t
           /\ ~r.gone /\ r.state = "sent"
<1>. DEFINE r == Request(op, x, t)
<1>1. None \in Answers
    BY DEF Answers
<1>2. r \in Requests
    BY <1>1 DEF Request, Requests
<1>3. r # None
    BY <1>2, NoneAssumption
<1>4. r.op = op /\ r.x = x /\ r.t = t /\ r.state = "sent"
    BY DEF Request
<1>5. r.gone = FALSE
    BY DEF Request
<1>. QED
    BY <1>2, <1>3, <1>4, <1>5

\* And one that a handler sends, which inherits whether its part is gone.
LEMMA RequestForm ==
    ASSUME NEW op \in TabOps, NEW x \in Arguments, NEW t \in Tokens \union {None}, NEW g \in BOOLEAN
    PROVE  LET r == [Request(op, x, t) EXCEPT !.gone = g] IN
           /\ r \in Requests /\ r # None /\ r.op = op /\ r.x = x /\ r.t = t
           /\ r.gone = g /\ r.state = "sent"
<1>1. None \in Answers
    BY DEF Answers
<1>. QED
    BY <1>1, NoneAssumption DEF Request, Requests

\* A request that is answered.
LEMMA AnswerForm ==
    ASSUME NEW r \in Requests, NEW v \in Answers
    PROVE  LET q == [r EXCEPT !.state = "ok", !.ans = v] IN
           /\ q \in Requests /\ q # None /\ q.op = r.op /\ q.x = r.x /\ q.t = r.t /\ q.gone = r.gone
           /\ q.state = "ok" /\ q.ans = v
BY NoneAssumption DEF Requests

\* What is under way stays proper while owners stay and the counters grow.
LEMMA FlightGrows ==
    ASSUME NEW f, NEW o, NEW k \in Nat, NEW n \in Nat, NEW c, FlightOK(f, o, k, n, c),
           NEW p, NEW j \in Nat, NEW m \in Nat, NEW d,
           \A t \in Tokens : o[t] # None => p[t] = o[t], k =< j, n =< m, c \subseteq d,
           o \in [Tokens -> Users \union {None}]
    PROVE  FlightOK(f, p, j, m, d)
<1>1. SUFFICES ASSUME NEW s \in Places, f[s] # None, Proper(f[s], o, k, n, c)
               PROVE  Proper(f[s], p, j, m, d)
    BY DEF FlightOK
<1>2. \A i : (i \in 1 .. n => i \in 1 .. m) /\ (i \in 0 .. k => i \in 0 .. j)
    OBVIOUS
<1>3. \A u \in Users : u # None
    BY TabAssumption
<1>. QED
    BY <1>1, <1>2, <1>3 DEF Proper, Me

\* One request changes, or goes.
LEMMA FlightSet ==
    ASSUME NEW f, NEW o, NEW k, NEW n, NEW c, FlightOK(f, o, k, n, c), NEW s \in Places,
           NEW r, r = None \/ Proper(r, o, k, n, c)
    PROVE  FlightOK([f EXCEPT ![s] = r], o, k, n, c)
BY DEF FlightOK, Proper

\* And the part that sent it is mounted.
LEMMA HereSet ==
    ASSUME NEW f, NEW b, HereOK(f, b), f \in [Places -> Requests \union {None}], NEW s \in Places,
           NEW r, r # None /\ ~r.gone => Mounted(Sender(r.op), b)
    PROVE  HereOK([f EXCEPT ![s] = r], b)
BY DEF HereOK

-----------------------------------------------------------------------------
(* What is kept of the page *)

\* What is kept of what is kept.
LEMMA KeptTwice ==
    ASSUME NEW p, NEW b
    PROVE  Kept(p, b) = Kept(Kept(p, b), b)
BY DEF Kept, Blank

\* What a page that is kept in b looks like, and the other way round.
LEMMA KeptForm ==
    ASSUME NEW p, NEW b, p = Kept(p, b)
    PROVE  /\ p = Fields(p) /\ p.otp \in BOOLEAN /\ p.crossed \in BOOLEAN
           /\ ~Mounted("gate", b) => p.screen = Blank.screen /\ ~p.otp
           /\ ~Mounted("requests", b) => p.list = Blank.list
           /\ ~Mounted("console", b) => p.keys = 0 /\ p.own = 0 /\ ~p.crossed /\ p.enroll = 0
           /\ ~Mounted("monitor", b) => p.filter = Blank.filter /\ p.shown = None
<1>1. p = Fields(p)
    BY DEF Kept, Fields
<1>2. p.otp = (Mounted("gate", b) /\ p.otp) /\ p.crossed = (Mounted("console", b) /\ p.crossed)
    BY DEF Kept
<1>3. /\ ~Mounted("gate", b) => p.screen = Blank.screen
      /\ ~Mounted("requests", b) => p.list = Blank.list
      /\ ~Mounted("console", b) => p.keys = 0 /\ p.own = 0 /\ p.enroll = 0
      /\ ~Mounted("monitor", b) => p.filter = Blank.filter /\ p.shown = None
    BY DEF Kept
<1>. QED
    BY <1>1, <1>2, <1>3

LEMMA KeptBack ==
    ASSUME NEW p, NEW b, p = Fields(p), p.otp \in BOOLEAN, p.crossed \in BOOLEAN,
           ~Mounted("gate", b) => p.screen = Blank.screen /\ ~p.otp,
           ~Mounted("requests", b) => p.list = Blank.list,
           ~Mounted("console", b) => p.keys = 0 /\ p.own = 0 /\ ~p.crossed /\ p.enroll = 0,
           ~Mounted("monitor", b) => p.filter = Blank.filter /\ p.shown = None
    PROVE  p = Kept(p, b)
<1>1. p.otp = (Mounted("gate", b) /\ p.otp) /\ p.crossed = (Mounted("console", b) /\ p.crossed)
    OBVIOUS
<1>. QED
    BY <1>1 DEF Kept, Fields

\* A field changes whose part is mounted: the page is as it would be kept.
LEMMA KeptOtp ==
    ASSUME NEW p, NEW b, p = Kept(p, b), NEW v \in BOOLEAN, v => Mounted("gate", b),
           NEW q, q = [p EXCEPT !.otp = v]
    PROVE  /\ q = Kept(q, b)
           /\ q.filter = p.filter /\ q.own = p.own /\ q.keys = p.keys /\ q.crossed = p.crossed
<1>1. /\ p = Fields(p) /\ p.crossed \in BOOLEAN
      /\ ~Mounted("gate", b) => p.screen = Blank.screen /\ ~p.otp
      /\ ~Mounted("requests", b) => p.list = Blank.list
      /\ ~Mounted("console", b) => p.keys = 0 /\ p.own = 0 /\ ~p.crossed /\ p.enroll = 0
      /\ ~Mounted("monitor", b) => p.filter = Blank.filter /\ p.shown = None
    BY KeptForm
<1>2. q = Fields(q)
    BY <1>1 DEF Fields
<1>3. /\ q.otp = v /\ q.screen = p.screen /\ q.list = p.list /\ q.keys = p.keys
      /\ q.own = p.own /\ q.crossed = p.crossed /\ q.enroll = p.enroll
      /\ q.filter = p.filter /\ q.shown = p.shown
    BY <1>1 DEF Fields
<1>4. /\ q.otp \in BOOLEAN /\ q.crossed \in BOOLEAN
      /\ ~Mounted("gate", b) => q.screen = Blank.screen /\ ~q.otp
      /\ ~Mounted("requests", b) => q.list = Blank.list
      /\ ~Mounted("console", b) => q.keys = 0 /\ q.own = 0 /\ ~q.crossed /\ q.enroll = 0
      /\ ~Mounted("monitor", b) => q.filter = Blank.filter /\ q.shown = None
    BY <1>1, <1>3
<1>5. q = Kept(q, b)
    BY <1>2, <1>4, KeptBack
<1>. QED
    BY <1>3, <1>5

LEMMA KeptCrossed ==
    ASSUME NEW p, NEW b, p = Kept(p, b), NEW v \in BOOLEAN, Mounted("console", b),
           NEW q, q = [p EXCEPT !.crossed = v]
    PROVE  /\ q = Kept(q, b)
           /\ q.filter = p.filter /\ q.own = p.own /\ q.keys = p.keys /\ q.crossed = v
<1>1. /\ p = Fields(p) /\ p.otp \in BOOLEAN
      /\ ~Mounted("gate", b) => p.screen = Blank.screen /\ ~p.otp
      /\ ~Mounted("requests", b) => p.list = Blank.list
      /\ ~Mounted("console", b) => p.keys = 0 /\ p.own = 0 /\ ~p.crossed /\ p.enroll = 0
      /\ ~Mounted("monitor", b) => p.filter = Blank.filter /\ p.shown = None
    BY KeptForm
<1>2. q = Fields(q)
    BY <1>1 DEF Fields
<1>3. /\ q.otp = p.otp /\ q.screen = p.screen /\ q.list = p.list /\ q.keys = p.keys
      /\ q.own = p.own /\ q.crossed = v /\ q.enroll = p.enroll
      /\ q.filter = p.filter /\ q.shown = p.shown
    BY <1>1 DEF Fields
<1>4. /\ q.otp \in BOOLEAN /\ q.crossed \in BOOLEAN
      /\ ~Mounted("gate", b) => q.screen = Blank.screen /\ ~q.otp
      /\ ~Mounted("requests", b) => q.list = Blank.list
      /\ ~Mounted("console", b) => q.keys = 0 /\ q.own = 0 /\ ~q.crossed /\ q.enroll = 0
      /\ ~Mounted("monitor", b) => q.filter = Blank.filter /\ q.shown = None
    BY <1>1, <1>3
<1>5. q = Kept(q, b)
    BY <1>2, <1>4, KeptBack
<1>. QED
    BY <1>3, <1>5

LEMMA KeptScreen ==
    ASSUME NEW p, NEW b, p = Kept(p, b), Mounted("gate", b), NEW v, NEW q, q = [p EXCEPT !.screen = v]
    PROVE  /\ q = Kept(q, b)
           /\ q.filter = p.filter /\ q.own = p.own /\ q.keys = p.keys /\ q.crossed = p.crossed
BY DEF Kept

LEMMA KeptUsers ==
    ASSUME NEW p, NEW b, p = Kept(p, b), Mounted("requests", b), NEW v, NEW q, q = [p EXCEPT !.list = v]
    PROVE  /\ q = Kept(q, b)
           /\ q.filter = p.filter /\ q.own = p.own /\ q.keys = p.keys /\ q.crossed = p.crossed
BY DEF Kept

LEMMA KeptEnroll ==
    ASSUME NEW p, NEW b, p = Kept(p, b), Mounted("console", b), NEW v, NEW q, q = [p EXCEPT !.enroll = v]
    PROVE  /\ q = Kept(q, b)
           /\ q.filter = p.filter /\ q.own = p.own /\ q.keys = p.keys /\ q.crossed = p.crossed
BY DEF Kept

LEMMA KeptKeys ==
    ASSUME NEW p, NEW b, p = Kept(p, b), Mounted("console", b), NEW v, NEW q, q = [p EXCEPT !.keys = v]
    PROVE  /\ q = Kept(q, b)
           /\ q.filter = p.filter /\ q.own = p.own /\ q.keys = v
BY DEF Kept

LEMMA KeptOwn ==
    ASSUME NEW p, NEW b, p = Kept(p, b), Mounted("console", b), NEW v, NEW q, q = [p EXCEPT !.own = v]
    PROVE  /\ q = Kept(q, b)
           /\ q.filter = p.filter /\ q.own = v /\ q.keys = p.keys /\ q.crossed = p.crossed
BY DEF Kept

LEMMA KeptShown ==
    ASSUME NEW p, NEW b, p = Kept(p, b), Mounted("monitor", b), NEW v, NEW q, q = [p EXCEPT !.shown = v]
    PROVE  /\ q = Kept(q, b)
           /\ q.filter = p.filter /\ q.own = p.own /\ q.keys = p.keys /\ q.crossed = p.crossed
BY DEF Kept

-----------------------------------------------------------------------------
(* What a change of one request leaves of the invariant *)

\* Owners stay, counters and what is known grow.
Grows ==
    /\ owner' \in [Tokens -> Users \union {None}]
    /\ \A t \in Tokens : owner[t] # None => owner'[t] = owner[t]
    /\ keys' \in Nat /\ keys =< keys'
    /\ secrets' \in 0 .. MaxSecrets /\ secrets =< secrets'
    /\ known \subseteq known'

\* The requests.
LEMMA SlotKeeps ==
    ASSUME TabInv, NEW s \in Places, NEW r, flight' = [flight EXCEPT ![s] = r], Grows,
           r = None \/ Proper(r, owner', keys', secrets', known'),
           r # None /\ ~r.gone => Mounted(Sender(r.op), tab'),
           \A op \in TabOps : Mounted(Sender(op), tab) => Mounted(Sender(op), tab')
    PROVE  FlightOK(flight, owner, keys, secrets, known)' /\ HereOK(flight, tab)'
<1>1. FlightOK(flight, owner', keys', secrets', known')
    BY FlightGrows, TabAssumption DEF TabInv, ServerInv, Grows
<1>2. FlightOK(flight', owner', keys', secrets', known')
    BY <1>1, FlightSet
<1>3. HereOK(flight, tab')
    BY DEF TabInv, HereOK, FlightOK, Requests
<1>4. HereOK(flight', tab')
    BY <1>3, HereSet DEF TabInv, FlightOK
<1>. QED
    BY <1>2, <1>4

\* Who is signed in.
LEMMA IdentKeeps ==
    ASSUME TabInv, NEW s \in Places, NEW r, flight' = [flight EXCEPT ![s] = r], Grows,
           tab'.user = tab.user, cookie' = cookie, ~astray' => ~astray,
           flight[s] # None /\ flight[s].op = "me" => r # None /\ r.op = "me"
    PROVE  IdentInv'
<1>1. flight \in [Places -> Requests \union {None}] /\ cookie \in Tokens \union {None}
      /\ (cookie # None => owner[cookie] # None)
    BY DEF TabInv, FlightOK, BrowserInv
<1>2. SUFFICES ASSUME tab.user # None, ~astray
               PROVE  \/ cookie # None /\ owner'[cookie] = tab.user
                      \/ \E i \in Places : flight'[i] # None /\ flight'[i].op = "me"
    BY DEF IdentInv, SignedIn
<1>3. CASE cookie # None /\ owner[cookie] = tab.user
    BY <1>1, <1>3 DEF Grows
<1>4. CASE \E i \in Places : flight[i] # None /\ flight[i].op = "me"
    BY <1>1, <1>4
<1>. QED
    BY <1>2, <1>3, <1>4 DEF TabInv, IdentInv, SignedIn

\* The own changes.
LEMMA OwnKeeps ==
    ASSUME TabInv, NEW s \in Places, NEW r, flight' = [flight EXCEPT ![s] = r], Grows,
           part'.own = part.own, part'.keys = part.keys, part'.crossed = part.crossed,
           Mounted("console", tab') => Mounted("console", tab),
           Coming(flight[s], part.own) => Coming(r, part.own)
    PROVE  OwnInv'
<1>1. flight \in [Places -> Requests \union {None}] /\ part.own \in Nat /\ keys \in Nat /\ keys' \in Nat
    BY DEF TabInv, FlightOK, PageInv, ServerInv, Grows
<1>2. part.own =< keys'
    BY <1>1 DEF TabInv, OwnInv, Grows
<1>3. ASSUME NEW i \in Places, Coming(flight[i], part.own)
      PROVE  \E j \in Places : Coming(flight'[j], part.own)
  <2>1. Coming(flight'[i], part.own)
    BY <1>1, <1>3
  <2>. QED
    BY <2>1
<1>. QED
    BY <1>2, <1>3 DEF TabInv, OwnInv, Shows

\* The second factor: the secret of each user stays and an enabled factor had it or
\* was shown it, or it is remembered that it was replaced, or the factor is off and
\* not about to be enabled; no activation is verified but for the secret there is.
LEMMA FactorKeeps ==
    ASSUME TabInv, known \subseteq known', replaced \subseteq replaced',
           \A t \in Tokens : owner[t] # None => owner'[t] = owner[t],
           \A u \in Users :
              \/ u \in replaced'
              \/ ~acct'[u].mfa /\ ~Activating(u)
              \/ /\ acct'[u].secret = acct[u].secret
                 /\ acct'[u].mfa => acct[u].mfa \/ acct[u].secret \in known,
           \A i \in Places : Enabling(flight'[i]) =>
              /\ flight'[i].t \in Tokens /\ owner[flight'[i].t] \in Users
              /\ \/ Enabling(flight[i]) /\ flight'[i].t = flight[i].t /\ flight'[i].x = flight[i].x
                 \/ acct'[owner[flight'[i].t]].secret = flight'[i].x
    PROVE  FactorInv'
<1>1. FactorInv
    BY DEF TabInv
<1>2. SecondFactorKept'
    BY <1>1 DEF FactorInv, SecondFactorKept
<1>3. ASSUME NEW i \in Places, Enabling(flight'[i])
      PROVE  \/ owner'[flight'[i].t] \in replaced'
             \/ acct'[owner'[flight'[i].t]].secret = flight'[i].x
  <2>. DEFINE u == owner[flight'[i].t]
  <2>1. u \in Users /\ owner'[flight'[i].t] = u
    BY <1>3, TabAssumption
  <2>2. CASE Enabling(flight[i]) /\ flight'[i].t = flight[i].t /\ flight'[i].x = flight[i].x
    <3>1. Activating(u)
      BY <2>2 DEF Activating, Passed, Busy, Enabling, Places
    <3>2. u \in replaced \/ acct[u].secret = flight'[i].x
      BY <1>1, <2>2 DEF FactorInv
    <3>. HIDE DEF u
    <3>. QED
      BY <2>1, <3>1, <3>2
  <2>3. CASE acct'[u].secret = flight'[i].x
    BY <2>1, <2>3
  <2>. QED
    BY <1>3, <2>2, <2>3
<1>. QED
    BY <1>2, <1>3 DEF FactorInv

\* A verified activation is of a user.
LEMMA EnablingForm ==
    ASSUME TabInv, NEW i \in Places, Enabling(flight[i])
    PROVE  /\ flight[i].t \in Tokens /\ owner[flight[i].t] \in Users
           /\ flight[i].x \in known
BY DEF TabInv, FlightOK, ServerInv, Proper, Enabling

\* While the accounts stay, what matters is which activations are verified.
LEMMA FactorSame ==
    ASSUME TabInv, acct' = acct, known \subseteq known', replaced' = replaced,
           \A t \in Tokens : owner[t] # None => owner'[t] = owner[t],
           \A i \in Places : Enabling(flight'[i]) =>
              Enabling(flight[i]) /\ flight'[i].t = flight[i].t /\ flight'[i].x = flight[i].x
    PROVE  FactorInv'
BY EnablingForm, FactorKeeps

\* One request changes, and is no verified activation.
LEMMA FactorSlot ==
    ASSUME TabInv, NEW s \in Places, NEW r, flight' = [flight EXCEPT ![s] = r], ~Enabling(r),
           acct' = acct, known \subseteq known', replaced' = replaced,
           \A t \in Tokens : owner[t] # None => owner'[t] = owner[t]
    PROVE  FactorInv'
<1>1. flight \in [Places -> Requests \union {None}]
    BY DEF TabInv, FlightOK
<1>2. \A i \in Places : Enabling(flight'[i]) => flight'[i] = flight[i]
    BY <1>1
<1>. QED
    BY <1>2, FactorSame

-----------------------------------------------------------------------------
(* Requests that are sent *)

\* A request is sent from a free slot.
LEMMA SentKeeps ==
    ASSUME TabInv, NEW s \in Places, NEW r, flight[s] = None, flight' = [flight EXCEPT ![s] = r],
           r # None, ~r.gone, r.state # "passed", Proper(r, owner, keys, secrets, known), Shows(Sender(r.op)),
           UNCHANGED <<server, cookie, tab, known, history>>,
           part' = Kept(part', tab), part'.filter \in Filters,
           part'.own = part.own, part'.keys = part.keys, part'.crossed = part.crossed
    PROVE  TabInv'
<1>1. Grows /\ ServerInv' /\ BrowserInv' /\ PageInv'
    BY DEF TabInv, Grows, ServerInv, BrowserInv, PageInv, server
<1>2. FlightOK(flight, owner, keys, secrets, known)' /\ HereOK(flight, tab)'
    BY <1>1, SlotKeeps DEF Shows, server
<1>3. IdentInv'
    BY <1>1, IdentKeeps DEF server, history
<1>4. OwnInv'
    BY <1>1, OwnKeeps DEF Coming
<1>5. FactorInv'
    BY FactorSlot DEF Enabling, server, history
<1>. QED
    BY <1>1, <1>2, <1>3, <1>4, <1>5 DEF TabInv

\* It is proper.
LEMMA FreshProper ==
    ASSUME TabInv, NEW op \in TabOps, NEW x \in Arguments,
           op \in {"setup", "register", "forgot", "approve", "delete", "reset"} => x \in Users,
           op = "login" => x.user \in Users,
           op = "activate" => x \in known
    PROVE  /\ Proper(Request(op, x, cookie), owner, keys, secrets, known)
           /\ Request(op, x, cookie) # None
           /\ ~Request(op, x, cookie).gone
           /\ Request(op, x, cookie).op = op
           /\ Request(op, x, cookie).state = "sent"
<1>1. cookie \in Tokens \union {None}
    BY DEF TabInv, BrowserInv
<1>. DEFINE r == Request(op, x, cookie)
<1>2. /\ r \in Requests /\ r # None /\ r.op = op /\ r.x = x /\ r.t = cookie
      /\ ~r.gone /\ r.state = "sent"
    BY <1>1, PlainForm
<1>. HIDE DEF r
<1>3. Proper(r, owner, keys, secrets, known)
    BY <1>2 DEF Proper
<1>. QED
    BY <1>2, <1>3 DEF r

\* A click that only sends it.
LEMMA ClickStep ==
    ASSUME TabInv, NEW s \in Places, NEW op \in TabOps, NEW x \in Arguments, Click(s, op, x),
           Shows(Sender(op)),
           op \in {"setup", "register", "forgot", "approve", "delete", "reset"} => x \in Users,
           op = "login" => x.user \in Users,
           op = "activate" => x \in known
    PROVE  TabInv'
<1>. DEFINE r == Request(op, x, cookie)
<1>1. /\ Proper(r, owner, keys, secrets, known) /\ r # None /\ ~r.gone /\ r.op = op
      /\ r.state = "sent"
    BY FreshProper
<1>2. flight[s] = None /\ flight' = [flight EXCEPT ![s] = r]
    BY DEF Click, Send, Free, Busy
<1>. HIDE DEF r
<1>3. UNCHANGED <<server, cookie, tab, known, history>> /\ part' = part
    BY DEF Click
<1>4. part' = Kept(part', tab) /\ part'.filter \in Filters
    BY <1>3 DEF TabInv, PageInv
<1>. QED
    BY <1>1, <1>2, <1>3, <1>4, SentKeeps

\* Everything a person does keeps the invariant.
LEMMA PersonStep ==
    ASSUME TabInv, NEW s \in Slots, Person(s)
    PROVE  TabInv'
<1>1. s \in Places
    BY DEF Places
<1>2. \A y \in Users \union {None} \union Nat : y \in Arguments
    BY DEF Arguments
<1>3. known \subseteq Nat
    BY DEF TabInv, BrowserInv, ServerInv
<1>4. CASE SignIn(s)
  <2>1. PICK u \in Users, code \in known \union {0} : Click(s, "login", [user |-> u, code |-> code])
    BY <1>4 DEF SignIn
  <2>. DEFINE x == [user |-> u, code |-> code]
  <2>2. x \in Arguments /\ x.user \in Users
    <3>1. code \in Nat
      BY <1>3
    <3>2. x \in [user : Users, code : Nat]
      BY <3>1
    <3>. QED
      BY <3>2 DEF Arguments
  <2>3. Click(s, "login", x)
    BY <2>1
  <2>. HIDE DEF x
  <2>4. Shows(Sender("login"))
    BY <1>4 DEF SignIn, Sender
  <2>. QED
    BY <1>1, <2>2, <2>3, <2>4, ClickStep DEF TabOps
<1>5. CASE SetUp(s)
  <2>1. PICK u \in Users : Click(s, "setup", u)
    BY <1>5, TabAssumption DEF SetUp
  <2>2. Shows(Sender("setup"))
    BY <1>5 DEF SetUp, Sender
  <2>. QED
    BY <1>1, <1>2, <2>1, <2>2, ClickStep DEF TabOps
<1>6. CASE RegisterOrForget(s)
  <2>1. PICK u \in Users, op \in {"register", "forgot"} : Send(s, op, u)
    BY <1>6 DEF RegisterOrForget
  <2>. DEFINE r == Request(op, u, cookie)
  <2>2. /\ Proper(r, owner, keys, secrets, known) /\ r # None /\ ~r.gone /\ r.op = op
        /\ r.state = "sent"
    BY <1>2, FreshProper DEF TabOps
  <2>3. flight[s] = None /\ flight' = [flight EXCEPT ![s] = r]
    BY <2>1 DEF Send, Free, Busy
  <2>. HIDE DEF r
  <2>4. Shows(Sender(r.op)) /\ Shows("gate")
    BY <1>6, <2>2 DEF RegisterOrForget, Sender
  <2>5. UNCHANGED <<server, cookie, tab, known, history>> /\ part' = [part EXCEPT !.otp = FALSE]
    BY <1>6 DEF RegisterOrForget
  <2>6. /\ part' = Kept(part', tab) /\ part'.filter \in Filters
        /\ part'.own = part.own /\ part'.keys = part.keys /\ part'.crossed = part.crossed
    <3>1. part = Kept(part, tab) /\ part.filter \in Filters
      BY DEF TabInv, PageInv
    <3>. QED
      BY <2>5, <3>1, KeptOtp
  <2>. QED
    BY <1>1, <2>2, <2>3, <2>4, <2>5, <2>6, SentKeeps
<1>7. CASE SetNewPassword(s)
  <2>1. Shows(Sender("force"))
    BY <1>7 DEF SetNewPassword, Sender
  <2>. QED
    BY <1>1, <1>2, <1>7, <2>1, ClickStep DEF TabOps, SetNewPassword
<1>8. CASE SignOut(s)
  <2>1. Shows(Sender("logout"))
    BY DEF Shows, Mounted, Sender
  <2>. QED
    BY <1>1, <1>2, <1>8, <2>1, ClickStep DEF TabOps, SignOut
<1>9. CASE ChangeList(s)
  <2>1. Shows(Sender("change"))
    BY <1>9 DEF ChangeList, Sender
  <2>. QED
    BY <1>1, <1>2, <1>9, <2>1, ClickStep DEF TabOps, ChangeList
<1>10. CASE StartEnroll(s)
  <2>1. Shows(Sender("enroll"))
    BY <1>10 DEF StartEnroll, Sender
  <2>. QED
    BY <1>1, <1>2, <1>10, <2>1, ClickStep DEF TabOps, StartEnroll
<1>11. CASE Confirm(s)
  <2>1. PICK code \in known : Click(s, "activate", code)
    BY <1>11 DEF Confirm
  <2>2. Shows(Sender("activate"))
    BY <1>11 DEF Confirm, Sender
  <2>. QED
    BY <1>1, <1>2, <1>3, <2>1, <2>2, ClickStep DEF TabOps
<1>12. CASE ChangePassword(s)
  <2>1. Shows(Sender("password"))
    BY <1>12 DEF ChangePassword, Sender
  <2>. QED
    BY <1>1, <1>2, <1>12, <2>1, ClickStep DEF TabOps, ChangePassword
<1>13. CASE Decide(s)
  <2>1. PICK u \in Users : Click(s, "approve", u) \/ Click(s, "delete", u) \/ Click(s, "reset", u)
    BY <1>13 DEF Decide
  <2>2. Shows(Sender("approve")) /\ Shows(Sender("delete")) /\ Shows(Sender("reset"))
    BY <1>13 DEF Decide, Sender
  <2>. QED
    BY <1>1, <1>2, <2>1, <2>2, ClickStep DEF TabOps
<1>14. CASE SetFilter(s)
  <2>1. PICK x \in Filters : part' = [part EXCEPT !.filter = x] /\ Send(s, "history", x)
    BY <1>14 DEF SetFilter
  <2>. DEFINE r == Request("history", x, cookie)
  <2>2. /\ Proper(r, owner, keys, secrets, known) /\ r # None /\ ~r.gone /\ r.op = "history"
        /\ r.state = "sent"
    <3>1. x \in Arguments /\ "history" \in TabOps
      BY DEF TabOps, Arguments
    <3>. QED
      BY <3>1, FreshProper
  <2>3. flight[s] = None /\ flight' = [flight EXCEPT ![s] = r]
    BY <2>1 DEF Send, Free, Busy
  <2>. HIDE DEF r
  <2>4. Shows(Sender(r.op)) /\ Mounted("monitor", tab)
    BY <1>14, <2>2 DEF SetFilter, Sender, Shows
  <2>5. UNCHANGED <<server, cookie, tab, known, history>>
    BY <1>14 DEF SetFilter
  <2>6. /\ part' = Kept(part', tab) /\ part'.filter \in Filters
        /\ part'.own = part.own /\ part'.keys = part.keys /\ part'.crossed = part.crossed
    <3>1. part = Kept(part, tab)
      BY DEF TabInv, PageInv
    <3>. QED
      BY <2>1, <2>4, <3>1 DEF Kept
  <2>. QED
    BY <1>1, <2>2, <2>3, <2>4, <2>5, <2>6, SentKeeps
<1>. QED
    BY <1>4, <1>5, <1>6, <1>7, <1>8, <1>9, <1>10, <1>11, <1>12, <1>13, <1>14 DEF Person

\* What a handler that only reads answers.
LEMMA ReadProper ==
    ASSUME TabInv, NEW r, Proper(r, owner, keys, secrets, known), r.op \in Reads, r.state = "sent",
           Permitted(r), NEW v \in Readings(r)
    PROVE  v \in Answers
           /\ Proper([r EXCEPT !.state = "ok", !.ans = v], owner, keys, secrets, known)
<1>1. r \in Requests /\ r.t \in Tokens \union {None}
    BY DEF Proper, Requests
<1>2. /\ acct \in [Users -> Kinds] /\ owner \in [Tokens -> Users \union {None}] /\ keys \in Nat
      /\ \A t \in live : t \in Tokens /\ owner[t] # None
    BY DEF TabInv, ServerInv
<1>3. /\ r.op = "me" => v \in Me /\ r.t \in Tokens /\ owner[r.t] = v.user
      /\ r.op = "keys" => v \in 0 .. keys
      /\ v \in Answers
  <2>1. CASE r.op = "me"
    <3>1. r.t \in live /\ Caller(r.t) = owner[r.t]
      BY <2>1 DEF Permitted, Caller
    <3>2. owner[r.t] \in Users
      BY <1>2, <3>1
    <3>3. v = [user |-> owner[r.t], must |-> acct[owner[r.t]].must, mfa |-> acct[owner[r.t]].mfa]
      BY <2>1, <3>1 DEF Readings
    <3>4. v \in Me
      BY <1>2, <3>2, <3>3 DEF Me, Kinds
    <3>. QED
      BY <1>2, <2>1, <3>1, <3>3, <3>4 DEF Answers
  <2>2. CASE r.op = "needs"
    BY <2>2 DEF Readings, Answers, AdminExists
  <2>3. CASE r.op = "keys"
    BY <1>2, <2>3 DEF Readings, Answers
  <2>4. CASE r.op = "users"
    BY <2>4 DEF Readings, Answers, Listed
  <2>5. CASE r.op \in {"history", "live"}
    BY <2>5 DEF Readings, Answers, HistoryAnswers, LiveAnswers
  <2>. QED
    BY <2>1, <2>2, <2>3, <2>4, <2>5 DEF Reads
<1>. DEFINE q == [r EXCEPT !.state = "ok", !.ans = v]
<1>4. q \in Requests /\ q.op = r.op /\ q.x = r.x /\ q.t = r.t /\ q.state = "ok" /\ q.ans = v
    BY <1>1, <1>3, AnswerForm
<1>. HIDE DEF q
<1>5. Proper(q, owner, keys, secrets, known)
    BY <1>3, <1>4 DEF Proper, Reads
<1>. QED
    BY <1>3, <1>5 DEF q

\* The two fields of an answer are set at once.
LEMMA AnswerSlot ==
    ASSUME NEW f \in [Places -> Requests \union {None}], NEW s \in Places, f[s] # None, NEW v
    PROVE  [f EXCEPT ![s].state = "ok", ![s].ans = v] =
           [f EXCEPT ![s] = [f[s] EXCEPT !.state = "ok", !.ans = v]]
<1>. DEFINE h == [f EXCEPT ![s].state = "ok"]
<1>. DEFINE r == [f[s] EXCEPT !.state = "ok"]
<1>1. h = [f EXCEPT ![s] = r]
    OBVIOUS
<1>2. [h EXCEPT ![s].ans = v] = [f EXCEPT ![s] = [r EXCEPT !.ans = v]]
  <2>. HIDE DEF h, r
  <2>1. h[s] = r /\ DOMAIN h = Places
    BY <1>1
  <2>. QED
    BY <1>1, <2>1
<1>. QED
    BY <1>2

-----------------------------------------------------------------------------
(* Polls and the handlers of the service *)

\* A poll that is answered at once.
LEMMA PollStep ==
    ASSUME TabInv, NEW op \in {"history", "users"}, NEW x \in Arguments, Poll(op, x), Shows(Sender(op))
    PROVE  TabInv'
<1>. DEFINE r == Request(op, x, cookie)
<1>1. Proper(r, owner, keys, secrets, known) /\ r # None /\ ~r.gone /\ r.op = op /\ r.state = "sent"
    BY FreshProper DEF TabOps, Request
<1>. HIDE DEF r
<1>2. PICK v \in Readings(r) : flight' = [flight EXCEPT ![Timer] = [r EXCEPT !.state = "ok", !.ans = v]]
    BY DEF Poll, r
<1>3. Permitted(r) /\ flight[Timer] = None /\ UNCHANGED <<server, cookie, tab, part, known, history>>
    BY DEF Poll, r, Busy
<1>. DEFINE q == [r EXCEPT !.state = "ok", !.ans = v]
<1>4. v \in Answers /\ Proper(q, owner, keys, secrets, known)
    BY <1>1, <1>3, ReadProper DEF Reads
<1>5. q # None /\ ~q.gone /\ q.op = op /\ q.state = "ok"
    BY <1>1, <1>4, AnswerForm DEF Proper
<1>. HIDE DEF q
<1>6. Timer \in Places /\ flight' = [flight EXCEPT ![Timer] = q]
    BY <1>2 DEF Places, q
<1>7. part = Kept(part, tab) /\ part.filter \in Filters
    BY DEF TabInv, PageInv
<1>. QED
    BY <1>3, <1>4, <1>5, <1>6, <1>7, SentKeeps

\* A handler of the service, which leaves the tab alone.
LEMMA ServedKeeps ==
    ASSUME TabInv, NEW s \in Places, NEW q, flight' = [flight EXCEPT ![s] = q], flight[s] # None,
           q # None, q.op = flight[s].op, q.gone = flight[s].gone,
           q.op = "keys" /\ q.state = "ok" => q.ans = keys,
           Proper(q, owner', keys', secrets', known'), ServerInv', Grows,
           UNCHANGED <<cookie, tab, part, known, astray>>, FactorInv'
    PROVE  TabInv'
<1>1. BrowserInv'
  <2>1. cookie' # None => owner'[cookie'] # None
    BY DEF TabInv, BrowserInv, ServerInv, Grows
  <2>2. known' \subseteq 1 .. secrets'
    BY DEF TabInv, BrowserInv, ServerInv, Grows
  <2>. QED
    BY <2>1, <2>2 DEF TabInv, BrowserInv
<1>2. PageInv'
    BY DEF TabInv, PageInv
<1>3. ~q.gone => Mounted(Sender(q.op), tab')
    BY DEF TabInv, HereOK
<1>4. FlightOK(flight, owner, keys, secrets, known)' /\ HereOK(flight, tab)'
    BY <1>3, SlotKeeps
<1>5. IdentInv'
    BY IdentKeeps
<1>6. Coming(flight[s], part.own) => Coming(q, part.own)
  <2>1. part.own =< keys /\ part.own \in Nat /\ keys \in Nat
    BY DEF TabInv, OwnInv, PageInv, ServerInv
  <2>. QED
    BY <2>1 DEF Coming
<1>7. OwnInv'
    BY <1>6, OwnKeeps
<1>. QED
    BY <1>1, <1>2, <1>4, <1>5, <1>7 DEF TabInv

\* The slot after an answer.
LEMMA AnswerKeeps ==
    ASSUME TabInv, NEW s \in Places, flight[s] # None, NEW v \in Answers, Answer(s, v)
    PROVE  \E q : /\ flight' = [flight EXCEPT ![s] = q] /\ q \in Requests /\ q # None
                  /\ q.op = flight[s].op /\ q.x = flight[s].x /\ q.t = flight[s].t
                  /\ q.gone = flight[s].gone /\ q.state = "ok" /\ q.ans = v
<1>. DEFINE q == [flight[s] EXCEPT !.state = "ok", !.ans = v]
<1>1. flight \in [Places -> Requests \union {None}] /\ flight[s] \in Requests
    BY DEF TabInv, FlightOK
<1>2. flight' = [flight EXCEPT ![s] = q]
    BY <1>1, AnswerSlot DEF Answer
<1>3. /\ q \in Requests /\ q # None
      /\ q.op = flight[s].op /\ q.x = flight[s].x /\ q.t = flight[s].t
      /\ q.gone = flight[s].gone /\ q.state = "ok" /\ q.ans = v
    BY <1>1, AnswerForm
<1>. HIDE DEF q
<1>. QED
    BY <1>2, <1>3

\* The row of a user after a change of his account, and after his removal.
LEMMA ChangedRow ==
    ASSUME acct \in [Users -> Kinds], NEW u \in Users,
           NEW op \in {"setup", "register", "forgot", "force", "password", "approve", "reset"}
    PROVE  /\ Changed(op, u) \in Kinds
           /\ op \in {"setup", "register"} => ~Changed(op, u).mfa /\ Changed(op, u).status # "none"
           /\ op \notin {"setup", "register"} =>
                /\ Changed(op, u).mfa = acct[u].mfa /\ Changed(op, u).secret = acct[u].secret
                /\ Changed(op, u).status = "none" => acct[u].status = "none"
<1>. DEFINE a == acct[u]
<1>1. a \in Kinds
    OBVIOUS
<1>2. /\ a.status \in {"none", "pending", "active"} /\ a.must \in BOOLEAN /\ a.reset \in BOOLEAN
      /\ a.secret \in 0 .. MaxSecrets /\ a.mfa \in BOOLEAN /\ 0 \in 0 .. MaxSecrets
    BY <1>1, TabAssumption DEF Kinds
<1>3. CASE op \in {"setup", "register"}
  <2>1. \E st \in {"active", "pending"} :
           Changed(op, u) = [status |-> st, must |-> FALSE, reset |-> FALSE, secret |-> 0, mfa |-> FALSE]
    BY <1>3 DEF Changed, Account, NoAccount
  <2>2. /\ Changed(op, u) \in Kinds
        /\ ~Changed(op, u).mfa /\ Changed(op, u).status # "none"
    BY <1>2, <2>1 DEF Kinds
  <2>. QED
    BY <1>3, <2>2
<1>4. CASE op = "forgot"
  <2>1. Changed(op, u) = [a EXCEPT !.reset = TRUE] \/ Changed(op, u) = a
    BY <1>4 DEF Changed
  <2>. HIDE DEF a
  <2>. QED
    BY <1>1, <1>4, <2>1 DEF Kinds, a
<1>5. CASE op \in {"force", "password"}
  <2>. DEFINE b == [a EXCEPT !.must = FALSE]
  <2>1. b \in Kinds /\ b.status = a.status /\ b.secret = a.secret /\ b.mfa = a.mfa
    <3>. HIDE DEF a
    <3>. QED
      BY <1>1 DEF Kinds
  <2>2. Changed(op, u) = [b EXCEPT !.reset = FALSE]
    BY <1>5 DEF Changed
  <2>. HIDE DEF b
  <2>3. Changed(op, u) \in Kinds /\ Changed(op, u).status = a.status
        /\ Changed(op, u).secret = a.secret /\ Changed(op, u).mfa = a.mfa
    BY <2>1, <2>2 DEF Kinds
  <2>. QED
    BY <1>5, <2>3
<1>7. CASE op = "approve"
  <2>1. Changed(op, u) = [a EXCEPT !.status = "active"]
    BY <1>7 DEF Changed
  <2>. HIDE DEF a
  <2>. QED
    BY <1>1, <1>7, <2>1 DEF Kinds, a
<1>8. CASE op = "reset"
  <2>. DEFINE b == [a EXCEPT !.must = TRUE]
  <2>1. b \in Kinds /\ b.status = a.status /\ b.secret = a.secret /\ b.mfa = a.mfa
    <3>. HIDE DEF a
    <3>. QED
      BY <1>1 DEF Kinds
  <2>2. Changed(op, u) = [b EXCEPT !.reset = FALSE]
    BY <1>8 DEF Changed
  <2>. HIDE DEF b
  <2>3. Changed(op, u) \in Kinds /\ Changed(op, u).status = a.status
        /\ Changed(op, u).secret = a.secret /\ Changed(op, u).mfa = a.mfa
    BY <2>1, <2>2 DEF Kinds
  <2>. QED
    BY <1>8, <2>3
<1>. QED
    BY <1>3, <1>4, <1>5, <1>7, <1>8

\* A change of the account of u, of which op tells what is looked at before.
LEMMA ChangedKeeps ==
    ASSUME TabInv, NEW u \in Users,
           NEW op \in {"setup", "register", "forgot", "force", "password", "approve", "reset"},
           op \in {"setup", "register"} => acct[u].status = "none",
           acct' = [acct EXCEPT ![u] = Changed(op, u)], UNCHANGED <<owner, known, replaced>>,
           \A i \in Places : Enabling(flight'[i]) => flight'[i] = flight[i]
    PROVE  /\ acct' \in [Users -> Kinds]
           /\ \A v \in Users : acct'[v].status = "none" => acct'[v].secret = 0
           /\ FactorInv'
<1>1. /\ acct \in [Users -> Kinds] /\ known \subseteq 1 .. secrets
      /\ \A v \in Users : acct[v].status = "none" => acct[v].secret = 0
      /\ FactorInv
    BY DEF TabInv, ServerInv, BrowserInv
<1>. DEFINE new == Changed(op, u)
<1>2. /\ new \in Kinds
      /\ op \in {"setup", "register"} => ~new.mfa /\ new.status # "none"
      /\ op \notin {"setup", "register"} =>
            /\ new.mfa = acct[u].mfa /\ new.secret = acct[u].secret
            /\ new.status = "none" => acct[u].status = "none"
    BY <1>1, ChangedRow
<1>. HIDE DEF new
<1>3. acct' = [acct EXCEPT ![u] = new]
    BY DEF new
<1>4. op \in {"setup", "register"} => u \in replaced \/ ~Activating(u)
  <2>1. SUFFICES ASSUME acct[u].secret = 0, Activating(u)
                 PROVE  u \in replaced
    BY <1>1
  <2>2. PICK i \in Places : Enabling(flight[i]) /\ owner[flight[i].t] = u
    BY <2>1 DEF Activating, Passed, Busy, Enabling, Places
  <2>3. flight[i].x \in 1 .. secrets
    BY <1>1, <2>2, EnablingForm
  <2>4. flight[i].x # 0
    BY <2>3
  <2>. QED
    BY <1>1, <2>1, <2>2, <2>4 DEF FactorInv
<1>5. \A v \in Users :
         \/ v \in replaced'
         \/ ~acct'[v].mfa /\ ~Activating(v)
         \/ acct'[v].secret = acct[v].secret /\ (acct'[v].mfa => acct[v].mfa)
    BY <1>1, <1>2, <1>3, <1>4
<1>6. FactorInv'
    BY <1>5, EnablingForm, FactorKeeps
<1>. QED
    BY <1>1, <1>2, <1>3, <1>6

LEMMA RemovedKeeps ==
    ASSUME TabInv, NEW u, Removed(u), UNCHANGED <<owner, known>>,
           \A i \in Places : Enabling(flight'[i]) => flight'[i] = flight[i]
    PROVE  /\ acct' \in [Users -> Kinds] /\ live' \subseteq live
           /\ \A v \in Users : acct'[v].status = "none" => acct'[v].secret = 0
           /\ FactorInv'
<1>1. /\ acct \in [Users -> Kinds]
      /\ \A v \in Users : acct[v].status = "none" => acct[v].secret = 0
    BY DEF TabInv, ServerInv
<1>2. NoAccount \in Kinds /\ ~NoAccount.mfa /\ NoAccount.secret = 0
  <2>1. 0 \in 0 .. MaxSecrets
    BY TabAssumption
  <2>. QED
    BY <2>1 DEF NoAccount, Kinds
<1>3. /\ acct' = [acct EXCEPT ![u] = NoAccount] /\ live' \subseteq live
      /\ replaced' = replaced \union {v \in {u} : Activating(v)}
    BY DEF Removed
<1>4. \A v \in Users :
         \/ v \in replaced'
         \/ ~acct'[v].mfa /\ ~Activating(v)
         \/ acct'[v].secret = acct[v].secret /\ (acct'[v].mfa => acct[v].mfa)
    BY <1>1, <1>2, <1>3
<1>5. FactorInv'
    BY <1>3, <1>4, EnablingForm, FactorKeeps
<1>. QED
    BY <1>1, <1>2, <1>3, <1>5

\* Every handler keeps the invariant.
LEMMA ServeStep ==
    ASSUME TabInv, NEW s \in Places, Serve(s)
    PROVE  TabInv'
<1>. DEFINE r == flight[s]
<1>1. UNCHANGED <<cookie, tab, part, known, clicks>>
    BY DEF Serve
<1>2. r # None /\ Proper(r, owner, keys, secrets, known) /\ r \in Requests
  <2>1. r # None
    BY DEF Serve, WantsCode, ServeRead, ServeCheck, ServeLogin, ServeLogout, ServeAccount,
           ServeDelete, ServeEnroll, ServeActivate, ServeChange, Served, Sent, Passed, Busy
  <2>. QED
    BY <2>1 DEF TabInv, FlightOK, Proper
<1>3. /\ acct \in [Users -> Kinds] /\ owner \in [Tokens -> Users \union {None}]
      /\ \A t \in live : t \in Tokens /\ owner[t] # None
      /\ \A u \in Users : acct[u].status = "none" => acct[u].secret = 0
      /\ keys \in Nat /\ secrets \in 0 .. MaxSecrets /\ MaxSecrets \in Nat
    BY TabAssumption DEF TabInv, ServerInv
<1>4. \A t \in live : owner[t] \in Users
    BY <1>3
<1>5. \A u \in Users : u # None
    BY TabAssumption
<1>6. flight \in [Places -> Requests \union {None}]
    BY DEF TabInv, FlightOK
<1>7. None \in Answers /\ Tokens \subseteq Answers /\ Nat \subseteq Answers
    BY DEF Answers
<1>. HIDE DEF r
<1>8. CASE WantsCode(s)
  <2>. DEFINE q == [r EXCEPT !.state = "code"]
  <2>1. flight' = [flight EXCEPT ![s] = q] /\ UNCHANGED <<server, history>> /\ r.op = "login"
    <3>1. flight \in [Places -> Requests \union {None}]
      BY DEF TabInv, FlightOK
    <3>. QED
      BY <1>8, <3>1 DEF WantsCode, Sent, r
  <2>2. q \in Requests /\ q # None /\ q.op = r.op /\ q.x = r.x /\ q.gone = r.gone /\ q.state = "code"
    BY <1>2, NoneAssumption DEF Requests
  <2>3. Proper(q, owner, keys, secrets, known)
    BY <1>2, <2>1, <2>2 DEF Proper
  <2>4. ServerInv' /\ Grows
    BY <1>1, <1>3, <2>1 DEF TabInv, ServerInv, Grows, server
  <2>5. FactorInv'
    BY <1>1, <2>1, <2>2, FactorSlot DEF Enabling, server, history
  <2>. HIDE DEF q
  <2>. QED
    BY <1>1, <1>2, <2>1, <2>2, <2>3, <2>4, <2>5, ServedKeeps DEF r, server, history
<1>9. CASE ServeRead(s)
  <2>1. PICK v \in Readings(r) : Answer(s, v)
    BY <1>9 DEF ServeRead, r
  <2>2. r.op \in Reads /\ r.state = "sent" /\ Permitted(r) /\ UNCHANGED <<server, history>>
    BY <1>9 DEF ServeRead, Served, Sent, r
  <2>3. v \in Answers /\ Proper([r EXCEPT !.state = "ok", !.ans = v], owner, keys, secrets, known)
    BY <1>2, <2>2, ReadProper
  <2>. DEFINE q == [r EXCEPT !.state = "ok", !.ans = v]
  <2>4. /\ q # None /\ q.op = r.op /\ q.gone = r.gone /\ q.ans = v /\ q.state = "ok"
    BY <1>2, <2>3, AnswerForm
  <2>5. flight' = [flight EXCEPT ![s] = q]
    <3>1. flight \in [Places -> Requests \union {None}]
      BY DEF TabInv, FlightOK
    <3>. QED
      BY <1>2, <2>1, <3>1, AnswerSlot DEF Answer, r
  <2>6. r.op = "keys" => v = keys
    BY DEF Readings
  <2>7. ServerInv' /\ Grows
    BY <1>1, <1>3, <2>2 DEF TabInv, ServerInv, Grows, server
  <2>8. FactorInv'
    BY <1>1, <2>2, <2>4, <2>5, FactorSlot DEF Enabling, server, history
  <2>. HIDE DEF q
  <2>9. Proper(q, owner, keys, secrets, known)
    BY <2>3 DEF q
  <2>. QED
    BY <1>1, <1>2, <2>2, <2>4, <2>5, <2>6, <2>7, <2>8, <2>9, ServedKeeps DEF r, server, history
<1>10. CASE ServeLogin(s)
  <2>1. PICK t \in Tokens : /\ owner[t] = None /\ owner' = [owner EXCEPT ![t] = r.x.user]
                            /\ live' = live \union {t} /\ Answer(s, t)
    BY <1>10 DEF ServeLogin, r
  <2>2. r.op = "login" /\ UNCHANGED <<acct, keys, secrets, history>>
    BY <1>10 DEF ServeLogin, Passed, r
  <2>3. PICK q : /\ flight' = [flight EXCEPT ![s] = q] /\ q \in Requests /\ q # None
                 /\ q.op = r.op /\ q.x = r.x /\ q.t = r.t
                 /\ q.gone = r.gone /\ q.state = "ok" /\ q.ans = t
    BY <1>2, <1>7, <2>1, AnswerKeeps DEF r
  <2>4. r.x.user \in Users
    BY <1>2, <2>2 DEF Proper
  <2>5. ServerInv' /\ Grows
    BY <1>1, <1>3, <1>5, <2>1, <2>2, <2>4 DEF ServerInv, Grows
  <2>6. Proper(q, owner', keys', secrets', known')
    BY <1>3, <1>5, <2>1, <2>2, <2>3, <2>4 DEF Proper
  <2>7. FactorInv'
    BY <1>1, <2>2, <2>3, <2>5, FactorSlot DEF Enabling, Grows, history
  <2>. QED
    BY <1>1, <1>2, <2>2, <2>3, <2>5, <2>6, <2>7, ServedKeeps DEF r, history
<1>11. CASE ServeLogout(s)
  <2>1. /\ r.op = "logout" /\ live' = live \ {r.t} /\ Answer(s, None)
        /\ UNCHANGED <<acct, owner, keys, secrets, history>>
    BY <1>11 DEF ServeLogout, Served, Sent, r
  <2>2. PICK q : /\ flight' = [flight EXCEPT ![s] = q] /\ q \in Requests /\ q # None
                 /\ q.op = r.op /\ q.x = r.x /\ q.t = r.t
                 /\ q.gone = r.gone /\ q.state = "ok" /\ q.ans = None
    BY <1>2, <1>7, <2>1, AnswerKeeps DEF r
  <2>3. ServerInv' /\ Grows
    BY <1>1, <1>3, <2>1 DEF ServerInv, Grows
  <2>4. Proper(q, owner', keys', secrets', known')
    BY <2>1, <2>2 DEF Proper
  <2>5. FactorInv'
    BY <1>1, <2>1, <2>2, FactorSlot DEF Enabling, history
  <2>. QED
    BY <1>1, <1>2, <2>1, <2>2, <2>3, <2>4, <2>5, ServedKeeps DEF r, history
<1>12. CASE ServeAccount(s)
  <2>. DEFINE u == IF r.op \in {"force", "password"} THEN Caller(r.t) ELSE r.x
  <2>1. /\ r.op \in {"setup", "register", "forgot", "force", "password", "approve", "reset"}
        /\ Permitted(r)
        /\ acct' = [acct EXCEPT ![u] = Changed(r.op, u)]
        /\ Answer(s, None)
        /\ UNCHANGED <<owner, live, keys, secrets, history>>
    BY <1>12 DEF ServeAccount, Served, Sent, r
  <2>2. PICK q : /\ flight' = [flight EXCEPT ![s] = q] /\ q \in Requests /\ q # None
                 /\ q.op = r.op /\ q.x = r.x /\ q.t = r.t
                 /\ q.gone = r.gone /\ q.state = "ok" /\ q.ans = None
    BY <1>2, <1>7, <2>1, AnswerKeeps DEF r
  <2>3. u \in Users
    <3>1. CASE r.op \in {"force", "password"}
      <4>1. Caller(r.t) # None
        BY <2>1, <3>1 DEF Permitted, Full
      <4>. QED
        BY <1>4, <3>1, <4>1 DEF Caller
    <3>2. CASE r.op \notin {"force", "password"}
      BY <1>2, <2>1, <3>2 DEF Proper
    <3>. QED
      BY <3>1, <3>2
  <2>4. r.op \in {"setup", "register"} => acct[u].status = "none"
    <3>1. CASE r.op = "setup"
      BY <2>1, <2>3, <3>1 DEF Permitted, Has
    <3>2. CASE r.op = "register"
      BY <2>1, <3>2 DEF Permitted, Has
    <3>. QED
      BY <3>1, <3>2
  <2>. HIDE DEF u
  <2>5. \A i \in Places : Enabling(flight'[i]) => flight'[i] = flight[i]
    BY <1>6, <2>2 DEF Enabling
  <2>6. /\ acct' \in [Users -> Kinds]
        /\ \A v \in Users : acct'[v].status = "none" => acct'[v].secret = 0
        /\ FactorInv'
    <3>1. UNCHANGED <<owner, known, replaced>>
      BY <1>1, <2>1 DEF history
    <3>. QED
      BY <2>1, <2>3, <2>4, <2>5, <3>1, ChangedKeeps
  <2>7. ServerInv' /\ Grows
    BY <1>1, <1>3, <2>1, <2>6 DEF ServerInv, Grows
  <2>8. Proper(q, owner', keys', secrets', known')
    BY <1>2, <2>1, <2>2, <1>1 DEF Proper
  <2>. QED
    BY <1>1, <1>2, <2>1, <2>2, <2>6, <2>7, <2>8, ServedKeeps DEF r, history
<1>13. CASE ServeDelete(s)
  <2>1. /\ r.op = "delete" /\ Removed(r.x) /\ Answer(s, None)
        /\ UNCHANGED <<owner, keys, secrets, astray>>
    BY <1>13 DEF ServeDelete, Served, Sent, r
  <2>2. PICK q : /\ flight' = [flight EXCEPT ![s] = q] /\ q \in Requests /\ q # None
                 /\ q.op = r.op /\ q.x = r.x /\ q.t = r.t
                 /\ q.gone = r.gone /\ q.state = "ok" /\ q.ans = None
    BY <1>2, <1>7, <2>1, AnswerKeeps DEF r
  <2>6. \A i \in Places : Enabling(flight'[i]) => flight'[i] = flight[i]
    BY <1>6, <2>2 DEF Enabling
  <2>3. ServerInv' /\ FactorInv'
    <3>1. /\ acct' \in [Users -> Kinds] /\ live' \subseteq live
          /\ \A v \in Users : acct'[v].status = "none" => acct'[v].secret = 0
          /\ FactorInv'
      BY <1>1, <2>1, <2>6, RemovedKeeps
    <3>. QED
      BY <1>3, <2>1, <3>1 DEF ServerInv
  <2>4. Grows
    BY <1>1, <1>3, <2>1 DEF Grows
  <2>5. Proper(q, owner', keys', secrets', known')
    BY <1>2, <2>1, <2>2 DEF Proper
  <2>. QED
    BY <1>1, <1>2, <2>1, <2>2, <2>3, <2>4, <2>5, ServedKeeps DEF r
<1>14. CASE ServeEnroll(s)
  <2>. DEFINE u == Caller(r.t)
  <2>1. /\ r.op = "enroll" /\ u # None /\ secrets < MaxSecrets /\ secrets' = secrets + 1
        /\ acct' = IF acct[u].status = "none" THEN acct
                    ELSE [acct EXCEPT ![u].secret = secrets + 1]
        /\ Answer(s, secrets + 1)
        /\ replaced' = replaced \union {v \in {u} : acct[v].mfa \/ Activating(v)}
        /\ UNCHANGED <<owner, live, keys, astray>>
    BY <1>14 DEF ServeEnroll, Served, Sent, Permitted, Full, Enrolled, Has, r
  <2>2. u \in Users
    BY <1>4, <2>1 DEF Caller
  <2>. HIDE DEF u
  <2>3. secrets + 1 \in Nat /\ secrets + 1 \in 0 .. MaxSecrets
    BY <1>3, <2>1
  <2>4. PICK q : /\ flight' = [flight EXCEPT ![s] = q] /\ q \in Requests /\ q # None
                 /\ q.op = r.op /\ q.x = r.x /\ q.t = r.t
                 /\ q.gone = r.gone /\ q.state = "ok" /\ q.ans = secrets + 1
    BY <1>2, <1>7, <2>1, <2>3, AnswerKeeps DEF r
  <2>5. ServerInv' /\ Grows
    <3>1. acct' \in [Users -> Kinds]
      BY <1>3, <2>1, <2>2, <2>3 DEF Kinds
    <3>2. \A v \in Users : acct'[v].status = "none" => acct'[v].secret = 0
      BY <1>3, <2>1, <2>2 DEF Kinds
    <3>. QED
      BY <1>1, <1>3, <2>1, <2>3, <3>1, <3>2 DEF ServerInv, Grows
  <2>6. Proper(q, owner', keys', secrets', known')
    BY <1>2, <1>3, <2>1, <2>3, <2>4 DEF Proper
  <2>7. FactorInv'
    <3>1. \A i \in Places : Enabling(flight'[i]) => flight'[i] = flight[i]
      BY <1>6, <2>1, <2>4 DEF Enabling
    <3>2. \A v \in Users :
             \/ v \in replaced'
             \/ ~acct'[v].mfa /\ ~Activating(v)
             \/ acct'[v].secret = acct[v].secret /\ (acct'[v].mfa => acct[v].mfa)
      BY <1>3, <2>1, <2>2 DEF Kinds
    <3>3. UNCHANGED <<owner, known>> /\ replaced \subseteq replaced'
      BY <1>1, <2>1
    <3>. QED
      BY <3>1, <3>2, <3>3, EnablingForm, FactorKeeps
  <2>. QED
    BY <1>1, <1>2, <2>1, <2>4, <2>5, <2>6, <2>7, ServedKeeps DEF r
<1>15. CASE ServeChange(s)
  <2>1. /\ r.op = "change" /\ keys' = keys + 1 /\ Answer(s, keys + 1)
        /\ UNCHANGED <<acct, owner, live, secrets, history>>
    BY <1>15 DEF ServeChange, Served, Sent, r
  <2>2. keys + 1 \in Nat
    BY <1>3
  <2>3. PICK q : /\ flight' = [flight EXCEPT ![s] = q] /\ q \in Requests /\ q # None
                 /\ q.op = r.op /\ q.x = r.x /\ q.t = r.t
                 /\ q.gone = r.gone /\ q.state = "ok" /\ q.ans = keys + 1
    BY <1>2, <1>7, <2>1, <2>2, AnswerKeeps DEF r
  <2>4. ServerInv' /\ Grows
    BY <1>1, <1>3, <2>1 DEF ServerInv, Grows
  <2>5. Proper(q, owner', keys', secrets', known')
    BY <1>2, <1>3, <2>1, <2>3 DEF Proper
  <2>6. FactorInv'
    BY <1>1, <2>1, <2>3, FactorSlot DEF Enabling, history
  <2>. QED
    BY <1>1, <1>2, <2>1, <2>3, <2>4, <2>5, <2>6, ServedKeeps DEF r, history
<1>16. CASE ServeCheck(s)
  <2>. DEFINE q == [r EXCEPT !.state = "passed"]
  <2>1. /\ flight' = [flight EXCEPT ![s] = q] /\ UNCHANGED <<server, history>>
        /\ r.op \in {"login", "activate"} /\ Permitted(r)
    BY <1>6, <1>16 DEF ServeCheck, Served, Sent, r
  <2>2. /\ q \in Requests /\ q # None /\ q.op = r.op /\ q.x = r.x /\ q.t = r.t
        /\ q.gone = r.gone /\ q.state = "passed"
    BY <1>2, NoneAssumption DEF Requests
  <2>. HIDE DEF q
  <2>3. r.op = "activate" => /\ r.t \in Tokens /\ owner[r.t] \in Users
                             /\ acct[owner[r.t]].secret = r.x
    <3>1. r.op = "activate" => r.t \in live /\ CodeValid(owner[r.t], r.x)
      BY <2>1 DEF Permitted, Full, Caller
    <3>. QED
      BY <1>3, <1>4, <3>1 DEF CodeValid
  <2>4. Proper(q, owner, keys, secrets, known)
    BY <1>2, <1>5, <2>1, <2>2, <2>3 DEF Proper
  <2>5. ServerInv' /\ Grows
    BY <1>1, <1>3, <2>1 DEF TabInv, ServerInv, Grows, server
  <2>6. FactorInv'
    <3>1. ASSUME NEW i \in Places, Enabling(flight'[i])
          PROVE  /\ flight'[i].t \in Tokens /\ owner[flight'[i].t] \in Users
                 /\ \/ Enabling(flight[i]) /\ flight'[i].t = flight[i].t
                       /\ flight'[i].x = flight[i].x
                    \/ acct'[owner[flight'[i].t]].secret = flight'[i].x
      <4>1. CASE i = s
        <5>1. flight'[i] = q /\ acct' = acct
          BY <1>6, <2>1, <4>1 DEF server
        <5>2. r.op = "activate"
          BY <2>2, <3>1, <5>1 DEF Enabling
        <5>. QED
          BY <2>2, <2>3, <5>1, <5>2
      <4>2. CASE i # s
        <5>1. flight'[i] = flight[i]
          BY <1>6, <2>1, <4>2
        <5>. QED
          BY <3>1, <5>1, EnablingForm
      <4>. QED
        BY <4>1, <4>2
    <3>2. UNCHANGED <<acct, owner, known, replaced>>
      BY <1>1, <2>1 DEF server, history
    <3>. QED
      BY <3>1, <3>2, FactorKeeps
  <2>. QED
    BY <1>1, <1>2, <2>1, <2>2, <2>4, <2>5, <2>6, ServedKeeps DEF r, server, history
<1>17. CASE ServeActivate(s)
  <2>. DEFINE u == owner[r.t]
  <2>1. /\ Enabling(r) /\ Answer(s, None)
        /\ acct' = IF acct[u].status = "none" THEN acct ELSE [acct EXCEPT ![u].mfa = TRUE]
        /\ UNCHANGED <<owner, live, keys, secrets, history>>
    BY <1>17 DEF ServeActivate, Passed, Busy, Enabling, Has, r
  <2>2. u \in Users /\ r.x \in known
    BY <2>1, EnablingForm DEF r
  <2>3. u \in replaced \/ acct[u].secret = r.x
    BY <2>1 DEF TabInv, FactorInv, r
  <2>. HIDE DEF u
  <2>4. PICK q : /\ flight' = [flight EXCEPT ![s] = q] /\ q \in Requests /\ q # None
                 /\ q.op = r.op /\ q.x = r.x /\ q.t = r.t
                 /\ q.gone = r.gone /\ q.state = "ok" /\ q.ans = None
    BY <1>2, <1>7, <2>1, AnswerKeeps DEF r
  <2>5. ServerInv' /\ Grows
    <3>1. acct' \in [Users -> Kinds]
      BY <1>3, <2>1, <2>2 DEF Kinds
    <3>2. \A v \in Users : acct'[v].status = "none" => acct'[v].secret = 0
      BY <1>3, <2>1, <2>2 DEF Kinds
    <3>. QED
      BY <1>1, <1>3, <2>1, <3>1, <3>2 DEF ServerInv, Grows
  <2>6. Proper(q, owner', keys', secrets', known')
    BY <1>1, <1>2, <2>1, <2>2, <2>4 DEF Proper, Enabling
  <2>7. FactorInv'
    <3>1. \A i \in Places : Enabling(flight'[i]) => flight'[i] = flight[i]
      BY <1>6, <2>4 DEF Enabling
    <3>2. \A v \in Users :
             \/ v \in replaced
             \/ /\ acct'[v].secret = acct[v].secret
                /\ acct'[v].mfa => acct[v].mfa \/ acct[v].secret \in known
      BY <1>3, <2>1, <2>2, <2>3 DEF Kinds
    <3>3. UNCHANGED <<owner, known, replaced>>
      BY <1>1, <2>1 DEF history
    <3>. QED
      BY <3>1, <3>2, <3>3, EnablingForm, FactorKeeps
  <2>. QED
    BY <1>1, <1>2, <2>1, <2>4, <2>5, <2>6, <2>7, ServedKeeps DEF r, history, Enabling
<1>. QED
    BY <1>8, <1>9, <1>10, <1>11, <1>12, <1>13, <1>14, <1>15, <1>16, <1>17 DEF Serve

\* So do other browsers.
LEMMA ElsewhereStep ==
    ASSUME TabInv, Elsewhere
    PROVE  TabInv'
<1>1. UNCHANGED <<owner, keys, secrets, cookie, flight, tab, part, known, astray>>
    BY DEF Elsewhere
<1>2. /\ acct \in [Users -> Kinds]
      /\ \A v \in Users : acct[v].status = "none" => acct[v].secret = 0
    BY DEF TabInv, ServerInv
<1>3. /\ acct' \in [Users -> Kinds] /\ live' \subseteq live
      /\ \A v \in Users : acct'[v].status = "none" => acct'[v].secret = 0
      /\ FactorInv'
  <2>1. CASE \E u \in Users, op \in {"register", "approve", "reset"} :
            /\ acct[u].status \in CASE op = "register" -> {"none"}
                                   [] op = "approve" -> {"pending"}
                                   [] op = "reset" -> {"pending", "active"}
            /\ acct' = [acct EXCEPT ![u] = Changed(op, u)]
            /\ UNCHANGED <<live, replaced>>
    <3>1. PICK u \in Users, op \in {"register", "approve", "reset"} :
            /\ op = "register" => acct[u].status = "none"
            /\ acct' = [acct EXCEPT ![u] = Changed(op, u)]
            /\ UNCHANGED <<live, replaced>>
      BY <2>1
    <3>2. /\ acct' \in [Users -> Kinds] /\ FactorInv'
          /\ \A v \in Users : acct'[v].status = "none" => acct'[v].secret = 0
      BY <1>1, <3>1, ChangedKeeps
    <3>. QED
      BY <3>1, <3>2
  <2>2. CASE \E u \in Users \ Admins : ~Has(u, "none") /\ Removed(u)
    BY <1>1, <2>2, RemovedKeeps
  <2>3. CASE \E t \in live : live' = live \ {t} /\ UNCHANGED <<acct, replaced>>
    <3>1. FactorInv'
      BY <1>1, <2>3, FactorSame
    <3>. QED
      BY <1>2, <2>3, <3>1
  <2>. QED
    BY <2>1, <2>2, <2>3 DEF Elsewhere
<1>5. ServerInv' /\ BrowserInv' /\ PageInv'
    BY <1>1, <1>3 DEF TabInv, ServerInv, BrowserInv, PageInv
<1>6. FlightOK(flight, owner, keys, secrets, known)' /\ HereOK(flight, tab)'
    BY <1>1 DEF TabInv, FlightOK, HereOK
<1>7. IdentInv' /\ OwnInv'
    BY <1>1 DEF TabInv, IdentInv, OwnInv, SignedIn, Shows
<1>. QED
    BY <1>3, <1>5, <1>6, <1>7 DEF TabInv

\* And another tab, after which the page is astray.
LEMMA OtherTabStep ==
    ASSUME TabInv, OtherTab
    PROVE  TabInv'
<1>1. astray' = TRUE /\ UNCHANGED <<acct, keys, secrets, flight, tab, part, known, replaced>>
    BY DEF OtherTab
<1>2. /\ acct \in [Users -> Kinds] /\ owner \in [Tokens -> Users \union {None}]
      /\ \A t \in live : t \in Tokens /\ owner[t] # None
      /\ keys \in Nat /\ secrets \in 0 .. MaxSecrets /\ MaxSecrets \in Nat
      /\ \A u \in Users : u # None
    BY TabAssumption DEF TabInv, ServerInv
<1>3. /\ owner' \in [Tokens -> Users \union {None}]
      /\ \A t \in Tokens : owner[t] # None => owner'[t] = owner[t]
      /\ \A t \in live' : t \in Tokens /\ owner'[t] # None
      /\ cookie' \in Tokens \union {None} /\ (cookie' # None => owner'[cookie'] # None)
  <2>1. CASE \E u \in Users, t \in Tokens :
            /\ owner[t] = None
            /\ owner' = [owner EXCEPT ![t] = u]
            /\ live' = live \union {t}
            /\ cookie' = t
    BY <1>2, <2>1
  <2>2. CASE live' = live \ {cookie} /\ cookie' = None /\ UNCHANGED owner
    BY <1>2, <2>2
  <2>. QED
    BY <2>1, <2>2 DEF OtherTab
<1>4. ServerInv' /\ BrowserInv' /\ PageInv'
    BY <1>1, <1>3 DEF TabInv, ServerInv, BrowserInv, PageInv
<1>5. FlightOK(flight, owner, keys, secrets, known)'
  <2>1. FlightOK(flight, owner', keys, secrets, known)
    BY <1>2, <1>3, FlightGrows DEF TabInv
  <2>. QED
    BY <1>1, <2>1
<1>6. HereOK(flight, tab)' /\ IdentInv' /\ OwnInv'
    BY <1>1 DEF TabInv, HereOK, IdentInv, OwnInv, Shows
<1>7. FactorInv'
    BY <1>1, <1>3, FactorSame
<1>. QED
    BY <1>4, <1>5, <1>6, <1>7 DEF TabInv

-----------------------------------------------------------------------------
(* The page changes *)

\* The page becomes b; f is what is under way apart from the answers that find nobody.
LEMMA BecomeKeeps ==
    ASSUME TabInv, NEW b \in Pages, NEW f, Become(b, f), UNCHANGED <<server, known, replaced>>,
           FlightOK(f, owner, keys, secrets, known),
           \A i \in Places : f[i] # None /\ ~f[i].gone =>
                Shows(Sender(f[i].op)) \/ Mounted(Sender(f[i].op), b),
           \A i \in Places : Coming(flight[i], part.own) => f[i] = flight[i],
           \A i \in Places : Enabling(f[i]) => f[i] = flight[i]
    PROVE  /\ FlightOK(flight, owner, keys, secrets, known)' /\ HereOK(flight, tab)'
           /\ PageInv' /\ OwnInv' /\ FactorInv'
           /\ \A i \in Places : f[i] # None => flight'[i] # None /\ flight'[i].op = f[i].op
<1>1. f \in [Places -> Requests \union {None}] /\ tab' = b /\ part' = Kept(part, b)
    BY DEF FlightOK, Become
<1>2. flight' = [i \in Places |->
          IF f[i] # None /\ Shows(Sender(f[i].op)) /\ ~Mounted(Sender(f[i].op), b)
          THEN [f[i] EXCEPT !.gone = TRUE] ELSE f[i]]
    BY <1>1 DEF Become
<1>3. ASSUME NEW i \in Places, f[i] # None
      PROVE  /\ flight'[i] # None /\ flight'[i].op = f[i].op
             /\ Proper(flight'[i], owner, keys, secrets, known)
             /\ ~flight'[i].gone => Mounted(Sender(f[i].op), b)
             /\ flight'[i].t = f[i].t /\ flight'[i].x = f[i].x /\ flight'[i].state = f[i].state
  <2>1. Proper(f[i], owner, keys, secrets, known) /\ f[i] \in Requests
    BY <1>3 DEF FlightOK, Proper
  <2>2. CASE Shows(Sender(f[i].op)) /\ ~Mounted(Sender(f[i].op), b)
    <3>. DEFINE r == f[i]
    <3>. DEFINE q == [r EXCEPT !.gone = TRUE]
    <3>1. flight'[i] = q
      BY <1>2, <1>3, <2>2
    <3>2. /\ q \in Requests /\ q.gone /\ q.op = r.op /\ q.x = r.x /\ q.t = r.t
          /\ q.state = r.state /\ q.ans = r.ans
      <4>1. r \in Requests
        BY <2>1
      <4>. HIDE DEF r
      <4>. QED
        BY <4>1 DEF Requests
    <3>3. Proper(r, owner, keys, secrets, known)
      BY <2>1
    <3>. HIDE DEF q, r
    <3>4. Proper(q, owner, keys, secrets, known) /\ q # None
      BY <3>2, <3>3, NoneAssumption DEF Proper
    <3>. QED
      BY <3>1, <3>2, <3>4 DEF r
  <2>3. CASE ~(Shows(Sender(f[i].op)) /\ ~Mounted(Sender(f[i].op), b))
    <3>1. flight'[i] = f[i]
      BY <1>2, <2>3
    <3>. QED
      BY <1>3, <2>1, <2>3, <3>1
  <2>. QED
    BY <2>2, <2>3
<1>4. \A i \in Places : f[i] = None => flight'[i] = None
    BY <1>2
<1>5. flight' \in [Places -> Requests \union {None}]
  <2>1. \A i \in Places : flight'[i] \in Requests \union {None}
    BY <1>3, <1>4 DEF Proper
  <2>. QED
    BY <1>2, <2>1
<1>6. FlightOK(flight, owner, keys, secrets, known)'
  <2>1. FlightOK(flight', owner, keys, secrets, known)
    BY <1>3, <1>4, <1>5 DEF FlightOK
  <2>. QED
    BY <2>1 DEF server
<1>7. HereOK(flight, tab)'
    BY <1>1, <1>3, <1>4 DEF HereOK
<1>8. part = Kept(part, tab) /\ part.filter \in Filters /\ part.keys \in Nat /\ part.own \in Nat
      /\ keys \in Nat /\ part.own =< keys
    BY DEF TabInv, PageInv, ServerInv, OwnInv
<1>9. PageInv'
  <2>1. part' = Kept(part', b)
    BY <1>1, KeptTwice
  <2>2. FirstFilter \in Filters
    BY TabAssumption DEF FirstFilter
  <2>3. part'.filter \in Filters /\ part'.keys \in Nat /\ part'.own \in Nat
    BY <1>1, <1>8, <2>2 DEF Kept, Blank
  <2>. QED
    BY <1>1, <2>1, <2>3 DEF PageInv
<1>10. OwnInv'
  <2>1. part'.own =< keys
    BY <1>1, <1>8 DEF Kept
  <2>2. ASSUME Mounted("console", b), ~part'.crossed
        PROVE  part'.keys >= part'.own \/ \E i \in Places : Coming(flight'[i], part'.own)
    <3>1. part'.keys = part.keys /\ part'.own = part.own
      BY <1>1, <2>2 DEF Kept
    <3>2. CASE Shows("console")
      <4>1. ~part.crossed
        <5>1. part'.crossed = (Mounted("console", b) /\ part.crossed)
          BY <1>1 DEF Kept
        <5>. QED
          BY <2>2, <5>1
      <4>2. CASE part.keys >= part.own
        BY <3>1, <4>2
      <4>3. ASSUME NEW i \in Places, Coming(flight[i], part.own)
            PROVE  \E j \in Places : Coming(flight'[j], part'.own)
        <5>1. f[i] = flight[i] /\ f[i] # None /\ f[i].op = "keys"
          BY <4>3 DEF Coming
        <5>2. Mounted(Sender(f[i].op), b)
          BY <2>2, <5>1 DEF Sender
        <5>3. flight'[i] = f[i]
          BY <1>2, <5>2
        <5>. QED
          BY <3>1, <4>3, <5>1, <5>3
      <4>. QED
        BY <3>2, <4>1, <4>2, <4>3 DEF TabInv, OwnInv
    <3>3. CASE ~Shows("console")
      <4>1. part.keys = 0 /\ part.own = 0
        BY <1>8, <3>3, KeptForm DEF Shows
      <4>. QED
        BY <3>1, <4>1
    <3>. QED
      BY <3>2, <3>3
  <2>. QED
    BY <1>1, <2>1, <2>2 DEF OwnInv, Shows, server
<1>11. FactorInv'
  <2>1. \A i \in Places : Enabling(flight'[i]) =>
           Enabling(flight[i]) /\ flight'[i].t = flight[i].t /\ flight'[i].x = flight[i].x
    BY <1>3, <1>4 DEF Enabling
  <2>. QED
    BY <2>1, FactorSame DEF server
<1>. QED
    BY <1>3, <1>6, <1>7, <1>9, <1>10, <1>11

\* The view of an administrator.
LEMMA SwitchStep ==
    ASSUME TabInv, SwitchView
    PROVE  TabInv'
<1>. DEFINE b == [tab EXCEPT !.view = IF @ = "console" THEN "monitor" ELSE "console"]
<1>1. Become(b, flight) /\ UNCHANGED <<server, cookie, known, history>>
    BY DEF SwitchView
<1>2. b \in Pages /\ b.user = tab.user
    BY DEF TabInv, PageInv, Pages
<1>. HIDE DEF b
<1>3. /\ FlightOK(flight, owner, keys, secrets, known)' /\ HereOK(flight, tab)'
      /\ PageInv' /\ OwnInv' /\ FactorInv'
      /\ \A i \in Places : flight[i] # None => flight'[i] # None /\ flight'[i].op = flight[i].op
    BY <1>1, <1>2, BecomeKeeps DEF TabInv, HereOK, Shows, history
<1>4. tab' = b
    BY <1>1 DEF Become
<1>5. IdentInv'
    BY <1>1, <1>2, <1>3, <1>4 DEF TabInv, IdentInv, SignedIn, server, history
<1>6. ServerInv' /\ BrowserInv'
    BY <1>1 DEF TabInv, ServerInv, BrowserInv, server
<1>. QED
    BY <1>3, <1>5, <1>6 DEF TabInv

-----------------------------------------------------------------------------
(* Answers that arrive *)

\* The request that the handler of an answer sends.
LEMMA ChainForm ==
    ASSUME TabInv, NEW s \in Places, flight[s] # None, NEW op \in TabOps, NEW x \in Arguments,
           NEW t \in Tokens \union {None}
    PROVE  \E q : /\ Chain(s, op, x, t) = [flight EXCEPT ![s] = q]
                  /\ q \in Requests /\ q # None
                  /\ q.op = op /\ q.x = x /\ q.t = t /\ q.state = "sent"
                  /\ q.gone <=> flight[s].gone /\ Sender(op) # "app"
<1>. DEFINE g == flight[s].gone /\ Sender(op) # "app"
<1>. DEFINE q == [Request(op, x, t) EXCEPT !.gone = g]
<1>1. g \in BOOLEAN
    OBVIOUS
<1>2. Chain(s, op, x, t) = [flight EXCEPT ![s] = q]
    BY DEF Chain
<1>. HIDE DEF g
<1>3. /\ q \in Requests /\ q # None /\ q.op = op /\ q.x = x /\ q.t = t
      /\ q.gone = g /\ q.state = "sent"
    BY <1>1, RequestForm
<1>. HIDE DEF q
<1>. QED
    BY <1>2, <1>3 DEF g

\* An answer that does not change who is signed in.
LEMMA ArrivedKeeps ==
    ASSUME TabInv, NEW s \in Places, NEW r, flight' = [flight EXCEPT ![s] = r], flight[s] # None,
           r = None \/ Proper(r, owner, keys, secrets, known),
           r # None => r.state = "sent", r # None /\ ~r.gone => Mounted(Sender(r.op), tab),
           UNCHANGED <<server, tab, replaced>>, known \subseteq known', known' \subseteq 1 .. secrets,
           cookie' \in Tokens \union {None}, cookie' # None => owner[cookie'] # None,
           part' = Kept(part', tab), part'.filter \in Filters, part'.keys \in Nat, part'.own \in Nat
    PROVE  /\ FlightOK(flight, owner, keys, secrets, known)' /\ HereOK(flight, tab)'
           /\ Grows /\ ServerInv' /\ BrowserInv' /\ PageInv' /\ FactorInv'
<1>1. Grows /\ ServerInv' /\ BrowserInv' /\ PageInv'
    BY DEF TabInv, Grows, ServerInv, BrowserInv, PageInv, server
<1>3. FactorInv'
    BY FactorSlot DEF Enabling, server
<1>2. r = None \/ Proper(r, owner', keys', secrets', known')
    BY DEF Proper, server
<1>. QED
    BY <1>1, <1>2, <1>3, SlotKeeps

\* An answer that changes neither the cookie, nor who is signed in, nor what the
\* page knows of its own changes.
LEMMA PlainArrival ==
    ASSUME TabInv, NEW s \in Places, NEW r, flight' = [flight EXCEPT ![s] = r], flight[s] # None,
           flight[s].op # "me", flight[s].op = "keys" => flight[s].gone,
           r = None \/ Proper(r, owner, keys, secrets, known),
           r # None => r.state = "sent", r # None /\ ~r.gone => Mounted(Sender(r.op), tab),
           UNCHANGED <<server, cookie, tab, replaced>>, ~astray' => ~astray,
           known \subseteq known', known' \subseteq 1 .. secrets,
           part' = Kept(part', tab), part'.filter = part.filter, part'.own = part.own,
           part'.keys = part.keys, part'.crossed = part.crossed
    PROVE  TabInv'
<1>1. /\ cookie \in Tokens \union {None} /\ (cookie # None => owner[cookie] # None)
      /\ part.filter \in Filters /\ part.keys \in Nat /\ part.own \in Nat
    BY DEF TabInv, BrowserInv, PageInv
<1>2. /\ FlightOK(flight, owner, keys, secrets, known)' /\ HereOK(flight, tab)'
      /\ Grows /\ ServerInv' /\ BrowserInv' /\ PageInv' /\ FactorInv'
    BY <1>1, ArrivedKeeps
<1>3. IdentInv'
    BY <1>2, IdentKeeps
<1>4. OwnInv'
    BY <1>2, OwnKeeps DEF Coming
<1>. QED
    BY <1>2, <1>3, <1>4 DEF TabInv

\* loadMe
LEMMA MeStep ==
    ASSUME TabInv, NEW s \in Places, MeArrives(s), UNCHANGED <<server, clicks, replaced>>
    PROVE  TabInv'
<1>. DEFINE a == flight[s].ans
<1>. DEFINE b == [user |-> a.user, must |-> a.must, mfa |-> a.mfa, view |-> tab.view]
<1>. DEFINE f == [flight EXCEPT ![s] = None]
<1>1. /\ flight[s] # None /\ flight[s].op = "me" /\ flight[s].state = "ok"
      /\ Become(b, f) /\ astray' = (flight[s].t # cookie) /\ UNCHANGED <<cookie, known>>
    BY DEF MeArrives, Ok, Busy, Close
<1>2. a \in Me /\ flight[s].t \in Tokens /\ owner[flight[s].t] = a.user
    BY <1>1 DEF TabInv, FlightOK, Proper
<1>3. b \in Pages /\ b.user = a.user
    BY <1>2 DEF TabInv, PageInv, Pages, Me
<1>4. FlightOK(f, owner, keys, secrets, known)
    BY FlightSet DEF TabInv
<1>5. flight \in [Places -> Requests \union {None}] /\ HereOK(flight, tab)
    BY DEF TabInv, FlightOK
<1>6. \A i \in Places : f[i] # None => f[i] = flight[i] /\ i # s
    BY <1>5
<1>7. \A i \in Places : f[i] # None /\ ~f[i].gone => Shows(Sender(f[i].op))
    BY <1>5, <1>6 DEF HereOK, Shows
<1>8. \A i \in Places : Coming(flight[i], part.own) => f[i] = flight[i]
    BY <1>1, <1>5 DEF Coming
<1>. HIDE DEF a, b, f
<1>9. /\ FlightOK(flight, owner, keys, secrets, known)' /\ HereOK(flight, tab)'
      /\ PageInv' /\ OwnInv' /\ FactorInv'
    BY <1>1, <1>3, <1>4, <1>6, <1>7, <1>8, BecomeKeeps DEF Enabling
<1>10. tab' = b
    BY <1>1 DEF Become
<1>11. IdentInv'
  <2>1. SUFFICES ASSUME flight[s].t = cookie
                 PROVE  cookie # None /\ owner[cookie] = b.user
    BY <1>1, <1>10 DEF IdentInv, SignedIn, server
  <2>. QED
    BY <1>2, <1>3, <2>1, TabAssumption
<1>12. ServerInv' /\ BrowserInv'
    BY <1>1 DEF TabInv, ServerInv, BrowserInv, server
<1>. QED
    BY <1>9, <1>11, <1>12 DEF TabInv

\* logout
LEMMA LeaveStep ==
    ASSUME TabInv, NEW s \in Places, flight[s] # None, flight[s].op = "logout",
           NEW c \in {None, cookie}, Leave(s, c), UNCHANGED <<server, clicks, replaced>>
    PROVE  TabInv'
<1>. DEFINE b == AfterLogout
<1>. DEFINE f == IF Shows("gate") THEN Close(s) ELSE Chain(s, "needs", None, c)
<1>1. Become(b, f) /\ cookie' = c /\ UNCHANGED <<known, astray>>
    BY DEF Leave
<1>2. b \in Pages /\ b.user = None
    BY DEF TabInv, PageInv, Pages, AfterLogout, Nobody
<1>3. flight \in [Places -> Requests \union {None}] /\ HereOK(flight, tab)
      /\ cookie \in Tokens \union {None}
    BY DEF TabInv, FlightOK, BrowserInv
<1>4. PICK q : /\ f = [flight EXCEPT ![s] = q]
               /\ q = None \/ Proper(q, owner, keys, secrets, known)
               /\ q # None => q.op = "needs"
  <2>1. CASE Shows("gate")
    BY <2>1 DEF Close
  <2>2. CASE ~Shows("gate")
    <3>1. PICK q : /\ Chain(s, "needs", None, c) = [flight EXCEPT ![s] = q]
                   /\ q \in Requests /\ q # None /\ q.op = "needs" /\ q.state = "sent"
      <4>1. None \in Arguments /\ "needs" \in TabOps /\ c \in Tokens \union {None}
        BY <1>3 DEF TabOps, Arguments
      <4>. QED
        BY <4>1, ChainForm
    <3>. QED
      BY <2>2, <3>1 DEF Proper
  <2>. QED
    BY <2>1, <2>2
<1>. HIDE DEF f
<1>5. FlightOK(f, owner, keys, secrets, known)
    BY <1>4, FlightSet DEF TabInv
<1>6. Mounted(Sender("needs"), b)
    BY <1>2 DEF Sender, Mounted, SignedIn
<1>. HIDE DEF b
<1>7. \A i \in Places : f[i] # None /\ ~f[i].gone =>
                Shows(Sender(f[i].op)) \/ Mounted(Sender(f[i].op), b)
    BY <1>3, <1>4, <1>6 DEF HereOK, Shows
<1>8. \A i \in Places : Coming(flight[i], part.own) => f[i] = flight[i]
    BY <1>3, <1>4 DEF Coming
<1>12. \A i \in Places : Enabling(f[i]) => f[i] = flight[i]
    BY <1>3, <1>4 DEF Enabling
<1>9. /\ FlightOK(flight, owner, keys, secrets, known)' /\ HereOK(flight, tab)'
      /\ PageInv' /\ OwnInv' /\ FactorInv'
    BY <1>1, <1>2, <1>5, <1>7, <1>8, <1>12, BecomeKeeps
<1>10. IdentInv'
    BY <1>1, <1>2 DEF IdentInv, SignedIn, Become
<1>11. ServerInv' /\ BrowserInv'
    BY <1>1 DEF TabInv, ServerInv, BrowserInv, server
<1>. QED
    BY <1>9, <1>10, <1>11 DEF TabInv

\* Every answer that arrives keeps the invariant.
LEMMA ArriveStep ==
    ASSUME TabInv, NEW s \in Places, Arrives(s)
    PROVE  TabInv'
<1>. DEFINE r == flight[s]
<1>1. UNCHANGED <<server, clicks, replaced>>
    BY DEF Arrives
<1>2. r # None
    BY DEF Arrives, MeArrives, LoginArrives, NextArrives, NeedsArrives, EnrollArrives,
           ActivateArrives, ChangeArrives, ListArrives, MonitorArrives, NothingArrives,
           ErrorArrives, Ok, Busy
<1>3. /\ Proper(r, owner, keys, secrets, known) /\ r \in Requests
      /\ ~r.gone => Mounted(Sender(r.op), tab)
    BY <1>2 DEF TabInv, FlightOK, Proper, HereOK
<1>4. /\ part = Kept(part, tab) /\ part.filter \in Filters
      /\ part.keys \in Nat /\ part.own \in Nat /\ part.own =< keys /\ keys \in Nat
      /\ cookie \in Tokens \union {None} /\ (cookie # None => owner[cookie] # None)
      /\ secrets \in Nat /\ known \subseteq 1 .. secrets /\ tab \in Pages
      /\ OwnInv
    BY DEF TabInv, PageInv, OwnInv, ServerInv, BrowserInv
<1>5. flight \in [Places -> Requests \union {None}]
    BY DEF TabInv, FlightOK
<1>6. /\ None \in Arguments /\ Users \subseteq Arguments /\ [user : Users, code : Nat] \subseteq Arguments
      /\ r.x \in Arguments
    BY <1>3 DEF Arguments, Requests
<1>. HIDE DEF r
<1>7. CASE LoginArrives(s)
  <2>1. /\ r.op = "login" /\ r.state = "ok" /\ cookie' = r.ans
        /\ flight' = Chain(s, "me", None, r.ans) /\ UNCHANGED <<tab, part, known, astray>>
    BY <1>7 DEF LoginArrives, Ok, r
  <2>2. r.ans \in Tokens /\ owner[r.ans] # None
    BY <1>3, <2>1 DEF Proper
  <2>3. PICK q : /\ flight' = [flight EXCEPT ![s] = q]
                 /\ q \in Requests /\ q # None /\ q.op = "me" /\ q.state = "sent"
    <3>1. "me" \in TabOps /\ r.ans \in Tokens \union {None}
      BY <2>2 DEF TabOps
    <3>. QED
      BY <1>2, <1>6, <2>1, <3>1, ChainForm DEF r
  <2>4. Proper(q, owner, keys, secrets, known) /\ Mounted(Sender(q.op), tab)
    BY <2>3 DEF Proper, Sender, Mounted
  <2>5. /\ FlightOK(flight, owner, keys, secrets, known)' /\ HereOK(flight, tab)'
        /\ Grows /\ ServerInv' /\ BrowserInv' /\ PageInv' /\ FactorInv'
    BY <1>1, <1>2, <1>4, <2>1, <2>2, <2>3, <2>4, ArrivedKeeps DEF r
  <2>6. IdentInv'
    BY <1>5, <2>3 DEF IdentInv
  <2>7. OwnInv'
    BY <2>1, <2>3, <2>5, OwnKeeps DEF Coming, r
  <2>. QED
    BY <2>5, <2>6, <2>7 DEF TabInv
<1>8. CASE NextArrives(s)
  <2>1. /\ r.op \in {"setup", "force"} /\ r.state = "ok" /\ UNCHANGED <<cookie, tab, part, known, astray>>
    BY <1>8 DEF NextArrives, Ok, r
  <2>2. PICK q : /\ flight' = [flight EXCEPT ![s] = q]
                 /\ Proper(q, owner, keys, secrets, known) /\ q # None /\ q.state = "sent"
                 /\ ~q.gone => Mounted(Sender(q.op), tab)
    <3>1. CASE r.op = "force"
      <4>1. "me" \in TabOps /\ flight' = Chain(s, "me", None, cookie)
        BY <1>8, <3>1 DEF TabOps, NextArrives, r
      <4>2. PICK q : /\ flight' = [flight EXCEPT ![s] = q]
                     /\ q \in Requests /\ q # None /\ q.op = "me" /\ q.state = "sent"
        BY <1>2, <1>4, <1>6, <4>1, ChainForm DEF r
      <4>. QED
        BY <4>2 DEF Proper, Sender, Mounted
    <3>2. CASE r.op = "setup"
      <4>. DEFINE x == [user |-> r.x, code |-> 0]
      <4>1. "login" \in TabOps /\ flight' = Chain(s, "login", x, cookie)
        BY <1>8, <3>2 DEF TabOps, NextArrives, r
      <4>2. x \in Arguments /\ x.user \in Users
        BY <1>3, <1>6, <3>2 DEF Proper
      <4>. HIDE DEF x
      <4>3. PICK q : /\ flight' = [flight EXCEPT ![s] = q]
                     /\ q \in Requests /\ q # None /\ q.op = "login" /\ q.x = x
                     /\ q.state = "sent"
                     /\ (q.gone <=> flight[s].gone /\ Sender("login") # "app")
        BY <1>2, <1>4, <4>1, <4>2, ChainForm DEF r
      <4>4. Proper(q, owner, keys, secrets, known)
        BY <4>2, <4>3 DEF Proper
      <4>5. ~q.gone => Mounted(Sender(q.op), tab)
        BY <1>3, <3>2, <4>3 DEF Sender, r
      <4>. QED
        BY <4>3, <4>4, <4>5
    <3>. QED
      BY <2>1, <3>1, <3>2
  <2>. QED
    BY <1>1, <1>2, <1>4, <2>1, <2>2, PlainArrival DEF r
<1>9. CASE NeedsArrives(s)
  <2>1. /\ r.op = "needs" /\ flight' = [flight EXCEPT ![s] = None]
        /\ UNCHANGED <<cookie, tab, known, astray>>
    BY <1>9 DEF NeedsArrives, Ok, Close, r
  <2>2. /\ part' = Kept(part', tab) /\ part'.filter = part.filter /\ part'.own = part.own
        /\ part'.keys = part.keys /\ part'.crossed = part.crossed
    <3>1. CASE r.gone
      BY <1>4, <1>9, <3>1 DEF NeedsArrives, Here, r
    <3>2. CASE ~r.gone
      <4>1. Mounted("gate", tab)
        BY <1>3, <2>1, <3>2 DEF Sender
      <4>2. \E v : part' = [part EXCEPT !.screen = v]
        BY <1>9, <3>2 DEF NeedsArrives, Here, r
      <4>. QED
        BY <1>4, <4>1, <4>2, KeptScreen
    <3>. QED
      BY <3>1, <3>2
  <2>. QED
    BY <1>1, <1>2, <1>4, <2>1, <2>2, PlainArrival DEF r
<1>10. CASE EnrollArrives(s)
  <2>1. /\ r.op = "enroll" /\ r.state = "ok" /\ flight' = [flight EXCEPT ![s] = None]
        /\ UNCHANGED <<cookie, tab, astray>>
        /\ known' = known \/ known' = known \union {r.ans}
    BY <1>10 DEF EnrollArrives, Ok, Close, r
  <2>2. r.ans \in 1 .. secrets
    BY <1>3, <2>1 DEF Proper
  <2>3. /\ part' = Kept(part', tab) /\ part'.filter = part.filter /\ part'.own = part.own
        /\ part'.keys = part.keys /\ part'.crossed = part.crossed
    <3>1. CASE r.gone
      BY <1>4, <1>10, <3>1 DEF EnrollArrives, Here, r
    <3>2. CASE ~r.gone
      <4>1. Mounted("console", tab)
        BY <1>3, <2>1, <3>2 DEF Sender
      <4>2. \E v : part' = [part EXCEPT !.enroll = v]
        BY <1>10, <3>2 DEF EnrollArrives, Here, r
      <4>. QED
        BY <1>4, <4>1, <4>2, KeptEnroll
    <3>. QED
      BY <3>1, <3>2
  <2>4. known \subseteq known' /\ known' \subseteq 1 .. secrets
    BY <1>4, <2>1, <2>2
  <2>. QED
    BY <1>1, <1>2, <1>4, <2>1, <2>3, <2>4, PlainArrival DEF r
<1>11. CASE ActivateArrives(s)
  <2>1. /\ r.op = "activate" /\ flight' = [flight EXCEPT ![s] = None]
        /\ tab' = [tab EXCEPT !.mfa = TRUE] /\ UNCHANGED <<cookie, known, astray>>
    BY <1>11 DEF ActivateArrives, Ok, Close, r
  <2>2. tab' \in Pages /\ tab'.user = tab.user /\ tab'.must = tab.must /\ tab'.view = tab.view
    BY <1>4, <2>1 DEF Pages
  <2>3. \A p : Kept(p, tab') = Kept(p, tab)
    BY <2>2 DEF Kept, Mounted, SignedIn
  <2>4. \A op \in TabOps : Mounted(Sender(op), tab') = Mounted(Sender(op), tab)
    BY <2>2 DEF Mounted, Sender, SignedIn, TabOps
  <2>5. Mounted("console", tab') = Mounted("console", tab)
    BY <2>2 DEF Mounted, SignedIn
  <2>6. /\ part' = Kept(part', tab) /\ part'.filter = part.filter /\ part'.own = part.own
        /\ part'.keys = part.keys /\ part'.crossed = part.crossed
    <3>1. CASE r.gone
      BY <1>4, <1>11, <3>1 DEF ActivateArrives, Here, r
    <3>2. CASE ~r.gone
      <4>1. Mounted("console", tab)
        BY <1>3, <2>1, <3>2 DEF Sender
      <4>2. part' = [part EXCEPT !.enroll = 0]
        BY <1>11, <3>2 DEF ActivateArrives, Here, r
      <4>. QED
        BY <1>4, <4>1, <4>2, KeptEnroll
    <3>. QED
      BY <3>1, <3>2
  <2>7. Grows /\ ServerInv' /\ BrowserInv' /\ FactorInv'
    <3>1. FactorInv'
      BY <1>1, <2>1, FactorSlot DEF Enabling, server
    <3>. QED
      BY <1>1, <2>1, <3>1 DEF TabInv, Grows, ServerInv, BrowserInv, server
  <2>8. PageInv'
    BY <1>4, <2>2, <2>3, <2>6 DEF PageInv
  <2>9. FlightOK(flight, owner, keys, secrets, known)' /\ HereOK(flight, tab)'
    BY <2>1, <2>4, <2>7, SlotKeeps
  <2>10. IdentInv'
    BY <2>1, <2>2, <2>7, IdentKeeps DEF r
  <2>11. OwnInv'
    BY <2>1, <2>5, <2>6, <2>7, OwnKeeps DEF Coming, r
  <2>. QED
    BY <2>7, <2>8, <2>9, <2>10, <2>11 DEF TabInv
<1>12. CASE ChangeArrives(s)
  <2>. DEFINE op == IF r.op = "change" THEN "keys" ELSE "users"
  <2>1. /\ r.op \in {"change", "approve", "delete", "reset"} /\ r.state = "ok"
        /\ flight' = Chain(s, op, None, cookie) /\ UNCHANGED <<cookie, tab, known, astray>>
    BY <1>12 DEF ChangeArrives, Reload, Ok, r
  <2>2. op \in TabOps /\ Sender(op) = Sender(r.op) /\ Sender(op) # "app"
    BY <2>1 DEF TabOps, Sender
  <2>3. PICK q : /\ flight' = [flight EXCEPT ![s] = q]
                 /\ q \in Requests /\ q # None /\ q.op = op /\ q.state = "sent"
                 /\ (q.gone <=> r.gone)
    <3>. HIDE DEF op
    <3>. QED
      BY <1>2, <1>4, <1>6, <2>1, <2>2, ChainForm DEF r
  <2>4. Proper(q, owner, keys, secrets, known) /\ (~q.gone => Mounted(Sender(q.op), tab))
    BY <1>3, <2>2, <2>3 DEF Proper
  <2>5. CASE r.op = "change" /\ ~r.gone
    <3>1. part' = [part EXCEPT !.own = r.ans]
      BY <1>12, <2>5 DEF ChangeArrives, Here, r
    <3>2. r.ans \in 0 .. keys
      BY <1>3, <2>1, <2>5 DEF Proper
    <3>3. Mounted("console", tab)
      BY <1>3, <2>5 DEF Sender
    <3>4. /\ part' = Kept(part', tab) /\ part'.filter = part.filter /\ part'.own = r.ans
          /\ part'.keys = part.keys
      BY <1>4, <3>1, <3>3, KeptOwn
    <3>5. r.ans \in Nat /\ r.ans =< keys
      BY <1>4, <3>2
    <3>6. /\ FlightOK(flight, owner, keys, secrets, known)' /\ HereOK(flight, tab)'
          /\ Grows /\ ServerInv' /\ BrowserInv' /\ PageInv' /\ FactorInv'
      BY <1>1, <1>2, <1>4, <2>1, <2>3, <2>4, <3>4, <3>5, ArrivedKeeps DEF r
    <3>7. IdentInv'
      BY <2>1, <2>3, <3>6, IdentKeeps DEF r
    <3>8. OwnInv'
      <4>1. flight'[s] = q
        BY <1>5, <2>3
      <4>2. Coming(flight'[s], part'.own)
        BY <2>3, <2>5, <4>1 DEF Coming
      <4>. QED
        BY <1>1, <3>4, <3>5, <4>2 DEF OwnInv, server
    <3>. QED
      BY <3>6, <3>7, <3>8 DEF TabInv
  <2>6. CASE ~(r.op = "change" /\ ~r.gone)
    <3>1. part' = part
      BY <1>12, <2>6 DEF ChangeArrives, Here, r
    <3>. QED
      BY <1>1, <1>2, <1>4, <2>1, <2>3, <2>4, <3>1, PlainArrival DEF r
  <2>. QED
    BY <2>5, <2>6
<1>13. CASE ListArrives(s)
  <2>1. /\ r.op \in {"keys", "users"} /\ r.state = "ok" /\ flight' = [flight EXCEPT ![s] = None]
        /\ UNCHANGED <<cookie, tab, known, astray>>
    BY <1>13 DEF ListArrives, Ok, Close, r
  <2>2. CASE r.op = "keys" /\ ~r.gone
    <3>. DEFINE v == part.crossed \/ r.ans < part.keys
    <3>. DEFINE h == [part EXCEPT !.keys = r.ans]
    <3>1. part' = [h EXCEPT !.crossed = v]
      BY <1>13, <2>2 DEF ListArrives, TakesList, Here, r
    <3>2. r.ans \in 0 .. keys
      BY <1>3, <2>1, <2>2 DEF Proper
    <3>3. Mounted("console", tab)
      BY <1>3, <2>2 DEF Sender
    <3>4. r.ans \in Nat /\ v \in BOOLEAN
      BY <1>4, <3>2
    <3>5. h = Kept(h, tab) /\ h.filter = part.filter /\ h.own = part.own /\ h.keys = r.ans
      BY <1>4, <3>3, KeptKeys
    <3>. HIDE DEF v, h
    <3>6. /\ part' = Kept(part', tab) /\ part'.filter = part.filter /\ part'.own = part.own
          /\ part'.keys = r.ans /\ part'.crossed = v
      BY <3>1, <3>3, <3>4, <3>5, KeptCrossed
    <3>7. /\ FlightOK(flight, owner, keys, secrets, known)' /\ HereOK(flight, tab)'
          /\ Grows /\ ServerInv' /\ BrowserInv' /\ PageInv' /\ FactorInv'
      BY <1>1, <1>2, <1>4, <2>1, <3>4, <3>6, ArrivedKeeps DEF r
    <3>8. IdentInv'
      BY <2>1, <2>2, <3>7, IdentKeeps DEF r
    <3>9. OwnInv'
      <4>1. SUFFICES ASSUME ~part'.crossed
                     PROVE  r.ans >= part.own \/ \E i \in Places : Coming(flight'[i], part.own)
        BY <1>1, <1>4, <3>6 DEF OwnInv, server
      <4>2. ~part.crossed /\ r.ans >= part.keys
        <5>1. ~v
          BY <3>6, <4>1
        <5>2. ~part.crossed /\ ~(r.ans < part.keys)
          BY <5>1, Zenon DEF v
        <5>. QED
          BY <1>4, <3>4, <5>2
      <4>3. CASE part.keys >= part.own
        BY <1>4, <3>4, <4>2, <4>3
      <4>4. CASE Coming(flight[s], part.own)
        BY <2>1, <4>4 DEF Coming, r
      <4>5. ASSUME NEW i \in Places, i # s, Coming(flight[i], part.own)
            PROVE  \E j \in Places : Coming(flight'[j], part.own)
        <5>1. flight'[i] = flight[i]
          BY <1>5, <2>1, <4>5
        <5>. QED
          BY <4>5, <5>1
      <4>. QED
        BY <1>4, <3>3, <4>2, <4>3, <4>4, <4>5 DEF OwnInv, Shows
    <3>. QED
      BY <3>7, <3>8, <3>9 DEF TabInv
  <2>3. CASE ~(r.op = "keys" /\ ~r.gone)
    <3>1. /\ part' = Kept(part', tab) /\ part'.filter = part.filter /\ part'.own = part.own
          /\ part'.keys = part.keys /\ part'.crossed = part.crossed
      <4>1. CASE r.gone
        BY <1>4, <1>13, <4>1 DEF ListArrives, TakesList, Here, r
      <4>2. CASE ~r.gone
        <5>1. Mounted("requests", tab) /\ r.op = "users"
          BY <1>3, <2>1, <2>3, <4>2 DEF Sender
        <5>2. \E v : part' = [part EXCEPT !.list = v]
          BY <1>13, <4>2, <5>1 DEF ListArrives, TakesList, Here, r
        <5>. QED
          BY <1>4, <5>1, <5>2, KeptUsers
      <4>. QED
        BY <4>1, <4>2
    <3>. QED
      BY <1>1, <1>2, <1>4, <2>1, <2>3, <3>1, PlainArrival DEF r
  <2>. QED
    BY <2>2, <2>3
<1>14. CASE MonitorArrives(s)
  <2>1. /\ r.op \in {"history", "live"} /\ r.state = "ok" /\ UNCHANGED <<cookie, tab, known, astray>>
    BY <1>14 DEF MonitorArrives, Ok, r
  <2>2. PICK q : /\ flight' = [flight EXCEPT ![s] = q]
                 /\ q = None \/ Proper(q, owner, keys, secrets, known)
                 /\ q # None => q.state = "sent"
                 /\ q # None /\ ~q.gone => Mounted(Sender(q.op), tab)
    <3>1. CASE r.op = "history" /\ r.ans = "disabled"
      <4>1. "live" \in TabOps /\ flight' = Chain(s, "live", r.x, cookie)
        BY <1>14, <3>1 DEF TabOps, MonitorArrives, r
      <4>2. PICK q : /\ flight' = [flight EXCEPT ![s] = q]
                     /\ q \in Requests /\ q # None /\ q.op = "live" /\ q.state = "sent"
                     /\ (q.gone <=> flight[s].gone /\ Sender("live") # "app")
        BY <1>2, <1>4, <1>6, <4>1, ChainForm DEF r
      <4>3. ~q.gone => Mounted(Sender(q.op), tab)
        BY <1>3, <3>1, <4>2 DEF Sender, r
      <4>. QED
        BY <4>2, <4>3 DEF Proper
    <3>2. CASE ~(r.op = "history" /\ r.ans = "disabled")
      BY <1>14, <3>2 DEF MonitorArrives, Close, r
    <3>. QED
      BY <3>1, <3>2
  <2>3. /\ part' = Kept(part', tab) /\ part'.filter = part.filter /\ part'.own = part.own
        /\ part'.keys = part.keys /\ part'.crossed = part.crossed
    <3>1. CASE part' = part
      BY <1>4, <3>1
    <3>2. CASE part' # part
      <4>1. ~r.gone /\ \E v : part' = [part EXCEPT !.shown = v]
        BY <1>14, <3>2 DEF MonitorArrives, Here, r
      <4>2. Mounted("monitor", tab)
        BY <1>3, <2>1, <4>1 DEF Sender
      <4>. QED
        BY <1>4, <4>1, <4>2, KeptShown
    <3>. QED
      BY <3>1, <3>2
  <2>. QED
    BY <1>1, <1>2, <1>4, <2>1, <2>2, <2>3, PlainArrival DEF r
<1>15. CASE NothingArrives(s)
  <2>1. /\ r.op \in {"register", "forgot", "password"} /\ flight' = [flight EXCEPT ![s] = None]
        /\ UNCHANGED <<cookie, tab, known, astray>>
    BY <1>15 DEF NothingArrives, Ok, Close, r
  <2>2. /\ part' = Kept(part', tab) /\ part'.filter = part.filter /\ part'.own = part.own
        /\ part'.keys = part.keys /\ part'.crossed = part.crossed
    <3>. DEFINE v == part.otp /\ (r.op = "register" => r.gone)
    <3>1. part' = [part EXCEPT !.otp = v]
      BY <1>15 DEF NothingArrives, r
    <3>2. v \in BOOLEAN /\ (v => Mounted("gate", tab))
      BY <1>4, KeptForm
    <3>. HIDE DEF v
    <3>. QED
      BY <1>4, <3>1, <3>2, KeptOtp
  <2>. QED
    BY <1>1, <1>2, <1>4, <2>1, <2>2, PlainArrival DEF r
<1>16. CASE ErrorArrives(s)
  <2>1. /\ r.op # "logout" /\ flight' = [flight EXCEPT ![s] = None]
        /\ astray' = (astray \/ r.op = "me") /\ UNCHANGED <<cookie, tab, known>>
    BY <1>16 DEF ErrorArrives, Close, r
  <2>2. /\ part' = Kept(part', tab) /\ part'.filter = part.filter /\ part'.own = part.own
        /\ part'.keys = part.keys
        /\ part'.crossed \/ (part'.crossed = part.crossed /\ (r.op = "keys" => r.gone))
    <3>1. CASE r.op = "needs" /\ ~r.gone
      <4>1. part' = [part EXCEPT !.screen = "login"]
        <5>1. r.state # "code"
          BY <1>3, <3>1 DEF Proper
        <5>. QED
          BY <1>16, <3>1, <5>1 DEF ErrorArrives, Here, r
      <4>2. Mounted("gate", tab)
        BY <1>3, <3>1 DEF Sender
      <4>. QED
        BY <1>4, <3>1, <4>1, <4>2, KeptScreen
    <3>2. CASE r.state = "code" /\ ~r.gone
      <4>1. r.op = "login" /\ Mounted("gate", tab)
        BY <1>3, <3>2 DEF Sender, Proper
      <4>. DEFINE v == TRUE
      <4>2. part' = [part EXCEPT !.otp = v]
        BY <1>16, <3>2, <4>1 DEF ErrorArrives, Here, r
      <4>3. v \in BOOLEAN /\ (v => Mounted("gate", tab))
        BY <4>1
      <4>. HIDE DEF v
      <4>4. /\ part' = Kept(part', tab) /\ part'.filter = part.filter /\ part'.own = part.own
            /\ part'.keys = part.keys /\ part'.crossed = part.crossed
        BY <1>4, <4>1, <4>2, <4>3, KeptOtp
      <4>. QED
        BY <4>1, <4>4
    <3>3. CASE r.op = "keys" /\ ~r.gone
      <4>1. r.state # "code" /\ Mounted("console", tab)
        BY <1>3, <3>3 DEF Sender, Proper
      <4>. DEFINE v == TRUE
      <4>2. part' = [part EXCEPT !.crossed = v]
        BY <1>16, <3>3, <4>1 DEF ErrorArrives, Here, r
      <4>3. v \in BOOLEAN
        OBVIOUS
      <4>. HIDE DEF v
      <4>4. /\ part' = Kept(part', tab) /\ part'.filter = part.filter /\ part'.own = part.own
            /\ part'.keys = part.keys /\ part'.crossed = v
        BY <1>4, <4>1, <4>2, <4>3, KeptCrossed
      <4>. QED
        BY <4>4 DEF v
    <3>4. CASE ~(r.op = "needs" /\ ~r.gone) /\ ~(r.state = "code" /\ ~r.gone)
               /\ ~(r.op = "keys" /\ ~r.gone)
      <4>1. part' = part
        BY <1>16, <3>4 DEF ErrorArrives, Here, r
      <4>. QED
        BY <1>4, <3>4, <4>1
    <3>. QED
      BY <3>1, <3>2, <3>3, <3>4
  <2>3. /\ FlightOK(flight, owner, keys, secrets, known)' /\ HereOK(flight, tab)'
        /\ Grows /\ ServerInv' /\ BrowserInv' /\ PageInv' /\ FactorInv'
    BY <1>1, <1>2, <1>4, <2>1, <2>2, ArrivedKeeps DEF r
  <2>4. IdentInv'
    <3>1. CASE r.op = "me"
      BY <2>1, <3>1 DEF IdentInv
    <3>2. CASE r.op # "me"
      BY <2>1, <2>3, <3>2, IdentKeeps DEF r
    <3>. QED
      BY <3>1, <3>2
  <2>5. OwnInv'
    <3>1. CASE part'.crossed
      BY <1>1, <1>4, <2>2, <3>1 DEF OwnInv, server
    <3>2. CASE ~part'.crossed
      <4>1. ~Coming(r, part.own)
        BY <2>2, <3>2 DEF Coming
      <4>. QED
        BY <2>1, <2>2, <2>3, <3>2, <4>1, OwnKeeps DEF r
    <3>. QED
      BY <3>1, <3>2
  <2>. QED
    BY <2>3, <2>4, <2>5 DEF TabInv
<1>17. CASE MeArrives(s)
  BY <1>1, <1>17, MeStep
<1>18. CASE Ok(s, {"logout"}) /\ Leave(s, None)
  BY <1>1, <1>2, <1>18, LeaveStep DEF Ok, r
<1>19. CASE Busy(s) /\ flight[s].op = "logout" /\ Leave(s, cookie)
  BY <1>1, <1>2, <1>19, LeaveStep DEF r
<1>. QED
  BY <1>7, <1>8, <1>9, <1>10, <1>11, <1>12, <1>13, <1>14, <1>15, <1>16, <1>17, <1>18, <1>19
     DEF Arrives

-----------------------------------------------------------------------------
(* The theorems *)

\* The page is loaded in a state of the invariant.
LEMMA TabStart ==
    ASSUME TabInit
    PROVE  TabInv
<1>1. /\ keys = 0 /\ secrets = 0 /\ known = {} /\ tab = Nobody /\ part = Blank /\ astray = FALSE
      /\ live = {t \in Tokens : owner[t] # None}
      /\ cookie = IF live = {} THEN None ELSE FirstToken
    BY DEF TabInit
<1>2. acct \in [Users -> Kinds] /\ \A u \in Users : ~acct[u].mfa /\ acct[u].secret = 0
  <2>1. ASSUME NEW st \in {"none", "pending", "active"}
        PROVE  Account(st) \in Kinds /\ ~Account(st).mfa /\ Account(st).secret = 0
    <3>1. NoAccount \in Kinds /\ ~NoAccount.mfa /\ NoAccount.secret = 0
      BY TabAssumption DEF NoAccount, Kinds
    <3>. QED
      BY <3>1 DEF Account, Kinds
  <2>2. NoAccount \in Kinds /\ ~NoAccount.mfa /\ NoAccount.secret = 0
    BY TabAssumption DEF NoAccount, Kinds
  <2>3. acct \in Accounts0
    BY DEF TabInit
  <2>. QED
    BY <2>1, <2>2, <2>3 DEF Accounts0
<1>3. /\ owner \in [Tokens -> Users \union {None}]
      /\ \A t \in Tokens : owner[t] # None => t = FirstToken /\ acct[owner[t]].status = "active"
    <2>1. \/ owner = [t \in Tokens |-> None]
          \/ \E u \in Users : Has(u, "active") /\ owner = [[t \in Tokens |-> None] EXCEPT ![FirstToken] = u]
      BY DEF TabInit
    <2>. QED
      BY <2>1 DEF Has
<1>4. cookie \in Tokens \union {None} /\ (cookie # None => owner[cookie] # None)
  BY <1>1, <1>3
<1>5. ServerInv /\ BrowserInv
  BY <1>1, <1>2, <1>3, <1>4, TabAssumption DEF ServerInv, BrowserInv
<1>6. PageInv /\ OwnInv
  <2>1. FirstFilter \in Filters
    BY TabAssumption DEF FirstFilter
  <2>2. part = Kept(part, tab)
    BY <1>1 DEF Kept, Blank, Nobody, Mounted, SignedIn
  <2>3. part.filter \in Filters /\ part.keys = 0 /\ part.own = 0
    BY <1>1, <2>1 DEF Blank
  <2>4. tab \in Pages
    BY <1>1 DEF Nobody, Pages
  <2>. QED
    BY <1>1, <2>2, <2>3, <2>4 DEF PageInv, OwnInv
<1>7. FlightOK(flight, owner, keys, secrets, known) /\ HereOK(flight, tab)
      /\ \A s \in Places : ~Enabling(flight[s])
  <2>. DEFINE q1 == Request("me", None, cookie)
              q2 == Request("needs", None, cookie)
  <2>1. flight = [s \in Places |-> IF s = FirstSlot THEN q1 ELSE IF s = SecondSlot THEN q2 ELSE None]
    BY DEF TabInit, Places
  <2>2. "me" \in TabOps /\ "needs" \in TabOps /\ None \in Arguments
    BY DEF TabOps, Arguments
  <2>3. /\ q1 \in Requests /\ q1.op = "me" /\ q1.state = "sent"
        /\ q2 \in Requests /\ q2.op = "needs" /\ q2.state = "sent"
    BY <1>4, <2>2, PlainForm
  <2>. HIDE DEF q1, q2
  <2>4. \A s \in Places : flight[s] \in Requests \union {None} /\ (flight[s] # None =>
            flight[s].op \in {"me", "needs"} /\ flight[s].state = "sent")
    BY <2>1, <2>3
  <2>5. FlightOK(flight, owner, keys, secrets, known)
    BY <2>1, <2>4 DEF FlightOK, Proper
  <2>6. Mounted(Sender("me"), tab) /\ Mounted(Sender("needs"), tab)
    BY <1>1 DEF Mounted, Sender, SignedIn, Nobody
  <2>. QED
    BY <2>4, <2>5, <2>6 DEF HereOK, Enabling
<1>8. IdentInv /\ FactorInv
  BY <1>1, <1>2, <1>7 DEF IdentInv, SignedIn, Nobody, FactorInv, SecondFactorKept
<1>. QED
  BY <1>5, <1>6, <1>7, <1>8 DEF TabInv

\* And every step keeps it.
LEMMA TabStep ==
    ASSUME TabInv, [TabNext]_tabVars
    PROVE  TabInv'
<1>1. CASE \E s \in Slots : Person(s)
    BY <1>1, PersonStep
<1>2. CASE SwitchView
    BY <1>2, SwitchStep
<1>3. CASE PollMonitor
  <2>1. PolledFilter \in Arguments
    BY DEF TabInv, PageInv, PolledFilter, Arguments
  <2>2. Shows(Sender("history")) /\ Poll("history", PolledFilter)
    BY <1>3 DEF PollMonitor, Sender
  <2>. QED
    BY <2>1, <2>2, PollStep
<1>4. CASE PollRequests
  <2>1. None \in Arguments /\ Shows(Sender("users")) /\ Poll("users", None)
    BY <1>4 DEF PollRequests, Sender, Arguments
  <2>. QED
    BY <2>1, PollStep
<1>5. CASE \E s \in Slots \union {Timer} : Serve(s) \/ Arrives(s)
    BY <1>5, ServeStep, ArriveStep DEF Places
<1>6. CASE Elsewhere
    BY <1>6, ElsewhereStep
<1>7. CASE UNCHANGED tabVars
    BY <1>7 DEF tabVars, server, history, TabInv, ServerInv, BrowserInv, PageInv, FlightOK, HereOK,
       IdentInv, FactorInv, SecondFactorKept, OwnInv, SignedIn, Shows
<1>8. CASE OtherTab
    BY <1>8, OtherTabStep
<1>. QED
    BY <1>1, <1>2, <1>3, <1>4, <1>5, <1>6, <1>7, <1>8 DEF TabNext

\* What holds in every state of the tab: the invariant of this part.
THEOREM TabHolds == TabSpec => []TabInv
BY TabStart, TabStep, PTL DEF TabSpec

\* The console and the service keep their types; among them that a live session has
\* a user, an answer that is not gone a part that is mounted, and a part that goes
\* away keeps nothing.  (App.jsx, storage.py)
THEOREM TabTypes == TabSpec => []TabTypeOK
<1>1. TabInv => TabTypeOK
  BY DEF TabInv, ServerInv, BrowserInv, PageInv, FlightOK, HereOK, TabTypeOK, Kinds, Pages, Places,
     Requests, Busy, Here, Shows
<1>. QED
  BY <1>1, TabHolds, PTL

\* The page shows whose session the browser has, once no /api/me is under way:
\* for any number of users, sessions and requests, unless the last /api/me failed or
\* came late or another tab has changed the session since.  (App.jsx:1177, loadMe)
THEOREM IdentityHolds == TabSpec => []IdentityShown
<1>1. TabInv => IdentityShown
  BY DEF TabInv, IdentInv, IdentityShown, Quiet, Busy, Places
<1>. QED
  BY <1>1, TabHolds, PTL

\* An enabled second factor has a secret that the person was shown, unless he was
\* enrolled when it was enabled, or enrolled or removed between the two transactions
\* of its activation.  (app.py:558, mfa_enroll; app.py:571-574, mfa_activate)
THEOREM SecondFactorHolds == TabSpec => []SecondFactorKept
<1>1. TabInv => SecondFactorKept
  BY DEF TabInv, FactorInv
<1>. QED
  BY <1>1, TabHolds, PTL

\* A list that is not polled has the changes made in it, once their answers are
\* there, unless an older answer came after a newer one.  (App.jsx:551)
THEOREM OwnChangesHold == TabSpec => []OwnChangesShown
<1>1. TabInv => OwnChangesShown
  BY DEF TabInv, OwnInv, OwnChangesShown, Quiet, Busy, Places, Coming
<1>. QED
  BY <1>1, TabHolds, PTL

===============================================================================

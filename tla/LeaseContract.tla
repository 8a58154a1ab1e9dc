---------------------------- MODULE LeaseContract ----------------------------
(***************************************************************************)
(* What a checkout lease promises, without threads, clock or audit log: a  *)
(* lease is opened once, may be closed at any time, expires only while it  *)
(* is open, and owes one alert when it expires.  The alert is given once.  *)
(* Alerts that are owed may be forgotten, because the code keeps them in   *)
(* memory only; one that was forgotten is never given later.               *)
(***************************************************************************)
EXTENDS Naturals

CONSTANT LeaseId

VARIABLES
    status,  \* how far each lease has come
    owed,    \* the leases whose alert is still to be given
    alerts   \* how many alerts each lease has caused

contractVars == <<status, owed, alerts>>

Statuses == {"none", "open", "expired", "closed"}

ContractInit ==
    /\ status = [l \in LeaseId |-> "none"]
    /\ owed = {}
    /\ alerts = [l \in LeaseId |-> 0]

Open(l) ==
    /\ status[l] = "none"
    /\ status' = [status EXCEPT ![l] = "open"]
    /\ UNCHANGED <<owed, alerts>>

Close(l) ==
    /\ status[l] # "none"
    /\ status' = [status EXCEPT ![l] = "closed"]
    /\ UNCHANGED <<owed, alerts>>

Expire(S) ==
    /\ \A l \in S : status[l] = "open"
    /\ status' = [l \in LeaseId |-> IF l \in S THEN "expired" ELSE status[l]]
    /\ owed' = owed \union S
    /\ UNCHANGED alerts

Alert(l) ==
    /\ l \in owed
    /\ owed' = owed \ {l}
    /\ alerts' = [alerts EXCEPT ![l] = @ + 1]
    /\ UNCHANGED status

Forget ==
    /\ owed' = {}
    /\ UNCHANGED <<status, alerts>>

ContractNext ==
    \/ \E l \in LeaseId : Open(l) \/ Close(l) \/ Alert(l)
    \/ \E S \in SUBSET LeaseId : Expire(S)
    \/ Forget

ContractSpec == ContractInit /\ [][ContractNext]_contractVars

=============================================================================

---------------------------- MODULE AccessLedger ----------------------------
(***************************************************************************)
(* What the server promises about the devices: one status per device that  *)
(* no crash takes back, a proof of possession that counts once, and        *)
(* requests admitted only while their device is active.                    *)
(***************************************************************************)
CONSTANTS Devices, Challenges, Requests

VARIABLES status,   \* the status of each device
          spent,    \* challenges that were answered, expired or lost
          admitted  \* the requests being served, with their devices

ledger == <<status, spent, admitted>>

Statuses == {"ABSENT", "PENDING", "ACTIVE", "SUSPENDED", "REVOKED"}

LedgerInit ==
  /\ status = [d \in Devices |-> "ABSENT"]
  /\ spent = {}
  /\ admitted = {}

\* The administrator enrols a device, or moves it anywhere but to active.
Decide(d) ==
  /\ \E s \in Statuses \ {"ABSENT"} :
       /\ status[d] = "ABSENT" => s = "PENDING"
       /\ s = "ACTIVE" => status[d] = "ACTIVE"
       /\ status' = [status EXCEPT ![d] = s]
  /\ UNCHANGED <<spent, admitted>>

\* The device answers a challenge.
Prove(d, c) ==
  /\ status[d] # "ABSENT"
  /\ c \notin spent
  /\ spent' = spent \cup {c}
  /\ status' = [status EXCEPT ![d] = "ACTIVE"]
  /\ UNCHANGED admitted

Admit(g, d) ==
  /\ status[d] = "ACTIVE"
  /\ admitted' = admitted \cup {<<g, d>>}
  /\ UNCHANGED <<status, spent>>

\* Requests end and challenges are lost, all of them when the server crashes.
Lose ==
  /\ spent \subseteq spent' /\ spent' \subseteq Challenges
  /\ admitted' \subseteq admitted
  /\ UNCHANGED status

LedgerNext ==
  \/ \E d \in Devices : \/ Decide(d)
                        \/ \E c \in Challenges : Prove(d, c)
                        \/ \E g \in Requests : Admit(g, d)
  \/ Lose

LedgerSpec == LedgerInit /\ [][LedgerNext]_ledger
=============================================================================

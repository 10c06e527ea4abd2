------------------------------ MODULE ExportQueue ------------------------------
(***************************************************************************)
(* What the follow-up export promises, without workers, leases or files:    *)
(* jobs close one at a time in the order of their creation and stay closed, *)
(* an order item gets at most one row in the workbook, and an order counts  *)
(* as shipped only once its row is there.                                  *)
(***************************************************************************)
EXTENDS Naturals

CONSTANTS Jobs, Items

VARIABLES
  state,     \* state[j]: "absent", "open" or how the job ended
  ledger,    \* ledger[i]: jobs that added a row for item i to the workbook
  shipped    \* items whose orders were closed by an export

queueVars == <<state, ledger, shipped>>

Outcomes == {"success", "skipped", "failed"}

(* No job created earlier is still open.                                   *)
Head(j) == state[j] = "open" /\ \A k \in Jobs : k < j => state[k] # "open"

QueueInit ==
  /\ state = [j \in Jobs |-> "absent"]
  /\ ledger = [i \in Items |-> {}]
  /\ shipped = {}

Enqueue(j) ==
  /\ state[j] = "absent"
  /\ state' = [state EXCEPT ![j] = "open"]
  /\ UNCHANGED <<ledger, shipped>>

(* The job in front adds rows, for items that have none.                   *)
Register(j) ==
  /\ Head(j)
  /\ \E S \in SUBSET {i \in Items : ledger[i] = {}} :
       ledger' = [i \in Items |-> IF i \in S THEN {j} ELSE ledger[i]]
  /\ UNCHANGED <<state, shipped>>

(* It ends; a success may ship registered items.                           *)
Close(j) ==
  /\ Head(j)
  /\ \E o \in Outcomes : state' = [state EXCEPT ![j] = o]
  /\ \E S \in SUBSET {i \in Items : ledger[i] # {}} :
       /\ shipped' = shipped \cup S
       /\ S # {} => state'[j] = "success"
  /\ UNCHANGED ledger

QueueNext == \E j \in Jobs : Enqueue(j) \/ Register(j) \/ Close(j)

QueueSpec == QueueInit /\ [][QueueNext]_queueVars
=============================================================================

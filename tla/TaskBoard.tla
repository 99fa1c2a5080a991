------------------------------ MODULE TaskBoard ------------------------------
(***************************************************************************)
(* What the task store promises (tasking/models.py, and the module doc     *)
(* "Auditable task contracts and state transitions"): a board of tasks     *)
(* where every call is one atomic step.  A task starts when its            *)
(* dependencies are accepted, is judged after it was submitted, and a      *)
(* judged or cancelled task never moves again.                             *)
(***************************************************************************)

CONSTANTS TaskId, Contract, NoState, NoContract

VARIABLES
  state,    \* NoState while there is no such task
  contract  \* what the task was created with

vars == <<state, contract>>

Init ==
  /\ state = [t \in TaskId |-> NoState]
  /\ contract = [t \in TaskId |-> NoContract]

Create(k) ==
  /\ state[k.id] = NoState
  /\ \A t \in TaskId : state[t] # NoState => contract[t].key # k.key
  /\ state' = [state EXCEPT ![k.id] = k.state]
  /\ contract' = [contract EXCEPT ![k.id] = k]

Move(t, from, to) ==
  /\ state[t] \in from
  /\ state' = [state EXCEPT ![t] = to]
  /\ UNCHANGED contract

Start(t) ==
  /\ Move(t, {"PENDING", "REVISE"}, "READY")
  /\ \A d \in contract[t].depends : state[d] = "ACCEPTED"

Run(t) == Move(t, {"READY"}, "RUNNING")

Report(t) == \E result \in {"SUBMITTED", "FAILED"} : Move(t, {"RUNNING"}, result)

Judge(t) == \E verdict \in {"ACCEPTED", "REVISE", "BLOCKED"} : Move(t, {"SUBMITTED"}, verdict)

Reconsider(t) == Move(t, {"BLOCKED", "FAILED"}, "REVISE")

Cancel(t) ==
  Move(t, {"PENDING", "READY", "RUNNING", "REVISE", "BLOCKED", "FAILED"}, "CANCELLED")

Next ==
  \/ \E t \in TaskId : Start(t) \/ Run(t) \/ Report(t) \/ Judge(t) \/ Reconsider(t) \/ Cancel(t)
  \/ \E t \in TaskId : state[t] = NoState /\ \E k \in Contract : k.id = t /\ Create(k)

Spec == Init /\ [][Next]_vars

==============================================================================

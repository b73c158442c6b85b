------------------------- MODULE SimulationContract -------------------------
(***************************************************************************)
(* What armillae-simulate promises of every backend, whatever happens      *)
(* inside it: a call is refused by the lifecycle or runs to exactly one    *)
(* outcome, the outcome is one the operation may return, and the outcome   *)
(* alone decides the next status.  InspectWorld closures hold a shared     *)
(* borrow, so they nest with each other and with ReadClock and exclude     *)
(* every other operation; each was admitted when it began.                 *)
(***************************************************************************)
EXTENDS SimulationProtocol, Naturals

VARIABLES
  status,  \* the lifecycle state
  last,    \* the last call that returned and its outcome
  open     \* the number of InspectWorld closures in progress

vars == <<status, last, open>>

Call(op, out) == [op |-> op, out |-> out]

Init ==
  /\ status = "Active"
  /\ last = Call("Stop", "None")
  /\ open = 0

\* Write operations and Stop take the simulation by exclusive borrow.
Borrowable(op) == op \in ReadOps \/ open = 0

Refuse(op) ==
  /\ Borrowable(op)
  /\ ~Admits(op, status)
  /\ last' = Call(op, Refusal(status))
  /\ UNCHANGED <<status, open>>

Complete(op, out) ==
  /\ op # "InspectWorld"
  /\ Borrowable(op)
  /\ Admits(op, status)
  /\ out \in {"Ok"} \cup Errors(op)
  /\ last' = Call(op, out)
  /\ status' = StatusAfter(op, out, status)
  /\ UNCHANGED open

BeginInspect ==
  /\ Admits("InspectWorld", status)
  /\ open' = open + 1
  /\ UNCHANGED <<status, last>>

EndInspect(out) ==
  /\ open > 0
  /\ out \in {"Ok"} \cup Errors("InspectWorld")
  /\ open' = open - 1
  /\ last' = Call("InspectWorld", out)
  /\ status' = StatusAfter("InspectWorld", out, status)

Next ==
  \/ \E op \in Operations : Refuse(op)
  \/ \E op \in Operations, out \in Outcomes : Complete(op, out)
  \/ BeginInspect
  \/ \E out \in Outcomes : EndInspect(out)

Spec == Init /\ [][Next]_vars
=============================================================================

------------------------- MODULE SimulationProtocol -------------------------
(***************************************************************************)
(* The vocabulary of the armillae-simulate control plane: the lifecycle    *)
(* states, the operations a caller may attempt, the errors an operation    *)
(* may return, and which of those errors prove that the working world is   *)
(* no longer consistent.  No state of its own: every backend model and the *)
(* abstract contract extend this module.                                   *)
(***************************************************************************)

Statuses == {"Active", "Stopped", "Faulted"}

ReadOps  == {"ReadClock", "InspectWorld"}
WriteOps == {"Execute", "InsertClock", "RemoveClock", "Advance", "WriteWorld"}
Operations == ReadOps \cup WriteOps \cup {"Stop"}

\* Errors that leave the world as it was and the status unchanged.
Benign == {"UnknownExecuteEntry", "InvalidExecuteInput", "UnknownClockType",
           "NativeClockTypeNotBound", "UnknownClockInstance",
           "DuplicateClockInstance", "InvalidClockValue", "ClockValueRejected",
           "InvalidAdvanceRequest", "InvalidClockStep", "ClockTransitionFailed"}

\* faults_simulation, and is_fatal of the Bevy adapter.
Fatal == {"UnexpectedExecuteOutput", "ExecuteOutputEncodingFailed",
          "MissingExecuteOutput", "ConflictingExecuteOutput",
          "InvalidExecuteOutput", "SystemFailed", "BackendFailure",
          "BackendPanicked"}

\* How a call is turned away because of the lifecycle.
Refusals == {"InvalidState", "Faulted"}
Refusal(st) == IF st = "Faulted" THEN "Faulted" ELSE "InvalidState"

Outcomes == {"Ok"} \cup Benign \cup Fatal \cup Refusals

\* Defect: a stopped simulation still removes clocks.
AdmitsRemoval(op, st) ==
  \/ st = "Active"
  \/ st = "Stopped" /\ op \in ReadOps \cup {"Stop", "RemoveClock"}

\* The status-operation matrix: may op start in status st?
Admits(op, st) ==
  \/ st = "Active"
  \/ st = "Stopped" /\ op \in ReadOps \cup {"Stop"}

\* The status once an admitted op has returned out.
StatusAfter(op, out, st) ==
  IF out \in Fatal THEN "Faulted"
  ELSE IF op = "Stop" /\ out = "Ok" THEN "Stopped"
  ELSE st

\* The errors, benign or fatal, an admitted operation may return.
ClockLookup == {"UnknownClockType", "NativeClockTypeNotBound"}
BackendFault == {"BackendFailure", "BackendPanicked"}
Errors(op) ==
  CASE op = "Execute" ->
         {"UnknownExecuteEntry", "InvalidExecuteInput"} \cup Fatal
    [] op \in {"ReadClock", "RemoveClock"} ->
         ClockLookup \cup BackendFault
           \cup {"UnknownClockInstance", "ClockValueRejected"}
    [] op = "InsertClock" ->
         ClockLookup \cup BackendFault
           \cup {"DuplicateClockInstance", "InvalidClockValue", "ClockValueRejected"}
    [] op = "Advance" ->
         ClockLookup \cup BackendFault
           \cup {"InvalidAdvanceRequest", "UnknownClockInstance", "InvalidClockStep",
                 "ClockTransitionFailed", "InvalidClockValue", "SystemFailed"}
    [] op = "WriteWorld" -> BackendFault
    [] op = "InspectWorld" -> {"BackendPanicked"}
    [] OTHER -> {}
=============================================================================

------------------------ MODULE ScriptedSimulationMC ------------------------
(***************************************************************************)
(* An instance of ScriptedSimulation for TLC: two methods with successes,  *)
(* a benign error and fatal ones, and a third that no reply answers.       *)
(***************************************************************************)
EXTENDS ScriptedSimulation

MCReplies ==
  {[op |-> "ReadClock", out |-> "Ok"], [op |-> "ReadClock", out |-> "BackendPanicked"],
   [op |-> "Execute", out |-> "Ok"], [op |-> "Execute", out |-> "UnknownExecuteEntry"],
   [op |-> "Execute", out |-> "SystemFailed"]}
=============================================================================

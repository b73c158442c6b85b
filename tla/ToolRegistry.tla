------------------------------ MODULE ToolRegistry ------------------------------
(***************************************************************************)
(* ToolRegistry of crates/armillae-tools: tools by name, executed while     *)
(* nothing changes the registry.  A tool is [name, version]: two tools may  *)
(* have one name.  Registering and unregistering take the registry by       *)
(* mutable reference, and an execution holds it by shared reference from    *)
(* its call to its end.                                                     *)
(***************************************************************************)
EXTENDS CompletionEvents

VARIABLES
  registered,  \* ToolRegistry.tools: the tool filed under each name
  running      \* executions: [call, at, tool]

registryVars == <<registered, running>>

NoTools == [name \in {} |-> Nil]

RegistryInit == registered = NoTools /\ running = {}

\* Defect: the new tool replaces the one of its name.
RegisterOver(tool) ==
  /\ running = {}
  /\ registered' = Put(registered, tool.name, tool)
  /\ UNCHANGED running

\* register_arc; a duplicate is refused.
Register(tool) ==
  /\ running = {}
  /\ tool.name \notin DOMAIN registered
  /\ registered' = Put(registered, tool.name, tool)
  /\ UNCHANGED running

RegisterDuplicate(tool) ==
  /\ running = {}
  /\ tool.name \in DOMAIN registered
  /\ UNCHANGED registryVars

Unregister(name) ==
  /\ running = {}
  /\ name \in DOMAIN registered
  /\ registered' = [n \in DOMAIN registered \ {name} |-> registered[n]]
  /\ UNCHANGED running

\* execute finds the tool of the call,
Execute(call, at) ==
  /\ call.name \in DOMAIN registered
  /\ running' = running \cup {[call |-> call, at |-> at, tool |-> registered[call.name]]}
  /\ UNCHANGED registered

\* or answers UnknownTool.
ExecuteUnknown(call) ==
  /\ call.name \notin DOMAIN registered
  /\ UNCHANGED registryVars

\* DynTool::call_json: the arguments may not parse, the tool may fail, its
\* output may not serialize.
ExecutionErrors == {"InvalidArguments", "ExecutionFailed", "OutputSerialization"}

\* Defect: the execution stays.
FinishKept(execution) ==
  /\ execution \in running
  /\ UNCHANGED registryVars

Finish(execution) ==
  /\ execution \in running
  /\ running' = running \ {execution}
  /\ UNCHANGED registered
=============================================================================

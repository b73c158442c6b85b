---------------------------- MODULE MockBridgeMC ----------------------------
(***************************************************************************)
(* Instances of MockBridge for TLC.                                        *)
(***************************************************************************)
EXTENDS MockBridge, TLC

CallerSymmetry == Permutations(Callers)

PlainRequest ==
  [thinking |-> "default", effort |-> "default", tools |-> FALSE, history |-> FALSE,
   choice |-> "unset", declared |-> FALSE, format |-> "text", schemaValid |-> TRUE, roles |-> {}]
Structured == [PlainRequest EXCEPT !.format = "native_strict_schema"]

\* What the bridge serves, refuses and cannot prepare; and tools in every place
\* a request may have them.
SomeRequests ==
  {PlainRequest, Structured, [Structured EXCEPT !.schemaValid = FALSE],
   [PlainRequest EXCEPT !.format = "json_object_schema_validation"],
   [PlainRequest EXCEPT !.thinking = "budget", !.roles = {"developer_message"}]}
    \cup {[PlainRequest EXCEPT !.tools = t, !.history = ~t, !.choice = c, !.declared = FALSE] :
            t \in BOOLEAN, c \in {"unset", "choice_specific"}}
    \cup {[PlainRequest EXCEPT !.tools = TRUE, !.choice = "choice_specific", !.declared = TRUE]}

\* Bridges that lack something; the last two are not valid.
ToolCapabilities == ChoiceModes \cup {"tool_calling", "parallel_tool_calls"}
SomeGrants ==
  {Capabilities, Capabilities \ {"native_strict_schema", "streaming"},
   Capabilities \ ToolCapabilities, {}, {"tool_calling"},
   {"json_object_schema_validation"}, Capabilities \ {"tool_calling"}}
=============================================================================

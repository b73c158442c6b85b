------------------------- MODULE BridgeCapabilities -------------------------
(***************************************************************************)
(* The local preflight of armillae-llm: may a bridge with these            *)
(* capabilities be sent this request?  A set of capabilities stands for    *)
(* BridgeCapabilities and the records in it; each flag is an element.      *)
(***************************************************************************)
EXTENDS Checks

ChoiceModes == {"choice_auto", "choice_none", "choice_required", "choice_specific"}
Formats == {"json_object", "json_schema", "native_strict_schema", "json_object_schema_validation"}
Thinking == {"enabled", "disabled", "adaptive", "budget"}
Efforts == {"none", "minimal", "low", "medium", "high", "xhigh", "max"}
Capabilities ==
  ChoiceModes \cup Formats \cup Thinking \cup Efforts
    \cup {"streaming", "tool_calling", "parallel_tool_calls", "system_message",
          "developer_message"}

\* What the preflight looks at in a CompletionRequest.  "default" stands for
\* None and ProviderDefault, "text" for no output format as well.
Request ==
  [thinking : Thinking \cup {"default"}, effort : Efforts \cup {"default"},
   tools : BOOLEAN,      \* does it define tools?
   history : BOOLEAN,    \* do its messages hold tool calls or results?
   choice : ChoiceModes \cup {"unset"},
   declared : BOOLEAN,   \* is the tool a specific choice names among the tools?
   format : Formats \cup {"text"},
   schemaValid : BOOLEAN, \* is the schema of a structured format acceptable?
   roles : SUBSET {"system_message", "developer_message"}]

\* BridgeCapabilities::validate.
CapabilitiesVerdict(caps) ==
  IF \/ "native_strict_schema" \in caps /\ "json_schema" \notin caps
     \/ "json_object_schema_validation" \in caps /\ "json_object" \notin caps
     \/ "tool_calling" \notin caps /\ caps \cap (ChoiceModes \cup {"parallel_tool_calls"}) # {}
  THEN "InvalidConfiguration" ELSE "Ok"

Needs(caps, used) == IF used \subseteq caps THEN "Ok" ELSE "UnsupportedCapability"

\* Defect: tools in the history of the conversation are forgotten.
UsesToolsNow(r) == r.tools \/ r.choice # "unset"

UsesTools(r) == r.tools \/ r.history \/ r.choice # "unset"

ChoiceVerdict(r) ==
  IF r.choice # "unset" /\ (~r.tools \/ (r.choice = "choice_specific" /\ ~r.declared))
  THEN "InvalidRequest" ELSE "Ok"

\* validate_request.
RequestVerdict(caps, r) ==
  FirstError(<<
    CapabilitiesVerdict(caps),
    Needs(caps, {r.thinking, r.effort} \ {"default"}),
    IF UsesTools(r) THEN Needs(caps, {"tool_calling"}) ELSE "Ok",
    ChoiceVerdict(r),
    Needs(caps, {r.choice} \ {"unset"}),
    Needs(caps, {r.format} \ {"text"}),
    Needs(caps, r.roles)>>)

\* validate_streaming_request.
StreamingVerdict(caps, r) ==
  FirstError(<<Needs(caps, {"streaming"}), RequestVerdict(caps, r)>>)

\* OutputValidation::prepare, for the structured formats.
PrepareVerdict(r) ==
  IF r.format \in {"native_strict_schema", "json_object_schema_validation"} /\ ~r.schemaValid
  THEN "InvalidOutputSchema" ELSE "Ok"
=============================================================================

----------------------------- MODULE RequestMapping -----------------------------
(***************************************************************************)
(* From a CompletionRequest to the request of one provider: the order of    *)
(* the checks of RigBridge::prepare (crates/armillae-llm-rig/src/bridge.rs), *)
(* the request mappers (request.rs), the reasoning controls (reasoning.rs)  *)
(* and the merging of the bridge's defaults (convert.rs).                   *)
(*                                                                         *)
(* A request is [messages, tools, choice, format, options, extensions].     *)
(* Tools are names; a choice is [mode, tool]; a format is [kind, named,     *)
(* schema, compiles, strict]; an option that is not set is Nil, and thinking *)
(* is [mode, tokens].                                                       *)
(***************************************************************************)
EXTENDS Projection, OutputSchemas, Providers

Requires(condition) == Asserts(condition, "InvalidRequest")
Supports(condition) == Asserts(condition, "UnsupportedCapability")

\* GenerationOptions.  A temperature is told apart from 1 only.
Options ==
  [temperature : {Nil} \cup Nat, max : {Nil} \cup Nat, stop : Seq(STRING),
   seed : {Nil} \cup Nat,
   thinking : {Nil} \cup [mode : Thinking \cup {"provider_default"}, tokens : Nat],
   effort : {Nil} \cup Efforts \cup {"provider_default"}]

NoOptions ==
  [temperature |-> Nil, max |-> Nil, stop |-> <<>>, seed |-> Nil,
   thinking |-> Nil, effort |-> Nil]

\* Defect: the thinking and the maximum of the defaults win over the request's.
MergeDefaultsFirst(defaults, own) ==
  [f \in DOMAIN own |->
     IF f = "stop" THEN (IF own.stop = <<>> THEN defaults.stop ELSE own.stop)
     ELSE IF f \in {"thinking", "max"} THEN Or(defaults[f], own[f])
     ELSE Or(own[f], defaults[f])]

\* merge_generation_options.
Merge(defaults, own) ==
  [f \in DOMAIN own |->
     IF f = "stop" THEN (IF own.stop = <<>> THEN defaults.stop ELSE own.stop)
     ELSE Or(own[f], defaults[f])]

\* What is asked of reasoning, if it is not left to the provider.
Mode(options) ==
  IF options.thinking = Nil \/ options.thinking.mode = "provider_default" THEN Nil
  ELSE options.thinking.mode
Effort(options) == IF options.effort = "provider_default" THEN Nil ELSE options.effort
Thinks(options) == Mode(options) \in {"enabled", "adaptive", "budget"}

Forced(choice) == choice # Nil /\ choice.mode \in {"choice_required", "choice_specific"}

\* reasoning::parameters: what it refuses,
AnthropicVerdict(model, o, choice) ==
  FirstError(<<
    Requires(Thinks(o) => o.temperature \in {Nil, 1} /\ ~Forced(choice)),
    Requires(~(/\ model = "claude-opus-5" /\ Mode(o) = "disabled"
               /\ Effort(o) \in {"xhigh", "max"})),
    Requires(Mode(o) = "budget" =>
               o.thinking.tokens >= 1024 /\ o.max # Nil /\ o.thinking.tokens < Or(o.max, 0))>>)

ControlsVerdict(provider, model, o, choice) ==
  FirstError(<<
    Needs(Reasoning(provider, model), {Mode(o), Effort(o)} \ {Nil}),
    Requires(~(Thinks(o) /\ Effort(o) = "none")),
    Requires(\/ provider = "anthropic" \/ Mode(o) # "disabled"
             \/ Effort(o) \in {Nil, "none"}),
    Requires(provider \in OpenAiLike /\ Mode(o) = "enabled" => Effort(o) # Nil),
    Requires(provider = "deepseek" /\ (Thinks(o) \/ Effort(o) # Nil) => o.temperature = Nil),
    IF provider = "anthropic" THEN AnthropicVerdict(model, o, choice) ELSE "Ok">>)

\* and the parameters it adds to the wire.  An object of at most one field, and
\* Map::extend.
Field(present, name, value) == [field \in (IF present THEN {name} ELSE {}) |-> value]

Extend(object, more) ==
  [name \in DOMAIN object \cup DOMAIN more |->
     IF name \in DOMAIN more THEN more[name] ELSE object[name]]

ThinkingType(provider, mode) ==
  IF provider = "minimax" /\ mode = "enabled" THEN "adaptive" ELSE mode

Thought(provider, o) ==
  Field(Mode(o) # Nil, "thinking",
        IF Mode(o) = "budget" THEN [type |-> "enabled", budget_tokens |-> o.thinking.tokens]
        ELSE [type |-> ThinkingType(provider, Mode(o))])

Controls(provider, o) ==
  CASE provider \in OpenAiLike ->
         Field(Mode(o) = "disabled" \/ Effort(o) # Nil, "reasoning_effort",
               IF Mode(o) = "disabled" THEN "none" ELSE Effort(o))
    [] provider \in {"deepseek", "moonshot", "minimax"} ->
         Extend(Thought(provider, o),
                Field(Effort(o) # Nil, "reasoning_effort", Effort(o)))
    [] provider = "anthropic" ->
         Extend(Thought(provider, o),
                Field(Effort(o) # Nil, "output_config", [effort |-> Effort(o)]))
    [] provider = "ollama" ->
         Field(Mode(o) # Nil \/ Effort(o) # Nil, "think",
               IF Effort(o) # Nil THEN Effort(o)
               ELSE IF Mode(o) = "enabled" THEN "true" ELSE "false")

-----------------------------------------------------------------------------
(* The output format. *)
\* request_parts: a structured format becomes one of the plain ones.
StructuredVerdict(format) ==
  Supports(format # Nil /\ format.kind = "native_strict_schema" => Native(format.schema))

PlainFormat(format) ==
  IF format = Nil THEN Nil
  ELSE CASE format.kind = "native_strict_schema" ->
              [format EXCEPT !.kind = "json_schema", !.strict = TRUE]
         [] format.kind = "json_object_schema_validation" ->
              [format EXCEPT !.kind = "json_object"]
         [] OTHER -> format

\* apply_anthropic_output_format, apply_ollama_output_format, apply_output_format.
AnthropicFormatVerdict(format) ==
  FirstError(<<Requires(format.named), Supports(format.strict),
               Requires(Anthropic(format.schema))>>)

OllamaFormatVerdict(format) ==
  FirstError(<<Requires(format.named), Requires(Root(format.schema).object),
               Supports(format.strict)>>)

OpenAiFormatVerdict(format) ==
  FirstError(<<Requires(format.named), Requires(Root(format.schema).object)>>)

SchemaVerdict(provider, format) ==
  CASE provider = "anthropic" -> AnthropicFormatVerdict(format)
    [] provider = "ollama" -> OllamaFormatVerdict(format)
    [] OTHER -> OpenAiFormatVerdict(format)

FormatVerdict(provider, format) ==
  IF format = Nil THEN "Ok"
  ELSE CASE format.kind = "json_schema" -> SchemaVerdict(provider, format)
         [] format.kind = "json_object" -> Supports(provider # "anthropic")
         [] OTHER -> "Ok"

\* The typed schema of the Rig request, or response_format among the parameters.
AnyObject ==
  {[path |-> <<>>, object |-> TRUE, keywords |-> {"type"}, types |-> {"object"},
    union |-> FALSE, properties |-> {}, required |-> <<>>, closed |-> FALSE,
    local |-> FALSE]}

TypedSchema(provider, format) ==
  IF format = Nil \/ provider \notin {"anthropic", "ollama"} THEN Nil
  ELSE CASE format.kind = "json_schema" -> format.schema
         [] format.kind = "json_object" -> AnyObject
         [] OTHER -> Nil

ResponseFormat(provider, format) ==
  Field(/\ format # Nil /\ format.kind \in {"json_schema", "json_object"}
        /\ provider \notin {"anthropic", "ollama"}, "response_format",
        IF format.kind = "json_object" THEN [type |-> "json_object"]
        ELSE [type |-> "json_schema", strict |-> format.strict, schema |-> format.schema])

-----------------------------------------------------------------------------
(* The mappers. *)
Systems(messages) == {i \in DOMAIN messages : messages[i].role = "System"}
Conversational(messages) == DOMAIN messages \ Systems(messages)

PartsOf(messages) == FlattenSeq([i \in DOMAIN messages |-> messages[i].content])

\* validate_anthropic_messages.
AnthropicMessages(messages) ==
  /\ \A i \in Systems(messages) : \A j \in Conversational(messages) : i < j
  /\ \A i \in DOMAIN messages : \A k \in DOMAIN messages[i].content :
       messages[i].content[k].kind = "ToolResult" => ~messages[i].content[k].isError
  /\ Conversational(messages) # {}

\* validate_ollama_tool_results.
OllamaMessages(messages) ==
  LET parts == PartsOf(messages)
      Called(k) == {parts[j].call.id : j \in {j \in 1..k - 1 : parts[j].kind = "ToolCall"}}
  IN  \A k \in DOMAIN parts :
        /\ parts[k].kind = "ToolCall" => parts[k].call.name # ""
        /\ parts[k].kind = "ToolResult" => parts[k].call \in Called(k)

\* What only the mapper of anthropic, or that of ollama, refuses.
AnthropicOptionsVerdict(o) ==
  FirstError(<<Supports(o.seed = Nil), Requires(o.max # Nil)>>)

OllamaChoiceVerdict(choice) == Supports(choice = Nil)

\* map_request, with the defaults already merged.
MapVerdict(provider, request, o) ==
  FirstError(<<
    CASE provider = "anthropic" -> Requires(AnthropicMessages(request.messages))
      [] provider = "ollama" -> Requires(OllamaMessages(request.messages))
      [] OTHER -> "Ok",
    ProjectionVerdict(provider, request.messages),
    StructuredVerdict(request.format),
    Requires(request.extensions = {}),
    CASE provider = "anthropic" -> AnthropicOptionsVerdict(o)
      [] provider = "ollama" -> OllamaChoiceVerdict(request.choice)
      [] OTHER -> "Ok",
    FormatVerdict(provider, PlainFormat(request.format))>>)

Mapped(provider, request, o) ==
  LET format == PlainFormat(request.format)
      stop == IF provider = "anthropic" THEN "stop_sequences" ELSE "stop"
  IN  [messages |-> MessagesToRig(provider, request.messages),
       tools |-> request.tools, choice |-> request.choice,
       temperature |-> o.temperature, max |-> o.max,
       schema |-> TypedSchema(provider, format),
       params |-> Extend(Extend(Field(o.stop # <<>>, stop, o.stop),
                                Field(o.seed # Nil, "seed", o.seed)),
                         ResponseFormat(provider, format))]

\* Defect: the schema stays where it was as well.
ApplyBeside(wire, controls) == [wire EXCEPT !.params = Extend(@, controls)]

\* reasoning::apply: the schema moves beside the effort, into one output_config.
Apply(wire, controls) ==
  IF "output_config" \in DOMAIN controls /\ wire.schema # Nil
  THEN LET placed == [effort |-> controls.output_config.effort,
                      format |-> [type |-> "json_schema", schema |-> wire.schema]]
       IN  [wire EXCEPT !.schema = Nil,
                        !.params = Extend(@, [controls EXCEPT !.output_config = placed])]
  ELSE [wire EXCEPT !.params = Extend(@, controls)]

-----------------------------------------------------------------------------
(* RigBridge. *)

Speaks(messages, role) == \E i \in DOMAIN messages : messages[i].role = role

\* What the preflight looks at.
View(request, o) ==
  [thinking |-> Or(Mode(o), "default"), effort |-> Or(Effort(o), "default"),
   tools |-> request.tools # {},
   history |-> \/ Speaks(request.messages, "Tool")
               \/ \E part \in Range(PartsOf(request.messages)) :
                    part.kind \in {"ToolCall", "ToolResult"},
   choice |-> IF request.choice = Nil THEN "unset" ELSE request.choice.mode,
   declared |-> request.choice # Nil => request.choice.tool \in request.tools,
   format |-> IF request.format = Nil THEN "text" ELSE request.format.kind,
   schemaValid |-> \/ request.format = Nil
                   \/ /\ request.format.named /\ request.format.compiles
                      /\ Root(request.format.schema).object,
   roles |-> (IF Speaks(request.messages, "System") THEN {"system_message"} ELSE {})
               \cup (IF Speaks(request.messages, "Developer") THEN {"developer_message"}
                     ELSE {})]

\* Defect: the defaults are not looked at.
NewVerdictLax(config) ==
  CapabilitiesVerdict(CapabilitiesOf(config.provider, config.model))

\* RigBridge::new, with its refusals of the configured defaults.
NewVerdict(config) ==
  FirstError(<<
    CapabilitiesVerdict(CapabilitiesOf(config.provider, config.model)),
    Configured(ControlsVerdict(config.provider, config.model, config.defaults, Nil) = "Ok")>>)

\* BridgeConfig to bridge: resolve_with, then the factory.
BuildVerdict(config) ==
  FirstError(<<ResolveVerdict(config), DriverVerdict(config), NewVerdict(config)>>)

\* OutputValidation::prepare and RigBridge::prepare.  That of stream asks for one
\* more capability, which every driver has.
BridgeVerdict(config, request) ==
  LET o == Merge(config.defaults, request.options)
      caps == CapabilitiesOf(config.provider, config.model)
      seen == View(request, o)
  IN  FirstError(<<
        PrepareVerdict(seen),
        RequestVerdict(caps, seen),
        ControlsVerdict(config.provider, config.model, o, request.choice),
        MapVerdict(config.provider, request, o)>>)

Wire(config, request) ==
  LET o == Merge(config.defaults, request.options)
  IN  Apply(Mapped(config.provider, request, o), Controls(config.provider, o))
=============================================================================

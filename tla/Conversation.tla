------------------------------ MODULE Conversation ------------------------------
(***************************************************************************)
(* A host that talks to models through Rig bridges and runs the tools they  *)
(* call: the flow of crates/armillae-llm-rig/examples/manual_tool_flow.rs.  *)
(* The host builds bridges from configurations, keeps one canonical         *)
(* history, sends it through any of its bridges, appends what is answered,  *)
(* executes the calls of the answer in any order, and sends again once all  *)
(* of them have results.  Calls to a bridge are made one at a time.         *)
(*                                                                         *)
(* Each behaviour is one of the Sessions, by name: a record of what may be  *)
(* configured, said, asked, answered, and gone wrong in it.                 *)
(***************************************************************************)
EXTENDS RequestMapping, ErrorClassification, ToolRegistry

CONSTANT Sessions

\* The bounds of a session: bridges built, messages said, messages to send.
ASSUME ConversationAssumption ==
  \A name \in DOMAIN Sessions :
    {Sessions[name].bridges, Sessions[name].opening, Sessions[name].length} \subseteq Nat

ASSUME OptionsAssumption ==
  /\ Nil \notin Thinking \cup Efforts
  /\ \A name \in DOMAIN Sessions :
       /\ \A config \in Sessions[name].configs : config.defaults \in Options
       /\ \A asked \in Sessions[name].requests : asked.options \in Options

\* What is asked for as an output format, if anything: a schema is a document.
Format ==
  [kind : Formats, named : BOOLEAN, schema : SUBSET Subschema, compiles : BOOLEAN,
   strict : BOOLEAN]
ASSUME FormatAssumption ==
  /\ Nil \notin Format
  /\ \A name \in DOMAIN Sessions : \A asked \in Sessions[name].requests :
       asked.format # Nil =>
         asked.format \in Format /\ asked.format.schema # Nil /\ Document(asked.format.schema)

\* What is said and answered: parts of the kinds there are.  No said result is one
\* of a call of this conversation, and only calls have metadata to be replayed.
Roles == {"System", "Developer", "User", "Assistant", "Tool"}

IsPart(part) ==
  \/ part.kind = "Text" /\ part = TextContent(part.text)
  \/ part.kind = "ToolCall" /\ part = ToolContent(part.call)
  \/ /\ part.kind = "ToolResult"
     /\ part = ResultPart(part.call, part.value, part.isError, Nil)
  \/ /\ part.kind = "ProviderData"
     /\ part = [kind |-> "ProviderData", provider |-> part.provider, data |-> part.data,
                value |-> part.value]
     /\ part.data = "tool_call_metadata" => part.value # Nil

IsMessage(message) ==
  /\ message = Message(message.role, message.content) /\ message.role \in Roles
  /\ message.content \in Seq(Range(message.content))
  /\ \A part \in Range(message.content) : IsPart(part)

IsRigPart(part) ==
  \/ part.type = "Text" /\ part = RigText(part.text, part.meta) /\ part.meta \in BOOLEAN
  \/ part.type = "ToolCall" /\ part = RigCall(part.call, part.meta)
  \/ part.type = "Reasoning" /\ part = RigReasoning(part.reasoning)
  \/ part.type = "Image" /\ part = RigImage(part.image)

ASSUME MessagesAssumption ==
  \A name \in DOMAIN Sessions :
    /\ \A message \in Sessions[name].messages : IsMessage(message)
    /\ \A raw \in Sessions[name].answers :
         /\ raw.choice \in Seq(Range(raw.choice))
         /\ \A part \in Range(raw.choice) : IsRigPart(part)

\* What can go wrong: only an HTTP error has causes to read.
Status == {Nil} \cup Nat
CauseSet == [layer : STRING, kind : STRING, status : Status, timeout : BOOLEAN, os : {Nil} \cup Int]
ErrorSet == [variant : STRING, status : Status, http : {Nil} \cup STRING, chain : Seq(CauseSet)]

ASSUME ErrorsAssumption ==
  \A name \in DOMAIN Sessions : \A error \in Sessions[name].errors :
    error \in ErrorSet /\ (error.http = "Instance" => error.variant = "HttpError")

VARIABLES
  session,    \* what may happen; never changes
  bridges,    \* the configurations bridges were built from
  history,    \* the canonical messages
  call,       \* the call in flight, or Nil: its bridge, request, wire and report
  answer,     \* the verdict of the last operation
  failure,    \* the last failure of a call, as Rig reported it and as the host sees it
  offered,    \* history: the tools as the last request that was sent offered them
  withdrawn   \* history: the names unregistered since

vars == <<session, bridges, history, call, answer, failure, offered, withdrawn, registryVars>>

Init ==
  /\ session \in DOMAIN Sessions
  /\ bridges = {} /\ history = <<>> /\ call = Nil
  /\ answer = "Ok" /\ failure = Nil
  /\ offered = NoTools /\ withdrawn = {}
  /\ RegistryInit

Here == Sessions[session]

-----------------------------------------------------------------------------
(* Bridges.                                                                *)

\* resolve_with and RigBridgeFactory::create.
Build(config) ==
  /\ Cardinality(bridges) < Here.bridges
  /\ answer' = BuildVerdict(config)
  /\ bridges' = IF answer' = "Ok" THEN bridges \cup {config} ELSE bridges
  /\ UNCHANGED <<session, history, call, failure, offered, withdrawn, registryVars>>

\* The calls of the history that have no result, by location.
Unanswered ==
  {at \in Range(Locations(history)) :
     /\ PartAt(history, at).kind = "ToolCall"
     /\ \A other \in Range(Locations(history)) :
          PartAt(history, other).kind = "ToolResult" =>
            PartAt(history, other).answers # at}

HostFree == call = Nil /\ Unanswered = {}

Say(message) ==
  /\ HostFree /\ Len(history) < Here.opening
  /\ history' = Append(history, message)
  /\ answer' = "Ok"
  /\ UNCHANGED <<session, bridges, call, failure, offered, withdrawn, registryVars>>

RequestOf(asked) ==
  [messages |-> history, tools |-> DOMAIN registered, choice |-> asked.choice,
   format |-> asked.format, options |-> asked.options, extensions |-> asked.extensions]

\* complete, up to the provider; project is the same without the call.
Send(config, asked) ==
  /\ HostFree /\ Len(history) <= Here.length
  /\ LET request == RequestOf(asked)
     IN  /\ answer' = BridgeVerdict(config, request)
         /\ IF answer' = "Ok"
            THEN /\ call' = [bridge |-> config, request |-> request,
                             wire |-> Wire(config, request),
                             report |-> Facts(config.provider, history)]
                 /\ offered' = registered /\ withdrawn' = {}
            ELSE UNCHANGED <<call, offered, withdrawn>>
  /\ UNCHANGED <<session, bridges, history, failure, registryVars>>

\* The checks of the normalizers, on what a response says of itself.  complete:
\* it has a choice, or says that it is done.
Blank(text) == text \in {Nil, ""}

OpenAiFacts(raw) == ~Blank(raw.id) /\ ~Blank(raw.model) /\ raw.complete
AnthropicFacts(raw) == ~Blank(raw.id) /\ ~Blank(raw.model) /\ raw.role = "assistant"
DeepSeekFacts(raw) == "" \notin {raw.id, raw.model} /\ raw.complete
OllamaFacts(raw) == ~Blank(raw.model) /\ raw.complete

\* assistant_content_from_rig, tool_call_id_from_rig.
Identified(raw) ==
  \A k \in DOMAIN raw.choice :
    raw.choice[k].type = "ToolCall" => ~Blank(raw.choice[k].call.id)

NormalizeVerdict(provider, raw) ==
  Asserts(/\ CASE provider = "anthropic" -> AnthropicFacts(raw)
               [] provider = "deepseek" -> DeepSeekFacts(raw)
               [] provider = "ollama" -> OllamaFacts(raw)
               [] OTHER -> OpenAiFacts(raw)
          /\ provider # "ollama" => Identified(raw),
          "InvalidProviderResponse")

\* OllamaResponseNormalizer::normalize_content.
Numbered(content) ==
  LET Count(k) == Cardinality({j \in 1..k : content[j].kind = "ToolCall"})
  IN  [k \in DOMAIN content |->
         IF content[k].kind # "ToolCall" THEN content[k]
         ELSE [content[k] EXCEPT !.call.id = "ollama-call-" \o ToString(Count(k))]]

\* response_from_rig, and the marking of what is the provider's own.
ResponseContent(provider, raw) ==
  LET content == AssistantContentFromRig(raw.choice)
      normal == IF provider = "ollama" THEN Numbered(content) ELSE content
  IN  [k \in DOMAIN normal |-> OwnedPart(provider, normal[k])]

\* OutputValidation::validate.  Json gives the value of a text, if it has one.
ValidateVerdict(format, content, finish) ==
  IF \/ format = Nil
     \/ format.kind \notin {"native_strict_schema", "json_object_schema_validation"}
     \/ /\ \A k \in DOMAIN content : content[k].kind # "ToolCall"
        /\ finish \in {Nil, "stop"}
        /\ Parsed(TextOf(content)) = "conforming"
  THEN "Ok" ELSE "StructuredOutput"

\* The rest of complete, and as_assistant_message into the history.  raw.from are
\* the providers that answer so.
Respond(raw) ==
  /\ call # Nil /\ call.bridge.provider \in raw.from
  /\ LET provider == call.bridge.provider
         content == ResponseContent(provider, raw)
     IN  /\ answer' = FirstError(<<NormalizeVerdict(provider, raw),
                                   ValidateVerdict(call.request.format, content, raw.finish)>>)
         /\ history' = IF answer' = "Ok" THEN Append(history, Message("Assistant", content))
                       ELSE history
  /\ call' = Nil
  /\ UNCHANGED <<session, bridges, failure, offered, withdrawn, registryVars>>

\* The provider, or the way to it, fails.
Fail(error) ==
  /\ call # Nil
  /\ failure' = [of |-> error, as |-> NormalizeError(error)]
  /\ answer' = failure'.as.category
  /\ call' = Nil
  /\ UNCHANGED <<session, bridges, history, offered, withdrawn, registryVars>>

\* The host drops the future of the call.
Cancel ==
  /\ call # Nil
  /\ call' = Nil /\ answer' = "Ok"
  /\ UNCHANGED <<session, bridges, history, failure, offered, withdrawn, registryVars>>

-----------------------------------------------------------------------------
(* Tools.                                                                  *)

Result(at, value, isError) ==
  Message("Tool", <<ResultPart(PartAt(history, at).call.id, value, isError, at)>>)

Executing == {execution.at : execution \in running}

StartTool(at) ==
  /\ at \in Unanswered \ Executing
  /\ Execute(PartAt(history, at).call, at)
  /\ answer' = "Ok"
  /\ UNCHANGED <<session, bridges, history, call, failure, offered, withdrawn>>

\* The host gives the model an error as a result, marked as one or not.
UnknownTool(at, isError) ==
  /\ at \in Unanswered \ Executing
  /\ ExecuteUnknown(PartAt(history, at).call)
  /\ answer' = "UnknownTool"
  /\ history' = Append(history, Result(at, "error", isError))
  /\ UNCHANGED <<session, bridges, call, failure, offered, withdrawn>>

FinishTool(execution) ==
  /\ Finish(execution)
  /\ history' = Append(history, Result(execution.at, "value", FALSE))
  /\ answer' = "Ok"
  /\ UNCHANGED <<session, bridges, call, failure, offered, withdrawn>>

FailTool(execution, error, isError) ==
  /\ Finish(execution)
  /\ answer' = error
  /\ history' = Append(history, Result(execution.at, "error", isError))
  /\ UNCHANGED <<session, bridges, call, failure, offered, withdrawn>>

RegisterTool(tool) ==
  /\ Register(tool)
  /\ answer' = "Ok"
  /\ UNCHANGED <<session, bridges, history, call, failure, offered, withdrawn>>

RefuseTool(tool) ==
  /\ RegisterDuplicate(tool)
  /\ answer' = "DuplicateTool"
  /\ UNCHANGED <<session, bridges, history, call, failure, offered, withdrawn>>

UnregisterTool(name) ==
  /\ Unregister(name)
  /\ withdrawn' = withdrawn \cup {name}
  /\ answer' = "Ok"
  /\ UNCHANGED <<session, bridges, history, call, failure, offered>>

-----------------------------------------------------------------------------
Next ==
  \/ \E config \in Here.configs : Build(config)
  \/ \E message \in Here.messages : Say(message)
  \/ \E config \in bridges, asked \in Here.requests : Send(config, asked)
  \/ \E raw \in Here.answers : Respond(raw)
  \/ \E error \in Here.errors : Fail(error)
  \/ Cancel
  \/ \E at \in Unanswered : StartTool(at)
  \/ \E at \in Unanswered, isError \in BOOLEAN : UnknownTool(at, isError)
  \/ \E execution \in running : FinishTool(execution)
  \/ \E execution \in running, error \in ExecutionErrors, isError \in BOOLEAN :
       FailTool(execution, error, isError)
  \/ \E tool \in Here.tools : RegisterTool(tool) \/ RefuseTool(tool)
  \/ \E name \in DOMAIN registered : UnregisterTool(name)

Spec == Init /\ [][Next]_vars

-----------------------------------------------------------------------------
(* Correctness.                                                            *)

\* BridgeError (complete is neither Cancelled nor StreamInterrupted by itself),
\* ToolExecutionError and ToolRegistryError.
BridgeErrors ==
  {"InvalidOutputSchema", "StructuredOutput", "InvalidConfiguration", "UnsupportedCapability",
   "InvalidRequest", "ProjectionIncompatible", "Authentication", "PermissionDenied",
   "RateLimited", "Timeout", "Transport", "ProviderRejected", "InvalidProviderResponse"}
Verdicts == {"Ok", "UnknownTool", "DuplicateTool"} \cup BridgeErrors \cup ExecutionErrors

\* What is executing is a call without a result, and a tool is filed under its
\* own name: a registry cannot be left with an execution that has ended.
TypeOK ==
  /\ session \in DOMAIN Sessions
  /\ bridges \subseteq Here.configs
  /\ \A i \in DOMAIN history : history[i].role \in Roles
  /\ call = Nil \/ (call.bridge \in bridges /\ call.request.messages = history)
  /\ answer \in Verdicts
  /\ \A name \in DOMAIN registered : registered[name].name = name
  /\ Executing \subseteq Unanswered

\* Translated back, the messages on the wire are the canonical history without
\* the parts the report names: nothing is dropped in silence, nothing of
\* another provider is sent, nothing is sent twice, and the order is kept
\* (messages_to_rig, record_not_forwarded).  A host that gives one call metadata
\* twice has said otherwise: the newer takes the place of the older.
Canonical(part) ==
  CASE IsData(part) -> DataContent(part.data, part.value)
    [] part.kind = "ToolResult" -> [kind |-> "ToolResult", call |-> part.call, value |-> part.value]
    [] OTHER -> part

Recovered(part) ==
  CASE part.type = "ToolResult" ->
         <<[kind |-> "ToolResult", call |-> part.call, value |-> part.value]>>
    [] part.type = "Reasoning" -> <<DataContent("reasoning", part.reasoning)>>
    [] OTHER -> FromRig(part)

IsMetadata(part) == IsData(part) /\ part.data = "tool_call_metadata"

MetadataOnce(target, message) ==
  LET parts == Forwarded(target, message.content)
  IN  \A k \in 2..Len(parts) : ~(IsMetadata(parts[k - 1]) /\ IsMetadata(parts[k]))

SaidOnce(target) ==
  \A message \in Here.messages : message.role = "Assistant" => MetadataOnce(target, message)

ReportComplete ==
  call # Nil /\ SaidOnce(call.bridge.provider) =>
    LET places == Locations(history)
        kept == Only(places, Range(places) \ Range(call.report))
        sent == PartsOf(call.wire.messages)
    IN  FlattenSeq([k \in DOMAIN sent |-> Recovered(sent[k])])
          = [k \in DOMAIN kept |-> Canonical(PartAt(history, kept[k]))]

\* Whatever ids the calls of the conversation have, a result on the wire has
\* the name and the provider's identity of the call the host answered with it
\* (messages_to_rig: calls are found by id, and ids repeat between responses),
\* if no other call of its own message has that id.
Alone(at) ==
  LET content == history[at[1]].content
  IN  \A k \in DOMAIN content \ {at[2]} :
        content[k].kind = "ToolCall" => content[k].call.id # PartAt(history, at).call.id

MetadataAt(target, at) ==
  LET parts == Forwarded(target, history[at[1]].content)
      after == {k \in 2..Len(parts) : parts[k - 1] = PartAt(history, at) /\ IsMetadata(parts[k])}
  IN  IF after = {} THEN Nil ELSE parts[CHOOSE k \in after : TRUE].value

IdentityAt(target, at) ==
  LET id == PartAt(history, at).call.id
      meta == MetadataAt(target, at)
  IN  IF meta # Nil /\ "call_id" \in DOMAIN meta THEN <<meta.call_id, id>> ELSE <<id>>

ResultsNameTheirCalls ==
  call # Nil /\ SaidOnce(call.bridge.provider) =>
    \A part \in Range(PartsOf(call.wire.messages)) :
      part.type = "ToolResult" /\ part.answers # Nil /\ Alone(part.answers) =>
        /\ part.name = PartAt(history, part.answers).call.name
        /\ part.identity = IdentityAt(call.bridge.provider, part.answers)

\* A conversation never gets stuck: every bridge that could be built takes a
\* plain request on every sound history, whoever answered before and whatever
\* its defaults are.  What is sound for a provider: system messages first and
\* no results marked as errors for anthropic, names and calls of all results for
\* ollama, no reasoning or metadata of its own that cannot be sent back, and
\* metadata behind its call where the host says it: what was answered has it there
\* (armillae-llm-rig: project, prepare, RigBridge::new).
Spoken(role) ==
  CASE role = "System" -> {"Text", "ProviderData"}
    [] role = "User" -> {"Text", "ToolResult", "ProviderData"}
    [] role = "Assistant" -> {"Text", "ToolCall", "ProviderData"}
    [] role = "Tool" -> {"ToolResult", "ProviderData"}
    [] role = "Developer" -> {}

SoundPart(provider, m, k) ==
  LET part == m.content[k]
  IN  /\ part.kind \in Spoken(m.role)
      /\ part.kind = "ToolResult" => part.value # Nil
      /\ provider = "ollama" =>
           /\ part.kind = "ToolCall" => part.call.name # ""
           /\ part.kind = "ToolResult" => part.answers # Nil
      /\ IsData(part) /\ ~NotForwarded(provider, part) =>
           /\ m.role = "Assistant"
           /\ part.data = "reasoning" => Replayable(Keeps(provider), part.value)
           /\ IsMetadata(part) => WellFormedMetadata(part.value)
           /\ IsMetadata(part) /\ m \in Here.messages =>
                k > 1 /\ m.content[k - 1].kind = "ToolCall"

Sound(provider) ==
  /\ \A i \in DOMAIN history :
       /\ history[i].content # <<>>
       /\ \A k \in DOMAIN history[i].content : SoundPart(provider, history[i], k)
  /\ \E part \in Range(PartsOf(history)) : ~IsData(part)
  /\ provider = "anthropic" => AnthropicMessages(history)

PlainRequest ==
  RequestOf([choice |-> Nil, format |-> Nil, options |-> NoOptions, extensions |-> {}])

NoDeadEnd ==
  \A config \in bridges :
    Sound(config.provider) /\ (config.provider = "anthropic" => config.defaults.max # Nil)
      => BridgeVerdict(config, PlainRequest) = "Ok"

\* What the host asked of generation is what the wire says, in the provider's
\* own parameters: an option of the request as set, one it leaves open as the
\* defaults say, thinking on or off as asked, the effort as asked, and no
\* control nobody asked for; a budget stays below the maximum that is sent
\* (merge_generation_options, reasoning::parameters, apply).
Wanted(option) == Or(call.request.options[option], call.bridge.defaults[option])

Heard(provider, params) ==
  LET field == CASE provider \in OpenAiLike -> "reasoning_effort"
                 [] provider = "ollama" -> "think"
                 [] OTHER -> "thinking"
      off == CASE provider \in OpenAiLike -> "none"
               [] provider = "ollama" -> "false"
               [] OTHER -> [type |-> "disabled"]
  IN  IF field \notin DOMAIN params THEN "nothing"
      ELSE IF params[field] = off THEN "off" ELSE "on"

EffortHeard(provider, params) ==
  CASE provider = "anthropic" ->
         IF "output_config" \in DOMAIN params THEN params.output_config.effort ELSE Nil
    [] provider = "ollama" -> IF "think" \in DOMAIN params THEN params.think ELSE Nil
    [] OTHER -> IF "reasoning_effort" \in DOMAIN params THEN params.reasoning_effort ELSE Nil

ControlsSurvive ==
  call # Nil =>
    LET provider == call.bridge.provider
        params == call.wire.params
        thinking == Wanted("thinking")
        mode == IF thinking = Nil \/ thinking.mode = "provider_default" THEN Nil
                ELSE thinking.mode
        effort == IF Wanted("effort") = "provider_default" THEN Nil ELSE Wanted("effort")
        stop == IF provider = "anthropic" THEN "stop_sequences" ELSE "stop"
    IN  /\ call.wire.temperature = Wanted("temperature")
        /\ call.wire.max = Wanted("max")
        /\ Wanted("seed") # Nil => params.seed = Wanted("seed")
        /\ call.request.options.stop # <<>> => params[stop] = call.request.options.stop
        /\ mode = "disabled" => Heard(provider, params) = "off"
        /\ mode \in {"enabled", "adaptive", "budget"} => Heard(provider, params) = "on"
        /\ effort # Nil => EffortHeard(provider, params) = effort
        /\ mode = Nil /\ effort = Nil =>
             /\ Heard(provider, params) = "nothing"
             /\ EffortHeard(provider, params) = Nil
        /\ mode = "budget" =>
             params.thinking.budget_tokens = thinking.tokens /\ thinking.tokens < call.wire.max

\* A schema asked for with native strictness reaches the provider, once: it is
\* never refused for its keywords by the stricter rules of a mapper, and no
\* second copy of it, or of the object that holds it, is sent
\* (validate_native_structured_schema, validate_anthropic_schema, apply).
Strict(format) == format # Nil /\ format.kind = "native_strict_schema"

SchemasOn(wire) ==
  (IF wire.schema = Nil THEN <<>> ELSE <<wire.schema>>)
    \o (IF "response_format" \in DOMAIN wire.params
        THEN <<wire.params.response_format.schema>> ELSE <<>>)
    \o (IF "output_config" \in DOMAIN wire.params
           /\ "format" \in DOMAIN wire.params.output_config
        THEN <<wire.params.output_config.format.schema>> ELSE <<>>)

StrictSchemaArrives ==
  /\ call # Nil /\ Strict(call.request.format) =>
       /\ SchemasOn(call.wire) = <<call.request.format.schema>>
       /\ ~(call.wire.schema # Nil /\ "output_config" \in DOMAIN call.wire.params)
  /\ \A config \in bridges, asked \in Here.requests :
       Strict(asked.format) /\ asked.format.named /\ Native(asked.format.schema) =>
         FormatVerdict(config.provider, PlainFormat(asked.format)) = "Ok"

\* The tool that runs for a call is the one that was offered under its name
\* when the conversation was sent, unless the host has taken that one out since
\* (register_arc, execute).
DispatchSound ==
  \A execution \in running :
    LET name == execution.call.name
    IN  name \in DOMAIN offered \ withdrawn => execution.tool = offered[name]

\* How an error is wrapped does not change what the host is told of it, and a
\* timeout anywhere in the chain is one, unless there is a status to go by
\* (classify_http_error).
Wraps(cause) == cause.layer \notin {"reqwest", "io"}

TimesOut(cause) ==
  \/ cause.layer = "reqwest" /\ cause.timeout
  \/ cause.layer = "io" /\ cause.kind = "TimedOut"

CauseDecides ==
  failure # Nil /\ Len(failure.of.chain) <= ChainLimit =>
    /\ failure.as =
         NormalizeError([failure.of EXCEPT !.chain = Only(@, {c \in Range(@) : ~Wraps(c)})])
    /\ /\ failure.of.http = "Instance" /\ failure.as.status = Nil
       /\ \E k \in DOMAIN failure.of.chain : TimesOut(failure.of.chain[k])
       => failure.as.category = "Timeout"

\* Ids a bridge makes up are unique in the history they end up in: the rule of
\* .agents/specs/llm-bridge.md for calls the provider gives no id.
MadeUp(id) == \E k \in 1..Len(PartsOf(history)) : id = "ollama-call-" \o ToString(k)

IdsUniqueInHistory ==
  \A at, other \in {at \in Range(Locations(history)) :
                      /\ PartAt(history, at).kind = "ToolCall"
                      /\ MadeUp(PartAt(history, at).call.id)} :
    PartAt(history, at).call.id = PartAt(history, other).call.id => at = other
=============================================================================

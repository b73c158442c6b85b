------------------------- MODULE Conversation_proofs -------------------------
(***************************************************************************)
(* Theorems about Conversation, for every set of sessions: any configured  *)
(* bridges, messages, requests, answers, errors and tools.                 *)
(***************************************************************************)
EXTENDS Conversation, SequenceFacts, FiniteSetTheorems, TLAPS

-----------------------------------------------------------------------------
(* Tools *)

\* What was offered and not taken out is still registered as it was, and every
\* execution holds the tool its name has now: the registry cannot change below
\* an execution, and a name in use is not given away.
ToolsInv ==
  /\ \A name \in DOMAIN offered \ withdrawn :
       name \in DOMAIN registered /\ registered[name] = offered[name]
  /\ \A execution \in running :
       /\ execution.call.name \in DOMAIN registered
       /\ execution.tool = registered[execution.call.name]

LEMMA ToolsInit == Init => ToolsInv
  BY DEF Init, RegistryInit, NoTools, ToolsInv

LEMMA ToolsStep == ToolsInv /\ [Next]_vars => ToolsInv'
  <1> SUFFICES ASSUME ToolsInv, [Next]_vars PROVE ToolsInv'
    OBVIOUS
  <1> USE DEF ToolsInv
  <1>1. ASSUME UNCHANGED <<offered, withdrawn, registryVars>> PROVE ToolsInv'
    BY <1>1 DEF registryVars
  <1>2. ASSUME NEW config, Build(config) PROVE ToolsInv'
    BY <1>1, <1>2 DEF Build
  <1>3. ASSUME NEW message, Say(message) PROVE ToolsInv'
    BY <1>1, <1>3 DEF Say
  <1>4. ASSUME NEW config, NEW asked, Send(config, asked) PROVE ToolsInv'
    <2>1. /\ UNCHANGED registryVars
          /\ \/ offered' = registered /\ withdrawn' = {}
             \/ UNCHANGED <<offered, withdrawn>>
      BY <1>4 DEF Send
    <2> QED BY <2>1 DEF registryVars
  <1>5. ASSUME NEW raw, Respond(raw) PROVE ToolsInv'
    BY <1>1, <1>5 DEF Respond
  <1>6. ASSUME NEW error, Fail(error) PROVE ToolsInv'
    BY <1>1, <1>6 DEF Fail
  <1>7. CASE Cancel
    BY <1>1, <1>7 DEF Cancel
  <1>8. ASSUME NEW at, StartTool(at) PROVE ToolsInv'
    <2>1. /\ UNCHANGED <<registered, offered, withdrawn>>
          /\ PartAt(history, at).call.name \in DOMAIN registered
          /\ running' = running \cup
               {[call |-> PartAt(history, at).call, at |-> at,
                 tool |-> registered[PartAt(history, at).call.name]]}
      BY <1>8 DEF StartTool, Execute
    <2> QED BY <2>1
  <1>9. ASSUME NEW at, NEW isError, UnknownTool(at, isError) PROVE ToolsInv'
    BY <1>1, <1>9 DEF UnknownTool, ExecuteUnknown
  <1>10. ASSUME NEW execution, Finish(execution), UNCHANGED <<offered, withdrawn>>
         PROVE  ToolsInv'
    BY <1>10 DEF Finish
  <1>11. ASSUME NEW execution, FinishTool(execution) PROVE ToolsInv'
    BY <1>10, <1>11 DEF FinishTool
  <1>12. ASSUME NEW execution, NEW error, NEW isError, FailTool(execution, error, isError)
         PROVE  ToolsInv'
    BY <1>10, <1>12 DEF FailTool
  <1>13. ASSUME NEW tool, RegisterTool(tool) PROVE ToolsInv'
    BY <1>13 DEF RegisterTool, Register, Put
  <1>14. ASSUME NEW tool, RefuseTool(tool) PROVE ToolsInv'
    BY <1>1, <1>14 DEF RefuseTool, RegisterDuplicate
  <1>15. ASSUME NEW name, UnregisterTool(name) PROVE ToolsInv'
    BY <1>15 DEF UnregisterTool, Unregister
  <1>16. CASE UNCHANGED vars
    BY <1>1, <1>16 DEF vars
  <1> QED BY <1>2, <1>3, <1>4, <1>5, <1>6, <1>7, <1>8, <1>9, <1>11, <1>12, <1>13,
             <1>14, <1>15, <1>16 DEF Next

\* A call runs the tool that was offered under its name, whatever the host
\* registers and takes out in between, in every conversation.
THEOREM CallsRunOfferedTools == Spec => []DispatchSound
  <1>1. ToolsInv => DispatchSound
    BY DEF ToolsInv, DispatchSound
  <1> QED BY <1>1, ToolsInit, ToolsStep, PTL DEF Spec
-----------------------------------------------------------------------------
(* Schemas *)

\* As many elements of a sequence as it is long are all of them.
LEMMA AsManyIsAll ==
  ASSUME NEW T, NEW s \in Seq(T), NEW A, A \subseteq Range(s), Cardinality(A) = Len(s)
  PROVE  Range(s) = A
  <1> DEFINE n == Len(s)
  <1>1. n \in Nat /\ DOMAIN s = 1..n /\ s \in [1..n -> Range(s)]
    BY DEF Range
  <1>2. IsFiniteSet(1..n) /\ Cardinality(1..n) = n
    <2> HIDE DEF n
    <2> QED BY <1>1, FS_Interval
  <1>3. s \in Surjection(1..n, Range(s))
    BY <1>1 DEF Surjection, Range
  <1>4. IsFiniteSet(Range(s)) /\ Cardinality(Range(s)) <= n
    BY <1>2, <1>3, FS_Surjection
  <1>5. Cardinality(A) <= Cardinality(Range(s)) /\ Cardinality(Range(s)) \in Nat
    BY <1>4, FS_Subset, FS_CardinalityType
  <1>6. Cardinality(A) = Cardinality(Range(s))
    BY <1>1, <1>4, <1>5
  <1> QED BY <1>4, <1>6, FS_Subset

\* In a document that is native, the subschemas anthropic looks at are among
\* those that have been looked at: no native keyword leads below allOf.
LEMMA NativeReach ==
  ASSUME NEW schema, Document(schema), Native(schema),
         NEW node \in Under(schema, {"$defs", "properties", "items", "anyOf", "allOf"})
  PROVE  node \in Under(schema, NativeApplicators)
  <1> DEFINE Below == {k \in DOMAIN node.path : node.path[k] = "allOf"}
  <1> SUFFICES ASSUME Below # {} PROVE FALSE
    BY DEF Under, Range, NativeApplicators
  <1>1. /\ node \in schema
        /\ node.path \in Seq({"properties", "$defs", "items", "anyOf", "allOf", "not"})
    BY DEF Under, Document, Subschema
  <1>2. Below \subseteq Nat /\ DOMAIN node.path = 1..Len(node.path) /\ Len(node.path) \in Nat
    BY <1>1
  <1>3. PICK k \in Below : \A j \in Below : k <= j
    BY <1>2, LeastNatural
  <1>4. PICK above \in schema :
          above.path = SubSeq(node.path, 1, k - 1) /\ node.path[k] \in above.keywords
    BY <1>1, <1>3 DEF Document
  <1>5. above \in Under(schema, NativeApplicators)
    <2>1. \A j \in 1..k - 1 : j \in DOMAIN node.path /\ node.path[j] \in NativeApplicators
      <3> SUFFICES ASSUME NEW j \in 1..k - 1
                   PROVE  j \in DOMAIN node.path /\ node.path[j] \in NativeApplicators
        OBVIOUS
      <3>1. j \in DOMAIN node.path /\ j \in Nat /\ ~(k <= j)
        BY <1>2, <1>3
      <3>2. node.path[j] # "allOf"
        BY <1>3, <3>1
      <3>3. node.path[j] \in {"$defs", "properties", "items", "anyOf", "allOf"}
        BY <3>1 DEF Under, Range
      <3> QED BY <3>1, <3>2, <3>3 DEF NativeApplicators
    <2>2. DOMAIN above.path = 1..k - 1 /\ \A j \in 1..k - 1 : above.path[j] = node.path[j]
      BY <1>1, <1>2, <1>3, <1>4
    <2> QED BY <2>1, <2>2 DEF Under, Range
  <1>6. above.keywords \subseteq NativeKeywords
    BY <1>5 DEF Native, NativeNode
  <1> QED BY <1>3, <1>4, <1>6 DEF NativeKeywords, NativeApplicators

\* The two subsets of JSON Schema agree: what may be asked for with native
\* strictness is never refused by the rules for anthropic
\* (validate_native_structured_schema, validate_anthropic_schema).
THEOREM NativeIsAnthropic ==
  ASSUME NEW schema, Document(schema), Native(schema)
  PROVE  Anthropic(schema)
  <1> SUFFICES ASSUME NEW node \in Under(schema, {"$defs", "properties", "items", "anyOf",
                                                  "allOf"})
               PROVE  AnthropicNode(node)
    BY DEF Anthropic
  <1>1. NativeNode(node)
    BY NativeReach DEF Native
  <1>2. node \in Subschema
    BY DEF Under, Document
  <1>3. "properties" \in node.keywords => Range(node.required) = node.properties
    <2> SUFFICES ASSUME "properties" \in node.keywords
                 PROVE  Range(node.required) = node.properties
      OBVIOUS
    <2>1. RequiresEveryProperty(node)
      BY <1>1 DEF NativeNode
    <2>2. node.required \in Seq(PropertyNames)
      BY <1>2 DEF Subschema
    <2> QED BY <2>1, <2>2, AsManyIsAll DEF RequiresEveryProperty
  <1>4. SingleType(node, {"object"}) \/ "properties" \in node.keywords =>
          /\ "additionalProperties" \in node.keywords /\ node.closed
          /\ "properties" \in node.keywords => "required" \in node.keywords
    BY <1>1 DEF NativeNode, SingleType, RequiresEveryProperty
  <1>5. node.keywords \cap NumericConstraints = {} /\ "oneOf" \notin node.keywords
    BY <1>1 DEF NativeNode, NativeKeywords, NativeApplicators, NumericConstraints
  <1> QED BY <1>1, <1>3, <1>4, <1>5 DEF AnthropicNode, NativeNode
-----------------------------------------------------------------------------
(* What is on the wire *)

\* Every bridge is of a known provider, and a call in flight was accepted by
\* its bridge and carries what the bridge made of it.
WireInv ==
  /\ session \in DOMAIN Sessions
  /\ bridges \subseteq Here.configs
  /\ \A config \in bridges : config.provider \in ProviderNames
  /\ call # Nil =>
       /\ call.bridge \in bridges
       /\ \E asked \in Here.requests :
            call.request.format = asked.format /\ call.request.options = asked.options
       /\ BridgeVerdict(call.bridge, call.request) = "Ok"
       /\ call.wire = Wire(call.bridge, call.request)

LEMMA WireInit == Init => WireInv
  BY DEF Init, WireInv

LEMMA BuiltIsKnown ==
  ASSUME NEW config, BuildVerdict(config) = "Ok"
  PROVE  config.provider \in ProviderNames
  <1> DEFINE vs == <<ResolveVerdict(config), DriverVerdict(config), NewVerdict(config)>>
             V == {vs[i] : i \in 1..3}
  <1>1. vs \in Seq(V) /\ DOMAIN vs = 1..3
    OBVIOUS
  <1>2. FirstError(vs) = "Ok"
    BY DEF BuildVerdict
  <1>3. vs[2] = "Ok"
    <2> HIDE DEF vs, V
    <2> QED BY <1>1, <1>2, EveryCheckPasses
  <1> QED BY <1>3 DEF DriverVerdict, Configured, Asserts

LEMMA WireStep == WireInv /\ [Next]_vars => WireInv'
  <1> SUFFICES ASSUME WireInv, [Next]_vars PROVE WireInv'
    OBVIOUS
  <1>1. ASSUME UNCHANGED <<session, bridges>>, call' = Nil \/ UNCHANGED call PROVE WireInv'
    <2>1. Here' = Here
      BY <1>1 DEF Here
    <2> QED BY <1>1, <2>1 DEF WireInv
  <1>2. ASSUME NEW config \in Here.configs, Build(config) PROVE WireInv'
    <2>1. \A other \in bridges' : other.provider \in ProviderNames
      BY <1>2, BuiltIsKnown DEF Build, WireInv
    <2>2. /\ bridges \subseteq bridges' /\ bridges' \subseteq bridges \cup {config}
          /\ UNCHANGED <<session, call>> /\ Here' = Here
      BY <1>2 DEF Build, Here
    <2> QED BY <2>1, <2>2 DEF WireInv
  <1>3. ASSUME NEW message, Say(message) PROVE WireInv'
    BY <1>1, <1>3 DEF Say
  <1>4. ASSUME NEW config \in bridges, NEW asked \in Here.requests, Send(config, asked)
        PROVE  WireInv'
    <2> DEFINE request == RequestOf(asked)
    <2>1. UNCHANGED <<session, bridges>> /\ Here' = Here
      BY <1>4 DEF Send, Here
    <2>2. CASE UNCHANGED call
      BY <1>1, <2>1, <2>2
    <2>3. ASSUME ~UNCHANGED call PROVE WireInv'
      <3>1. /\ BridgeVerdict(config, request) = "Ok"
            /\ call' = [bridge |-> config, request |-> request, wire |-> Wire(config, request),
                        report |-> Facts(config.provider, history)]
        BY <1>4, <2>3 DEF Send
      <3>2. request.format = asked.format /\ request.options = asked.options
        BY DEF RequestOf
      <3> HIDE DEF request
      <3>3. /\ call'.bridge = config /\ call'.request = request
            /\ call'.wire = Wire(config, request)
        BY <3>1
      <3> QED BY <2>1, <3>1, <3>2, <3>3 DEF WireInv
    <2> QED BY <2>2, <2>3
  <1>5. ASSUME NEW raw, Respond(raw) PROVE WireInv'
    BY <1>1, <1>5 DEF Respond
  <1>6. ASSUME NEW error, Fail(error) PROVE WireInv'
    BY <1>1, <1>6 DEF Fail
  <1>7. CASE Cancel
    BY <1>1, <1>7 DEF Cancel
  <1>8. ASSUME NEW at, StartTool(at) PROVE WireInv'
    BY <1>1, <1>8 DEF StartTool
  <1>9. ASSUME NEW at, NEW isError, UnknownTool(at, isError) PROVE WireInv'
    BY <1>1, <1>9 DEF UnknownTool
  <1>10. ASSUME NEW execution, FinishTool(execution) PROVE WireInv'
    BY <1>1, <1>10 DEF FinishTool
  <1>11. ASSUME NEW execution, NEW error, NEW isError, FailTool(execution, error, isError)
         PROVE  WireInv'
    BY <1>1, <1>11 DEF FailTool
  <1>12. ASSUME NEW tool, RegisterTool(tool) PROVE WireInv'
    BY <1>1, <1>12 DEF RegisterTool
  <1>13. ASSUME NEW tool, RefuseTool(tool) PROVE WireInv'
    BY <1>1, <1>13 DEF RefuseTool
  <1>14. ASSUME NEW name, UnregisterTool(name) PROVE WireInv'
    BY <1>1, <1>14 DEF UnregisterTool
  <1>15. CASE UNCHANGED vars
    BY <1>1, <1>15 DEF vars
  <1> QED BY <1>2, <1>3, <1>4, <1>5, <1>6, <1>7, <1>8, <1>9, <1>10, <1>11, <1>12, <1>13,
             <1>14, <1>15 DEF Next
-----------------------------------------------------------------------------
(* Schemas arrive *)

LEMMA FormatFacts ==
  ASSUME NEW format \in Format, format.kind = "native_strict_schema"
  PROVE  /\ PlainFormat(format) \in Format /\ PlainFormat(format) # Nil
         /\ PlainFormat(format).kind = "json_schema" /\ PlainFormat(format).strict
         /\ PlainFormat(format).schema = format.schema
         /\ PlainFormat(format).named = format.named
  <1>1. format # Nil
    BY FormatAssumption
  <1>2. PlainFormat(format) = [format EXCEPT !.kind = "json_schema", !.strict = TRUE]
    BY <1>1 DEF PlainFormat
  <1>3. format = [kind |-> format.kind, named |-> format.named, schema |-> format.schema,
                  compiles |-> format.compiles, strict |-> format.strict]
    BY DEF Format
  <1>4. PlainFormat(format) =
          [kind |-> "json_schema", named |-> format.named, schema |-> format.schema,
           compiles |-> format.compiles, strict |-> TRUE]
    BY <1>2, <1>3
  <1>5. PlainFormat(format) \in Format
    <2>1. /\ format.named \in BOOLEAN /\ format.compiles \in BOOLEAN
          /\ format.schema \in SUBSET Subschema
      BY DEF Format
    <2>2. "json_schema" \in Formats
      BY DEF Formats
    <2> QED BY <1>4, <2>1, <2>2 DEF Format
  <1>6. PlainFormat(format) # Nil
    BY <1>5, FormatAssumption
  <1>7. PlainFormat(format).strict
    BY <1>4
  <1> QED BY <1>4, <1>5, <1>6, <1>7

\* Among the parameters of reasoning, output_config is anthropic's and holds
\* an effort, and none is a format of the response, a seed or a stop sequence.
ReasoningFields == {"reasoning_effort", "think", "thinking", "output_config"}

LEMMA ControlsFields ==
  ASSUME NEW provider \in ProviderNames, NEW o
  PROVE  /\ DOMAIN Controls(provider, o) \subseteq ReasoningFields
         /\ "output_config" \in DOMAIN Controls(provider, o) =>
              /\ provider = "anthropic"
              /\ Controls(provider, o).output_config = [effort |-> Effort(o)]
  <1> USE DEF Field, Extend, ReasoningFields
  <1>1. CASE provider \in OpenAiLike
    <2>1. DOMAIN Controls(provider, o) \subseteq {"reasoning_effort"}
      BY <1>1 DEF Controls, OpenAiLike
    <2> QED BY <2>1
  <1>2. CASE provider \in {"deepseek", "moonshot", "minimax"}
    <2>1. DOMAIN Controls(provider, o) \subseteq {"thinking", "reasoning_effort"}
      BY <1>2 DEF Controls, OpenAiLike, Thought
    <2> QED BY <2>1
  <1>3. CASE provider = "anthropic"
    <2>1. Controls(provider, o) =
            Extend(Thought(provider, o),
                   Field(Effort(o) # Nil, "output_config", [effort |-> Effort(o)]))
      BY <1>3 DEF Controls, OpenAiLike
    <2>2. DOMAIN Thought(provider, o) \subseteq {"thinking"}
      BY DEF Thought
    <2> QED BY <1>3, <2>1, <2>2
  <1>4. CASE provider = "ollama"
    <2>1. DOMAIN Controls(provider, o) \subseteq {"think"}
      BY <1>4 DEF Controls, OpenAiLike
    <2> QED BY <2>1
  <1> QED BY <1>1, <1>2, <1>3, <1>4 DEF ProviderNames, OpenAiLike

LEMMA ThreeParts ==
  ASSUME NEW x
  PROVE  /\ <<x>> \o <<>> \o <<>> = <<x>>
         /\ <<>> \o <<x>> \o <<>> = <<x>>
         /\ <<>> \o <<>> \o <<x>> = <<x>>
  OBVIOUS

\* A strict schema is at one place of what is sent: typed, in the format of the
\* response, or beside the effort.
LEMMA OneCopy ==
  ASSUME NEW config, config.provider \in ProviderNames,
         NEW request, request.format \in Format, request.format.schema # Nil,
         request.format.kind = "native_strict_schema"
  PROVE  /\ SchemasOn(Wire(config, request)) = <<request.format.schema>>
         /\ ~(/\ Wire(config, request).schema # Nil
              /\ "output_config" \in DOMAIN Wire(config, request).params)
  <1> DEFINE provider == config.provider
             o == Merge(config.defaults, request.options)
             schema == request.format.schema
             plain == PlainFormat(request.format)
             mapped == Mapped(provider, request, o)
             controls == Controls(provider, o)
             wire == Wire(config, request)
  <1>1. wire = Apply(mapped, controls)
    BY DEF Wire
  <1>2. /\ plain # Nil /\ plain.kind = "json_schema" /\ plain.schema = schema
    BY FormatFacts
  <1>3. /\ mapped.schema = IF provider \in {"anthropic", "ollama"} THEN schema ELSE Nil
        /\ "output_config" \notin DOMAIN mapped.params
        /\ "response_format" \in DOMAIN mapped.params <=> provider \notin {"anthropic", "ollama"}
        /\ provider \notin {"anthropic", "ollama"} =>
             mapped.params.response_format.schema = schema
    <2>1. mapped.schema = TypedSchema(provider, plain)
      BY DEF Mapped
    <2>2. mapped.schema = IF provider \in {"anthropic", "ollama"} THEN schema ELSE Nil
      BY <1>2, <2>1 DEF TypedSchema
    <2> DEFINE stop == IF provider = "anthropic" THEN "stop_sequences" ELSE "stop"
               format == ResponseFormat(provider, plain)
    <2>3. mapped.params = Extend(Extend(Field(o.stop # <<>>, stop, o.stop),
                                        Field(o.seed # Nil, "seed", o.seed)), format)
      BY DEF Mapped
    <2>4. format = Field(provider \notin {"anthropic", "ollama"}, "response_format",
                         [type |-> "json_schema", strict |-> plain.strict, schema |-> schema])
      BY <1>2 DEF ResponseFormat, Field
    <2> HIDE DEF mapped, format, o
    <2>5. /\ DOMAIN mapped.params \subseteq {stop, "seed", "response_format"}
          /\ "response_format" \in DOMAIN mapped.params <=>
               provider \notin {"anthropic", "ollama"}
          /\ provider \notin {"anthropic", "ollama"} =>
               mapped.params.response_format =
                 [type |-> "json_schema", strict |-> plain.strict, schema |-> schema]
      BY <2>3, <2>4 DEF Field, Extend
    <2> QED BY <2>2, <2>5
  <1>4. /\ "response_format" \notin DOMAIN controls
        /\ "output_config" \in DOMAIN controls =>
             provider = "anthropic" /\ controls.output_config = [effort |-> Effort(o)]
    BY ControlsFields DEF ReasoningFields
  <1>5. mapped = [mapped EXCEPT !.schema = mapped.schema] /\ DOMAIN mapped =
          {"messages", "tools", "choice", "temperature", "max", "schema", "params"}
    BY DEF Mapped
  <1> HIDE DEF mapped, controls, wire, plain, schema, o
  <1>6. CASE "output_config" \in DOMAIN controls
    <2> DEFINE placed == [effort |-> Effort(o),
                          format |-> [type |-> "json_schema", schema |-> schema]]
               moved == [controls EXCEPT !.output_config = placed]
    <2>1. provider = "anthropic" /\ mapped.schema = schema /\ schema # Nil
      BY <1>3, <1>4, <1>6 DEF schema
    <2>2. wire.schema = Nil /\ wire.params = Extend(mapped.params, moved)
      BY <1>1, <1>4, <1>5, <1>6, <2>1 DEF Apply
    <2>3. /\ DOMAIN moved = DOMAIN controls /\ moved.output_config = placed
      BY <1>6
    <2> HIDE DEF moved, placed
    <2>4. /\ "response_format" \notin DOMAIN wire.params
          /\ "output_config" \in DOMAIN wire.params /\ wire.params.output_config = placed
      BY <1>3, <1>4, <1>6, <2>1, <2>2, <2>3 DEF Extend
    <2>5. "format" \in DOMAIN placed /\ placed.format.schema = schema
      BY DEF placed
    <2> QED BY <2>2, <2>4, <2>5, ThreeParts DEF SchemasOn, wire, schema
  <1>7. CASE "output_config" \notin DOMAIN controls
    <2>1. wire = [mapped EXCEPT !.params = Extend(mapped.params, controls)]
      BY <1>1, <1>7 DEF Apply
    <2>2. wire.schema = mapped.schema /\ wire.params = Extend(mapped.params, controls)
      BY <1>5, <2>1
    <2>3. /\ "output_config" \notin DOMAIN wire.params
          /\ "response_format" \in DOMAIN wire.params <=> provider \notin {"anthropic", "ollama"}
          /\ provider \notin {"anthropic", "ollama"} =>
               wire.params.response_format.schema = schema
      BY <1>3, <1>4, <1>7, <2>2 DEF Extend
    <2>4. schema # Nil
      BY DEF schema
    <2>5. CASE provider \in {"anthropic", "ollama"}
      BY <1>3, <2>2, <2>3, <2>4, <2>5, ThreeParts DEF SchemasOn, wire, schema
    <2>6. CASE provider \notin {"anthropic", "ollama"}
      <3>1. SchemasOn(wire) = <<>> \o <<schema>> \o <<>>
        BY <1>3, <2>2, <2>3, <2>6 DEF SchemasOn
      <3> QED BY <1>3, <2>2, <2>3, <3>1, ThreeParts DEF wire, schema
    <2> QED BY <2>5, <2>6
  <1> QED BY <1>6, <1>7

\* No mapper refuses a native schema that has a name.
LEMMA StrictIsTaken ==
  ASSUME NEW provider, NEW format \in Format, Document(format.schema),
         format.kind = "native_strict_schema", format.named, Native(format.schema)
  PROVE  FormatVerdict(provider, PlainFormat(format)) = "Ok"
  <1> DEFINE plain == PlainFormat(format)
  <1>1. /\ plain # Nil /\ plain.kind = "json_schema" /\ plain.strict /\ plain.named
        /\ plain.schema = format.schema
    BY FormatFacts
  <1>2. Anthropic(plain.schema)
    BY <1>1, NativeIsAnthropic
  <1>3. Root(plain.schema).object
    <2>1. Root(plain.schema) \in plain.schema /\ Root(plain.schema).path = <<>>
      BY <1>1 DEF Root, Document
    <2>2. Root(plain.schema) \in Under(plain.schema, NativeApplicators)
      BY <2>1 DEF Under, Range
    <2> QED BY <1>1, <2>2 DEF Native, NativeNode
  <1> HIDE DEF plain
  <1>4. SchemaVerdict(provider, plain) = "Ok"
    BY <1>1, <1>2, <1>3 DEF SchemaVerdict, AnthropicFormatVerdict, OllamaFormatVerdict,
       OpenAiFormatVerdict, Requires, Supports, Asserts, FirstError, Passed
  <1> QED BY <1>1, <1>4 DEF FormatVerdict, plain

\* A schema asked for with native strictness is in what is sent exactly once,
\* and no mapper refuses it, whatever the provider, the schema, the defaults
\* and the other options are.
THEOREM StrictSchemasArrive == Spec => []StrictSchemaArrives
  <1>1. WireInv => StrictSchemaArrives
    <2> SUFFICES ASSUME WireInv PROVE StrictSchemaArrives
      OBVIOUS
    <2>1. ASSUME NEW asked \in Here.requests, Strict(asked.format)
          PROVE  /\ asked.format \in Format /\ asked.format.schema # Nil
                 /\ Document(asked.format.schema)
                 /\ asked.format.kind = "native_strict_schema"
      BY <2>1, FormatAssumption DEF WireInv, Here, Strict
    <2>2. ASSUME call # Nil, Strict(call.request.format)
          PROVE  /\ SchemasOn(call.wire) = <<call.request.format.schema>>
                 /\ ~(call.wire.schema # Nil /\ "output_config" \in DOMAIN call.wire.params)
      <3>1. PICK asked \in Here.requests : call.request.format = asked.format
        BY <2>2 DEF WireInv
      <3>2. call.bridge.provider \in ProviderNames /\ call.wire = Wire(call.bridge, call.request)
        BY <2>2 DEF WireInv
      <3>3. /\ call.request.format \in Format /\ call.request.format.schema # Nil
            /\ call.request.format.kind = "native_strict_schema"
        BY <2>1, <2>2, <3>1
      <3> QED BY <3>2, <3>3, OneCopy
    <2>3. ASSUME NEW config \in bridges, NEW asked \in Here.requests,
                 Strict(asked.format), asked.format.named, Native(asked.format.schema)
          PROVE  FormatVerdict(config.provider, PlainFormat(asked.format)) = "Ok"
      BY <2>1, <2>3, StrictIsTaken
    <2> QED BY <2>2, <2>3 DEF StrictSchemaArrives
  <1> QED BY <1>1, WireInit, WireStep, PTL DEF Spec
-----------------------------------------------------------------------------
(* Controls survive *)

LEMMA OptionFacts ==
  ASSUME NEW o \in Options
  PROVE  /\ Mode(o) \in {Nil} \cup Thinking /\ Effort(o) \in {Nil} \cup Efforts
         /\ Nil \notin Thinking \cup Efforts
  <1>1. /\ o.thinking \in {Nil} \cup [mode : Thinking \cup {"provider_default"}, tokens : Nat]
        /\ o.effort \in {Nil} \cup Efforts \cup {"provider_default"}
    BY DEF Options
  <1> QED BY <1>1, OptionsAssumption DEF Mode, Effort

LEMMA ControlsAccepted ==
  ASSUME NEW provider, NEW model, NEW o, NEW choice,
         ControlsVerdict(provider, model, o, choice) = "Ok"
  PROVE  /\ {Mode(o), Effort(o)} \ {Nil} \subseteq Reasoning(provider, model)
         /\ ~(Thinks(o) /\ Effort(o) = "none")
         /\ provider = "anthropic" \/ Mode(o) # "disabled" \/ Effort(o) \in {Nil, "none"}
         /\ provider \in OpenAiLike /\ Mode(o) = "enabled" => Effort(o) # Nil
         /\ provider = "anthropic" /\ Mode(o) = "budget" =>
              o.max # Nil /\ o.thinking.tokens < Or(o.max, 0)
  <1> DEFINE own == IF provider = "anthropic" THEN AnthropicVerdict(model, o, choice) ELSE "Ok"
             able == Needs(Reasoning(provider, model), {Mode(o), Effort(o)} \ {Nil})
             thinks == Requires(~(Thinks(o) /\ Effort(o) = "none"))
             off == Requires(\/ provider = "anthropic" \/ Mode(o) # "disabled"
                             \/ Effort(o) \in {Nil, "none"})
             explicit == Requires(provider \in OpenAiLike /\ Mode(o) = "enabled"
                                    => Effort(o) # Nil)
             cold == Requires(provider = "deepseek" /\ (Thinks(o) \/ Effort(o) # Nil)
                                => o.temperature = Nil)
             vs == <<able, thinks, off, explicit, cold, own>>
             ws == <<
               Requires(Thinks(o) => o.temperature \in {Nil, 1} /\ ~Forced(choice)),
               Requires(~(/\ model = "claude-opus-5" /\ Mode(o) = "disabled"
                          /\ Effort(o) \in {"xhigh", "max"})),
               Requires(Mode(o) = "budget" =>
                          /\ o.thinking.tokens >= 1024 /\ o.max # Nil
                          /\ o.thinking.tokens < Or(o.max, 0))>>
  <1>1. \A i \in 1..6 : vs[i] = "Ok"
    <2> DEFINE V == {vs[i] : i \in 1..6}
    <2>1. vs \in Seq(V) /\ DOMAIN vs = 1..6
      <3> HIDE DEF able, thinks, off, explicit, cold, own
      <3> QED OBVIOUS
    <2>2. FirstError(vs) = "Ok"
      BY DEF ControlsVerdict
    <2> HIDE DEF vs, V
    <2> QED BY <2>1, <2>2, EveryCheckPasses
  <1>2. /\ vs[1] = "Ok" /\ vs[2] = "Ok" /\ vs[3] = "Ok" /\ vs[4] = "Ok" /\ vs[6] = "Ok"
    <2> HIDE DEF vs
    <2> QED BY <1>1
  <1>3. ASSUME provider = "anthropic", Mode(o) = "budget"
        PROVE  o.max # Nil /\ o.thinking.tokens < Or(o.max, 0)
    <2> DEFINE V == {ws[i] : i \in 1..3}
    <2>1. ws \in Seq(V) /\ DOMAIN ws = 1..3
      OBVIOUS
    <2>2. FirstError(ws) = "Ok"
      <3>1. AnthropicVerdict(model, o, choice) = "Ok"
        BY <1>2, <1>3
      <3> QED BY <3>1 DEF AnthropicVerdict
    <2>3. ws[3] = "Ok"
      <3> HIDE DEF ws, V
      <3> QED BY <2>1, <2>2, EveryCheckPasses
    <2> QED BY <1>3, <2>3 DEF Requires, Asserts
  <1>4. {Mode(o), Effort(o)} \ {Nil} \subseteq Reasoning(provider, model)
    BY <1>2 DEF Needs
  <1>5. ~(Thinks(o) /\ Effort(o) = "none")
    BY <1>2 DEF Requires, Asserts
  <1>6. provider = "anthropic" \/ Mode(o) # "disabled" \/ Effort(o) \in {Nil, "none"}
    BY <1>2 DEF Requires, Asserts
  <1>7. provider \in OpenAiLike /\ Mode(o) = "enabled" => Effort(o) # Nil
    BY <1>2 DEF Requires, Asserts
  <1> QED BY <1>3, <1>4, <1>5, <1>6, <1>7

\* What the controls say is what was asked, in the parameters of each provider.
LEMMA ControlsSay ==
  ASSUME NEW provider \in ProviderNames, NEW model, NEW o \in Options, NEW choice,
         ControlsVerdict(provider, model, o, choice) = "Ok"
  PROVE  LET c == Controls(provider, o)
         IN  /\ Mode(o) = "disabled" => Heard(provider, c) = "off"
             /\ Mode(o) \in {"enabled", "adaptive", "budget"} => Heard(provider, c) = "on"
             /\ Effort(o) # Nil => EffortHeard(provider, c) = Effort(o)
             /\ Mode(o) = Nil /\ Effort(o) = Nil =>
                  Heard(provider, c) = "nothing" /\ EffortHeard(provider, c) = Nil
             /\ Mode(o) = "budget" =>
                  /\ provider = "anthropic" /\ "thinking" \in DOMAIN c
                  /\ c.thinking.budget_tokens = o.thinking.tokens
  <1> DEFINE c == Controls(provider, o)
             mode == Mode(o)
             effort == Effort(o)
             thought == Thought(provider, o)
  <1>1. /\ {mode, effort} \ {Nil} \subseteq Reasoning(provider, model)
        /\ ~(mode \in {"enabled", "adaptive", "budget"} /\ effort = "none")
        /\ provider = "anthropic" \/ mode # "disabled" \/ effort \in {Nil, "none"}
        /\ provider \in OpenAiLike /\ mode = "enabled" => effort # Nil
    BY ControlsAccepted DEF Thinks
  <1>2. mode \in {Nil} \cup Thinking /\ effort \in {Nil} \cup Efforts
        /\ Nil \notin Thinking \cup Efforts
    BY OptionFacts
  <1>3. /\ DOMAIN thought = IF mode # Nil THEN {"thinking"} ELSE {}
        /\ mode # Nil => thought.thinking =
             IF mode = "budget" THEN [type |-> "enabled", budget_tokens |-> o.thinking.tokens]
             ELSE [type |-> ThinkingType(provider, mode)]
    BY DEF Thought, Field
  <1>4. CASE provider \in OpenAiLike
    <2>1. c = Field(mode = "disabled" \/ effort # Nil, "reasoning_effort",
                    IF mode = "disabled" THEN "none" ELSE effort)
      BY <1>4 DEF Controls, OpenAiLike
    <2>2. Reasoning(provider, model) = {"enabled", "disabled"} \cup Efforts
      BY <1>4 DEF Reasoning, OpenAiLike
    <2> HIDE DEF c, mode, effort, thought
    <2>3. mode \in {Nil, "enabled", "disabled"}
      BY <1>1, <1>2, <2>2 DEF Thinking, Efforts
    <2>4. /\ DOMAIN c = IF mode = "disabled" \/ effort # Nil THEN {"reasoning_effort"} ELSE {}
          /\ mode = "disabled" \/ effort # Nil =>
               c.reasoning_effort = IF mode = "disabled" THEN "none" ELSE effort
      BY <2>1 DEF Field
    <2>5. Heard(provider, c) =
            IF "reasoning_effort" \notin DOMAIN c THEN "nothing"
            ELSE IF c.reasoning_effort = "none" THEN "off" ELSE "on"
      BY <1>4 DEF Heard, OpenAiLike
    <2>6. EffortHeard(provider, c) =
            IF "reasoning_effort" \in DOMAIN c THEN c.reasoning_effort ELSE Nil
      BY <1>4 DEF EffortHeard, OpenAiLike
    <2>7. /\ mode = "disabled" => Heard(provider, c) = "off"
          /\ mode \in {"enabled", "adaptive", "budget"} => Heard(provider, c) = "on"
      BY <1>1, <1>2, <1>4, <2>3, <2>4, <2>5 DEF Thinking
    <2>8. effort # Nil => EffortHeard(provider, c) = effort
      BY <1>1, <1>2, <1>4, <2>4, <2>6 DEF OpenAiLike
    <2>9. mode = Nil /\ effort = Nil =>
            Heard(provider, c) = "nothing" /\ EffortHeard(provider, c) = Nil
      BY <1>2, <2>4, <2>5, <2>6 DEF Thinking
    <2>10. mode # "budget"
      BY <1>2, <2>3 DEF Thinking
    <2> QED BY <2>7, <2>8, <2>9, <2>10 DEF c, mode, effort
  <1>5. CASE provider \in {"deepseek", "moonshot", "minimax"}
    <2>1. c = Extend(thought, Field(effort # Nil, "reasoning_effort", effort))
      BY <1>5 DEF Controls, OpenAiLike
    <2>2. "budget" \notin Reasoning(provider, model)
      BY <1>5 DEF Reasoning, MoonshotReasoning, OpenAiLike
    <2> HIDE DEF c, mode, effort, thought
    <2>3. mode \in {Nil, "enabled", "disabled", "adaptive"}
      BY <1>1, <1>2, <2>2 DEF Thinking
    <2>4. /\ "thinking" \in DOMAIN c <=> mode # Nil
          /\ "reasoning_effort" \in DOMAIN c <=> effort # Nil
          /\ mode # Nil => c.thinking = [type |-> ThinkingType(provider, mode)]
          /\ effort # Nil => c.reasoning_effort = effort
      BY <1>3, <2>1, <2>3 DEF Field, Extend
    <2>5. mode \in {"enabled", "adaptive"} =>
            [type |-> ThinkingType(provider, mode)] # [type |-> "disabled"]
      BY DEF ThinkingType
    <2>6. mode = "disabled" =>
            [type |-> ThinkingType(provider, mode)] = [type |-> "disabled"]
      BY DEF ThinkingType
    <2>7. /\ Heard(provider, c) =
               IF "thinking" \notin DOMAIN c THEN "nothing"
               ELSE IF c.thinking = [type |-> "disabled"] THEN "off" ELSE "on"
          /\ EffortHeard(provider, c) =
               IF "reasoning_effort" \in DOMAIN c THEN c.reasoning_effort ELSE Nil
      BY <1>5 DEF Heard, EffortHeard, OpenAiLike
    <2> QED BY <1>2, <2>3, <2>4, <2>5, <2>6, <2>7 DEF c, mode, effort, Thinking
  <1>6. CASE provider = "anthropic"
    <2>1. c = Extend(thought, Field(effort # Nil, "output_config", [effort |-> effort]))
      BY <1>6 DEF Controls, OpenAiLike
    <2> HIDE DEF c, mode, effort, thought
    <2>2. /\ "thinking" \in DOMAIN c <=> mode # Nil
          /\ "output_config" \in DOMAIN c <=> effort # Nil
          /\ mode # Nil => c.thinking = thought.thinking
          /\ effort # Nil => c.output_config = [effort |-> effort]
      BY <1>3, <2>1 DEF Field, Extend
    <2>3. /\ mode = "disabled" => thought.thinking = [type |-> "disabled"]
          /\ mode \in {"enabled", "adaptive"} => thought.thinking # [type |-> "disabled"]
      BY <1>2, <1>3, <1>6 DEF ThinkingType, Thinking
    <2>4. mode = "budget" =>
            /\ thought.thinking # [type |-> "disabled"]
            /\ thought.thinking.budget_tokens = o.thinking.tokens
      BY <1>2, <1>3 DEF Thinking
    <2>5. /\ Heard(provider, c) =
               IF "thinking" \notin DOMAIN c THEN "nothing"
               ELSE IF c.thinking = [type |-> "disabled"] THEN "off" ELSE "on"
          /\ EffortHeard(provider, c) =
               IF "output_config" \in DOMAIN c THEN c.output_config.effort ELSE Nil
      BY <1>6 DEF Heard, EffortHeard, OpenAiLike
    <2> QED BY <1>2, <1>6, <2>2, <2>3, <2>4, <2>5 DEF c, mode, effort, Thinking
  <1>7. CASE provider = "ollama"
    <2>1. c = Field(mode # Nil \/ effort # Nil, "think",
                    IF effort # Nil THEN effort
                    ELSE IF mode = "enabled" THEN "true" ELSE "false")
      BY <1>7 DEF Controls, OpenAiLike
    <2>2. /\ Reasoning(provider, model) \subseteq
               {"enabled", "disabled", "low", "medium", "high", "max"}
      BY <1>7 DEF Reasoning, OpenAiLike
    <2> HIDE DEF c, mode, effort, thought
    <2>3. mode \in {Nil, "enabled", "disabled"} /\ effort \in {Nil, "low", "medium", "high", "max"}
      BY <1>1, <1>2, <2>2 DEF Thinking, Efforts
    <2>4. /\ DOMAIN c = IF mode # Nil \/ effort # Nil THEN {"think"} ELSE {}
          /\ mode # Nil \/ effort # Nil =>
               c.think = IF effort # Nil THEN effort
                         ELSE IF mode = "enabled" THEN "true" ELSE "false"
      BY <2>1 DEF Field
    <2>5. /\ Heard(provider, c) =
               IF "think" \notin DOMAIN c THEN "nothing"
               ELSE IF c.think = "false" THEN "off" ELSE "on"
          /\ EffortHeard(provider, c) = IF "think" \in DOMAIN c THEN c.think ELSE Nil
      BY <1>7 DEF Heard, EffortHeard, OpenAiLike
    <2> QED BY <1>1, <1>2, <1>7, <2>3, <2>4, <2>5 DEF c, mode, effort, Thinking, Efforts
  <1> QED BY <1>4, <1>5, <1>6, <1>7 DEF ProviderNames, OpenAiLike

\* What is on the wire says what the controls say, and all else that was asked.
WireSound(config, request, o) ==
  LET provider == config.provider
      c == Controls(provider, o)
      wire == Wire(config, request)
      stop == IF provider = "anthropic" THEN "stop_sequences" ELSE "stop"
  IN  /\ wire.temperature = o.temperature /\ wire.max = o.max
      /\ o.seed # Nil => wire.params.seed = o.seed
      /\ o.stop # <<>> => wire.params[stop] = o.stop
      /\ Heard(provider, wire.params) = Heard(provider, c)
      /\ EffortHeard(provider, wire.params) = EffortHeard(provider, c)
      /\ "thinking" \in DOMAIN c => wire.params.thinking = c.thinking

LEMMA WireSays ==
  ASSUME NEW config, config.provider \in ProviderNames, NEW request,
         NEW o, o = Merge(config.defaults, request.options)
  PROVE  WireSound(config, request, o)
  <1> DEFINE provider == config.provider
             c == Controls(provider, o)
             mapped == Mapped(provider, request, o)
             wire == Wire(config, request)
             stop == IF provider = "anthropic" THEN "stop_sequences" ELSE "stop"
             format == ResponseFormat(provider, PlainFormat(request.format))
  <1>1. wire = Apply(mapped, c)
    BY DEF Wire
  <1>2. /\ mapped.temperature = o.temperature /\ mapped.max = o.max
        /\ mapped.params = Extend(Extend(Field(o.stop # <<>>, stop, o.stop),
                                         Field(o.seed # Nil, "seed", o.seed)), format)
        /\ DOMAIN mapped =
             {"messages", "tools", "choice", "temperature", "max", "schema", "params"}
        /\ mapped = [mapped EXCEPT !.schema = mapped.schema]
    BY DEF Mapped
  <1>3. DOMAIN format \subseteq {"response_format"}
    BY DEF ResponseFormat, Field
  <1>4. /\ DOMAIN c \subseteq ReasoningFields
        /\ "output_config" \in DOMAIN c => c.output_config = [effort |-> Effort(o)]
    BY ControlsFields
  <1>5. stop \in {"stop", "stop_sequences"}
    OBVIOUS
  <1> HIDE DEF c, mapped, wire, stop, format
  <1>6. /\ DOMAIN mapped.params \subseteq {stop, "seed", "response_format"}
        /\ o.seed # Nil => "seed" \in DOMAIN mapped.params /\ mapped.params.seed = o.seed
        /\ o.stop # <<>> => stop \in DOMAIN mapped.params /\ mapped.params[stop] = o.stop
    <2> DEFINE stopped == Field(o.stop # <<>>, stop, o.stop)
               seeded == Field(o.seed # Nil, "seed", o.seed)
    <2>1. /\ DOMAIN stopped = IF o.stop # <<>> THEN {stop} ELSE {}
          /\ o.stop # <<>> => stopped[stop] = o.stop
      BY DEF Field
    <2>2. /\ DOMAIN seeded = IF o.seed # Nil THEN {"seed"} ELSE {}
          /\ o.seed # Nil => seeded["seed"] = o.seed
      BY DEF Field
    <2> HIDE DEF stopped, seeded
    <2> DEFINE both == Extend(stopped, seeded)
    <2>3. /\ DOMAIN both = DOMAIN stopped \cup DOMAIN seeded
          /\ o.stop # <<>> => both[stop] = o.stop
          /\ o.seed # Nil => both["seed"] = o.seed
      BY <1>5, <2>1, <2>2 DEF Extend
    <2>4. mapped.params = Extend(both, format)
      BY <1>2 DEF stopped, seeded
    <2> HIDE DEF both
    <2> QED BY <1>3, <1>5, <2>1, <2>2, <2>3, <2>4 DEF Extend
  <1>7. PICK d : /\ wire.params = Extend(mapped.params, d) /\ DOMAIN d = DOMAIN c
                 /\ \A name \in DOMAIN d \ {"output_config"} : d[name] = c[name]
                 /\ "output_config" \in DOMAIN d =>
                      d.output_config.effort = c.output_config.effort
                 /\ wire.temperature = mapped.temperature /\ wire.max = mapped.max
    <2>1. CASE "output_config" \in DOMAIN c /\ mapped.schema # Nil
      <3> DEFINE placed == [effort |-> c.output_config.effort,
                            format |-> [type |-> "json_schema", schema |-> mapped.schema]]
                 moved == [c EXCEPT !.output_config = placed]
      <3>1. wire = [mapped EXCEPT !.schema = Nil, !.params = Extend(mapped.params, moved)]
        BY <1>1, <2>1 DEF Apply
      <3>2. /\ wire.params = Extend(mapped.params, moved)
            /\ wire.temperature = mapped.temperature /\ wire.max = mapped.max
        <4> HIDE DEF moved
        <4> QED BY <1>2, <3>1
      <3>3. /\ DOMAIN moved = DOMAIN c /\ moved.output_config = placed
            /\ \A name \in DOMAIN c \ {"output_config"} : moved[name] = c[name]
        <4> HIDE DEF placed
        <4> QED BY <2>1
      <3>4. placed.effort = c.output_config.effort
        OBVIOUS
      <3> HIDE DEF moved, placed
      <3> QED BY <3>2, <3>3, <3>4
    <2>2. CASE ~("output_config" \in DOMAIN c /\ mapped.schema # Nil)
      <3>1. wire = [mapped EXCEPT !.params = Extend(mapped.params, c)]
        BY <1>1, <2>2 DEF Apply
      <3>2. /\ wire.params = Extend(mapped.params, c)
            /\ wire.temperature = mapped.temperature /\ wire.max = mapped.max
        BY <1>2, <3>1
      <3> QED BY <3>2
    <2> QED BY <2>1, <2>2
  <1>8. /\ \A name \in ReasoningFields : name \in DOMAIN wire.params <=> name \in DOMAIN c
        /\ \A name \in DOMAIN c \ {"output_config"} : wire.params[name] = c[name]
        /\ "output_config" \in DOMAIN c =>
             wire.params.output_config.effort = c.output_config.effort
        /\ o.seed # Nil => wire.params.seed = o.seed
        /\ o.stop # <<>> => wire.params[stop] = o.stop
    BY <1>4, <1>5, <1>6, <1>7 DEF Extend, ReasoningFields
  <1>9. Heard(provider, wire.params) = Heard(provider, c)
    BY <1>8 DEF Heard, ReasoningFields, ProviderNames, OpenAiLike
  <1>10. EffortHeard(provider, wire.params) = EffortHeard(provider, c)
    BY <1>8 DEF EffortHeard, ReasoningFields, ProviderNames, OpenAiLike
  <1>11. "thinking" \in DOMAIN c => wire.params.thinking = c.thinking
    BY <1>8 DEF ReasoningFields
  <1> QED BY <1>2, <1>7, <1>8, <1>9, <1>10, <1>11 DEF WireSound, c, wire, stop

\* What was accepted passed the checks of reasoning, with the defaults merged.
LEMMA AcceptedControls ==
  ASSUME NEW config, NEW request, BridgeVerdict(config, request) = "Ok"
  PROVE  ControlsVerdict(config.provider, config.model,
                         Merge(config.defaults, request.options), request.choice) = "Ok"
  <1> DEFINE o == Merge(config.defaults, request.options)
             prepared == PrepareVerdict(View(request, o))
             supported == RequestVerdict(CapabilitiesOf(config.provider, config.model),
                                         View(request, o))
             controlled == ControlsVerdict(config.provider, config.model, o, request.choice)
             mapped == MapVerdict(config.provider, request, o)
             vs == <<prepared, supported, controlled, mapped>>
             V == {vs[i] : i \in 1..4}
  <1>1. vs \in Seq(V) /\ DOMAIN vs = 1..4 /\ vs[3] = controlled
    <2> HIDE DEF prepared, supported, controlled, mapped
    <2> QED OBVIOUS
  <1>2. FirstError(vs) = "Ok"
    BY DEF BridgeVerdict
  <1>3. controlled = "Ok"
    <2> HIDE DEF vs, V, controlled
    <2> QED BY <1>1, <1>2, EveryCheckPasses
  <1> QED BY <1>3

\* What the host asks of generation, or leaves to the defaults of the bridge,
\* is what is sent, for every provider, every model, all defaults and options.
THEOREM AskedIsSent == Spec => []ControlsSurvive
  <1>1. WireInv => ControlsSurvive
    <2> SUFFICES ASSUME WireInv, call # Nil PROVE ControlsSurvive
      BY DEF ControlsSurvive
    <2> DEFINE own == call.request.options
               defaults == call.bridge.defaults
               o == Merge(defaults, own)
               provider == call.bridge.provider
    <2>1. own \in Options /\ defaults \in Options /\ provider \in ProviderNames
      BY OptionsAssumption DEF WireInv, Here
    <2>2. o \in Options
      <3>1. /\ DOMAIN own = {"temperature", "max", "stop", "seed", "thinking", "effort"}
            /\ o = [temperature |-> Or(own.temperature, defaults.temperature),
                    max |-> Or(own.max, defaults.max),
                    stop |-> IF own.stop = <<>> THEN defaults.stop ELSE own.stop,
                    seed |-> Or(own.seed, defaults.seed),
                    thinking |-> Or(own.thinking, defaults.thinking),
                    effort |-> Or(own.effort, defaults.effort)]
        <4>1. DOMAIN own = {"temperature", "max", "stop", "seed", "thinking", "effort"}
          <5> HIDE DEF own
          <5> QED BY <2>1 DEF Options
        <4> HIDE DEF own, defaults
        <4> QED BY <4>1 DEF Merge
      <3> HIDE DEF o, own, defaults
      <3>2. /\ Or(own.temperature, defaults.temperature) \in {own.temperature, defaults.temperature}
            /\ Or(own.max, defaults.max) \in {own.max, defaults.max}
            /\ Or(own.seed, defaults.seed) \in {own.seed, defaults.seed}
            /\ Or(own.thinking, defaults.thinking) \in {own.thinking, defaults.thinking}
            /\ Or(own.effort, defaults.effort) \in {own.effort, defaults.effort}
        BY DEF Or
      <3> QED BY <2>1, <3>1, <3>2 DEF Options
    <2>3. /\ \A f \in {"temperature", "max", "seed", "thinking", "effort"} : o[f] = Wanted(f)
          /\ own.stop # <<>> => o.stop = own.stop
      BY <2>1 DEF Options, Merge, Wanted
    <2>4. ControlsVerdict(provider, call.bridge.model, o, call.request.choice) = "Ok"
      BY AcceptedControls DEF WireInv
    <2>5. call.wire = Wire(call.bridge, call.request)
      BY DEF WireInv
    <2> DEFINE wire == call.wire
               params == wire.params
               stop == IF provider = "anthropic" THEN "stop_sequences" ELSE "stop"
               c == Controls(provider, o)
               thinking == Wanted("thinking")
               mode == IF thinking = Nil \/ thinking.mode = "provider_default" THEN Nil
                       ELSE thinking.mode
               effort == IF Wanted("effort") = "provider_default" THEN Nil
                         ELSE Wanted("effort")
    <2>6. /\ mode = Mode(o) /\ effort = Effort(o) /\ thinking = o.thinking
          /\ Wanted("temperature") = o.temperature /\ Wanted("max") = o.max
          /\ Wanted("seed") = o.seed
      BY <2>3 DEF Mode, Effort
    <2>7. /\ wire.temperature = o.temperature /\ wire.max = o.max
          /\ o.seed # Nil => params.seed = o.seed
          /\ o.stop # <<>> => params[stop] = o.stop
          /\ Heard(provider, params) = Heard(provider, c)
          /\ EffortHeard(provider, params) = EffortHeard(provider, c)
          /\ "thinking" \in DOMAIN c => params.thinking = c.thinking
      <3>1. o = Merge(call.bridge.defaults, call.request.options)
        OBVIOUS
      <3>2. WireSound(call.bridge, call.request, o)
        <4> HIDE DEF o
        <4> QED BY <2>1, <3>1, WireSays
      <3> HIDE DEF o
      <3> QED BY <2>5, <3>2 DEF WireSound
    <2>8. /\ Mode(o) = "disabled" => Heard(provider, c) = "off"
          /\ Mode(o) \in {"enabled", "adaptive", "budget"} => Heard(provider, c) = "on"
          /\ Effort(o) # Nil => EffortHeard(provider, c) = Effort(o)
          /\ Mode(o) = Nil /\ Effort(o) = Nil =>
               Heard(provider, c) = "nothing" /\ EffortHeard(provider, c) = Nil
          /\ Mode(o) = "budget" =>
               /\ provider = "anthropic" /\ "thinking" \in DOMAIN c
               /\ c.thinking.budget_tokens = o.thinking.tokens
      BY <2>1, <2>2, <2>4, ControlsSay
    <2>9. mode = "budget" =>
            /\ params.thinking.budget_tokens = thinking.tokens
            /\ thinking.tokens < wire.max
      <3> SUFFICES ASSUME mode = "budget"
                   PROVE  /\ params.thinking.budget_tokens = thinking.tokens
                          /\ thinking.tokens < wire.max
        OBVIOUS
      <3>1. o.max # Nil /\ o.thinking.tokens < Or(o.max, 0)
        BY <2>4, <2>6, <2>8, ControlsAccepted
      <3> QED BY <2>6, <2>7, <2>8, <3>1 DEF Or
    <2> HIDE DEF o, own, defaults, wire, params, c, thinking, mode, effort, stop
    <2>10. /\ wire.temperature = Wanted("temperature") /\ wire.max = Wanted("max")
           /\ Wanted("seed") # Nil => params.seed = Wanted("seed")
           /\ own.stop # <<>> => params[stop] = own.stop
      BY <2>3, <2>6, <2>7
    <2>11. /\ mode = "disabled" => Heard(provider, params) = "off"
           /\ mode \in {"enabled", "adaptive", "budget"} => Heard(provider, params) = "on"
           /\ effort # Nil => EffortHeard(provider, params) = effort
           /\ mode = Nil /\ effort = Nil =>
                Heard(provider, params) = "nothing" /\ EffortHeard(provider, params) = Nil
      BY <2>6, <2>7, <2>8
    <2> QED BY <2>9, <2>10, <2>11 DEF ControlsSurvive, own, wire, params, thinking, mode, effort, stop
  <1> QED BY <1>1, WireInit, WireStep, PTL DEF Spec

-----------------------------------------------------------------------------
(* Only: what a filter keeps.                                              *)

LEMMA OnlyFacts ==
  ASSUME NEW s, NEW S, IsSeq(s)
  PROVE  IsSeq(Only(s, S)) /\ Range(Only(s, S)) = Range(s) \cap S
<1> DEFINE Kept(x) == IF x \in S THEN <<x>> ELSE <<>>
           pieces == [k \in DOMAIN s |-> Kept(s[k])]
<1>1. Len(s) \in Nat /\ DOMAIN s = 1..Len(s)
  BY SeqIs
<1>2. IsSeq(pieces) /\ Len(pieces) = Len(s) /\ \A k \in 1..Len(s) : pieces[k] = Kept(s[k])
  <2> HIDE DEF Kept
  <2>1. pieces = [k \in 1..Len(s) |-> pieces[k]]
    BY <1>1
  <2> QED BY <1>1, <2>1, FunctionIsSeq
<1>3. ASSUME NEW x PROVE IsSeq(Kept(x)) /\ Range(Kept(x)) = {x} \cap S
  BY OneIsSeq, EmptyIsSeq
<1>4. Only(s, S) = FlattenSeq(pieces)
  BY DEF Only
<1> HIDE DEF pieces
<1>5. IsSeqs(pieces)
  <2> HIDE DEF Kept
  <2> QED BY <1>2, <1>3 DEF IsSeqs
<1> HIDE DEF Kept
<1>6. /\ IsSeq(FlattenSeq(pieces))
      /\ Range(FlattenSeq(pieces)) = UNION {Range(pieces[k]) : k \in 1..Len(pieces)}
  BY <1>5, FlattenFacts
<1>7. Range(s) = {s[k] : k \in 1..Len(s)}
  BY <1>1 DEF Range
<1>8. UNION {Range(pieces[k]) : k \in 1..Len(s)} = UNION {{s[k]} \cap S : k \in 1..Len(s)}
  BY <1>2, <1>3
<1>9. UNION {{s[k]} \cap S : k \in 1..Len(s)} = Range(s) \cap S
  BY <1>7
<1> QED BY <1>2, <1>4, <1>6, <1>8, <1>9

LEMMA OnlyNone ==
  ASSUME NEW S
  PROVE  Only(<<>>, S) = <<>>
<1> DEFINE pieces == [k \in DOMAIN <<>> |-> IF <<>>[k] \in S THEN <<<<>>[k]>> ELSE <<>>]
<1>1. pieces = <<>>
  OBVIOUS
<1> QED BY <1>1, FlattenNone DEF Only

LEMMA OnlyConcat ==
  ASSUME NEW s, NEW t, NEW S, IsSeq(s), IsSeq(t)
  PROVE  Only(Joined(s, t), S) = Joined(Only(s, S), Only(t, S))
<1> DEFINE Kept(x) == IF x \in S THEN <<x>> ELSE <<>>
           Pieces(x) == [k \in DOMAIN x |-> Kept(x[k])]
<1>1. ASSUME NEW x, IsSeq(x)
      PROVE  /\ IsSeqs(Pieces(x)) /\ Len(Pieces(x)) = Len(x)
             /\ \A k \in 1..Len(x) : Pieces(x)[k] = Kept(x[k])
  <2>1. Len(x) \in Nat /\ DOMAIN x = 1..Len(x)
    BY <1>1, SeqIs
  <2>2. \A k \in 1..Len(x) : IsSeq(Kept(x[k]))
    BY OneIsSeq, EmptyIsSeq
  <2> HIDE DEF Kept
  <2>3. Pieces(x) = [k \in 1..Len(x) |-> Pieces(x)[k]]
    BY <2>1
  <2>4. \A k \in 1..Len(x) : Pieces(x)[k] = Kept(x[k])
    BY <2>1
  <2>5. IsSeq(Pieces(x)) /\ Len(Pieces(x)) = Len(x)
    BY <2>1, <2>3, FunctionIsSeq
  <2> HIDE DEF Pieces
  <2> QED BY <2>2, <2>4, <2>5 DEF IsSeqs
<1>2. \A x : Only(x, S) = FlattenSeq(Pieces(x))
  BY DEF Only
<1> HIDE DEF Pieces, Kept
<1>3. Pieces(Joined(s, t)) = Joined(Pieces(s), Pieces(t))
  <2> DEFINE p == Pieces(Joined(s, t))
             q == Joined(Pieces(s), Pieces(t))
  <2>1. /\ IsSeq(Joined(s, t)) /\ Len(Joined(s, t)) = Len(s) + Len(t)
        /\ \A k \in 1..Len(s) : Joined(s, t)[k] = s[k]
        /\ \A k \in 1..Len(t) : Joined(s, t)[Len(s) + k] = t[k]
    BY ConcatFacts
  <2>2. /\ IsSeqs(p) /\ Len(p) = Len(s) + Len(t)
        /\ \A k \in 1..Len(s) + Len(t) : p[k] = Kept(Joined(s, t)[k])
    BY <1>1, <2>1
  <2>3. /\ IsSeq(Pieces(s)) /\ IsSeq(Pieces(t))
        /\ Len(Pieces(s)) = Len(s) /\ Len(Pieces(t)) = Len(t)
        /\ \A k \in 1..Len(s) : Pieces(s)[k] = Kept(s[k])
        /\ \A k \in 1..Len(t) : Pieces(t)[k] = Kept(t[k])
    BY <1>1 DEF IsSeqs
  <2>4. /\ IsSeq(q) /\ Len(q) = Len(s) + Len(t)
        /\ \A k \in 1..Len(s) : q[k] = Pieces(s)[k]
        /\ \A k \in 1..Len(t) : q[Len(s) + k] = Pieces(t)[k]
    BY <2>3, ConcatFacts
  <2>5. Len(s) \in Nat /\ Len(t) \in Nat /\ IsSeq(p)
    BY <2>2, SeqIs DEF IsSeqs
  <2> HIDE DEF p, q
  <2>6. ASSUME NEW k \in 1..Len(p) PROVE p[k] = q[k]
    <3>1. CASE k \in 1..Len(s)
      BY <2>1, <2>2, <2>3, <2>4, <3>1
    <3>2. CASE k \notin 1..Len(s)
      <4> DEFINE j == k - Len(s)
      <4>1. j \in 1..Len(t) /\ k = Len(s) + j
        BY <2>2, <2>5, <3>2
      <4>2. p[k] = Kept(Joined(s, t)[k])
        BY <2>2
      <4> HIDE DEF j
      <4>3. Joined(s, t)[k] = t[j] /\ q[k] = Pieces(t)[j] /\ Pieces(t)[j] = Kept(t[j])
        BY <2>1, <2>3, <2>4, <4>1
      <4> QED BY <4>2, <4>3
    <3> QED BY <3>1, <3>2
  <2>7. p = q
    BY <2>2, <2>4, <2>5, <2>6, SameSeq
  <2> QED BY <2>7 DEF p, q
<1>4. FlattenSeq(Joined(Pieces(s), Pieces(t))) = Joined(FlattenSeq(Pieces(s)), FlattenSeq(Pieces(t)))
  BY <1>1, FlattenConcat
<1> QED BY <1>2, <1>3, <1>4

LEMMA OnlyOne ==
  ASSUME NEW x, NEW S
  PROVE  Only(<<x>>, S) = IF x \in S THEN <<x>> ELSE <<>>
<1> DEFINE kept == IF x \in S THEN <<x>> ELSE <<>>
<1>1. [k \in DOMAIN <<x>> |-> IF <<x>>[k] \in S THEN <<<<x>>[k]>> ELSE <<>>] = <<kept>>
  OBVIOUS
<1>2. IsSeq(kept)
  BY OneIsSeq, EmptyIsSeq
<1> HIDE DEF kept
<1>3. FlattenSeq(<<kept>>) = kept
  BY <1>2, FlattenOne
<1> QED BY <1>1, <1>3 DEF Only, kept

\* What the elements agree on decides what is kept.
LEMMA OnlySame ==
  ASSUME NEW s, NEW S, NEW U, S \cap Range(s) = U \cap Range(s), IsSeq(s)
  PROVE  Only(s, S) = Only(s, U)
<1>1. \A k \in DOMAIN s : s[k] \in S <=> s[k] \in U
  BY DEF Range
<1>2. [k \in DOMAIN s |-> IF s[k] \in S THEN <<s[k]>> ELSE <<>>]
        = [k \in DOMAIN s |-> IF s[k] \in U THEN <<s[k]>> ELSE <<>>]
  BY <1>1
<1> QED BY <1>2 DEF Only

-----------------------------------------------------------------------------
(* Reading the causes of an error.                                         *)

Causes(c) == FoldLeft(Read, Unread, c)

\* What has been read so far.
ReadFacts ==
  [status : Status, kind : {"Unknown"} \cup STRING, io : {Nil} \cup STRING, timedOut : BOOLEAN,
   os : {Nil} \cup Int]

LEMMA UnreadTyped == Unread \in ReadFacts
<1>1. Nil \in Status
  BY DEF Status
<1>2. Nil \in {Nil} \cup STRING
  OBVIOUS
<1>3. Nil \in {Nil} \cup Int
  OBVIOUS
<1>4. "Unknown" \in {"Unknown"} \cup STRING
  OBVIOUS
<1>5. FALSE \in BOOLEAN
  BY Zenon
<1> QED BY <1>1, <1>2, <1>3, <1>4, <1>5, Zenon DEF Unread, ReadFacts

LEMMA ReadTyped ==
  ASSUME NEW facts \in ReadFacts, NEW cause \in CauseSet
  PROVE  Read(facts, cause) \in ReadFacts
  BY DEF ReadFacts, CauseSet, Read, Or, Status

LEMMA CausesIs ==
  ASSUME NEW c \in Seq(CauseSet)
  PROVE  \E acc : /\ acc[0] = Unread
                  /\ \A k \in 1..Len(c) : acc[k] = Read(acc[k - 1], c[k])
                  /\ \A k \in 0..Len(c) : acc[k] \in ReadFacts
                  /\ Causes(c) = acc[Len(c)]
<1> DEFINE n == Len(c)
           Body(f, S) == IF S = {} THEN Unread ELSE Read(f[S \ {Max(S)}], c[Max(S)])
           fold == CHOOSE f : f = [S \in SUBSET (DOMAIN c) |-> Body(f, S)]
           step == [p \in ReadFacts \X (1..n) |-> Read(p[1], c[p[2]])]
           acc == [k \in 0..n |-> fold[1..k]]
<1>1. Causes(c) = fold[DOMAIN c]
  BY DEF Causes, FoldLeft, MapThenFoldSet
<1>2. n \in Nat /\ DOMAIN c = 1..n
  OBVIOUS
<1>3. step \in [ReadFacts \X (1..n) -> ReadFacts]
  BY ReadTyped
<1>4. PICK g : IsFold(g, n, ReadFacts, Unread, step, TakeMax(n))
  <2>1. n \in Nat /\ Unread \in ReadFacts /\ TakesGreatest(TakeMax(n), n)
    BY <1>2, TakeMaxTakesGreatest, UnreadTyped
  <2> HIDE DEF n, step
  <2> QED BY <1>3, <2>1, FoldSolution
<1>6. ASSUME NEW S \in SUBSET (1..n) PROVE g[S] = Body(g, S)
  <2>1. CASE S = {}
    BY <1>4, <2>1 DEF IsFold
  <2>2. CASE S # {}
    <3> DEFINE m == Max(S)
    <3>1. m \in 1..n /\ TakeMax(n)[S] = m
      BY <1>2, <2>2, MaxFacts DEF TakeMax
    <3> HIDE DEF m, step
    <3>2. g[S \ {m}] \in ReadFacts /\ g[S] = step[<<g[S \ {m}], m>>]
      BY <1>4, <2>2, <3>1 DEF IsFold
    <3>3. g[S] = Read(g[S \ {m}], c[m])
      BY <3>1, <3>2 DEF step
    <3> QED BY <2>2, <3>3 DEF m
  <2> QED BY <2>1, <2>2
<1> HIDE DEF step
<1>7. fold = [S \in SUBSET (DOMAIN c) |-> Body(fold, S)]
  <2> HIDE DEF Body
  <2>1. g \in [SUBSET (1..n) -> ReadFacts]
    BY <1>4 DEF IsFold
  <2>2. g = [S \in SUBSET (DOMAIN c) |-> Body(g, S)]
    BY <1>2, <1>6, <2>1
  <2> QED BY <2>2
<1> HIDE DEF fold
<1>8. fold[1..0] = Unread
  <2>1. 1..0 = {} /\ {} \in SUBSET (DOMAIN c)
    OBVIOUS
  <2> QED BY <1>7, <2>1
<1>9. ASSUME NEW k \in 1..n PROVE fold[1..k] = Read(fold[1..k - 1], c[k])
  <2>1. 1..k \in SUBSET (DOMAIN c) /\ 1..k # {} /\ Max(1..k) = k /\ (1..k) \ {k} = 1..k - 1
    BY <1>2, IntervalFacts
  <2> QED BY <1>7, <2>1
<1>10. /\ acc[0] = Unread
       /\ \A k \in 1..n : acc[k] = Read(acc[k - 1], c[k])
       /\ Causes(c) = acc[n]
  BY <1>1, <1>2, <1>8, <1>9
<1> HIDE DEF acc
<1> DEFINE Typical == {k \in 0..n : acc[k] \in ReadFacts}
<1>11. 0 \in Typical
  BY <1>2, <1>10, UnreadTyped
<1>12. ASSUME NEW k \in 1..n, k - 1 \in Typical PROVE k \in Typical
  <2>1. k \in 0..n /\ c[k] \in CauseSet /\ acc[k] = Read(acc[k - 1], c[k])
    BY <1>2, <1>10
  <2> QED BY <1>12, <2>1, ReadTyped
<1>13. \A k \in 0..n : k \in Typical
  <2> HIDE DEF Typical, n
  <2> QED BY <1>2, <1>11, <1>12, CountUp
<1> QED BY <1>10, <1>13

LEMMA CausesTyped ==
  ASSUME NEW c \in Seq(CauseSet)
  PROVE  Causes(c) \in ReadFacts
<1>1. Len(c) \in 0..Len(c)
  OBVIOUS
<1> QED BY <1>1, CausesIs

LEMMA NoCauses == Causes(<<>>) = Unread
<1>1. <<>> \in Seq(CauseSet) /\ Len(<<>>) = 0
  OBVIOUS
<1> QED BY <1>1, CausesIs

\* One cause more.
LEMMA CausesMore ==
  ASSUME NEW c \in Seq(CauseSet), NEW x \in CauseSet
  PROVE  Causes(Joined(c, <<x>>)) = Read(Causes(c), x)
<1> DEFINE n == Len(c)
           d == Joined(c, <<x>>)
<1>1. PICK acc : /\ acc[0] = Unread
                 /\ \A k \in 1..n : acc[k] = Read(acc[k - 1], c[k])
                 /\ Causes(c) = acc[n]
  BY CausesIs
<1>2. /\ n \in Nat /\ n \in 0..n /\ d \in Seq(CauseSet) /\ Len(d) = n + 1
      /\ d[n + 1] = x /\ \A k \in 1..n : d[k] = c[k]
  BY DEF Joined
<1> HIDE DEF d
<1>3. PICK more : /\ more[0] = Unread
                  /\ \A k \in 1..n + 1 : more[k] = Read(more[k - 1], d[k])
                  /\ Causes(d) = more[n + 1]
  BY <1>2, CausesIs
<1> DEFINE Agreed == {k \in 0..n : more[k] = acc[k]}
<1>4. 0 \in Agreed
  BY <1>1, <1>2, <1>3
<1>5. ASSUME NEW k \in 1..n, k - 1 \in Agreed PROVE k \in Agreed
  <2>1. k \in 1..n + 1 /\ d[k] = c[k] /\ k \in 0..n
    BY <1>2
  <2>2. more[k] = Read(more[k - 1], d[k])
    BY <1>3, <2>1
  <2>3. acc[k] = Read(acc[k - 1], c[k])
    BY <1>1
  <2> QED BY <1>5, <2>1, <2>2, <2>3
<1>6. \A k \in 0..n : k \in Agreed
  <2> HIDE DEF Agreed, n
  <2> QED BY <1>2, <1>4, <1>5, CountUp
<1>7. more[n + 1] = Read(more[n], x)
  BY <1>2, <1>3
<1> QED BY <1>1, <1>2, <1>3, <1>6, <1>7 DEF d

\* What wraps a cause says nothing, so leaving it out changes nothing.
LEMMA WrappingSaysNothing ==
  ASSUME NEW c \in Seq(CauseSet)
  PROVE  LET bare == Only(c, {x \in Range(c) : ~Wraps(x)})
         IN  /\ bare \in Seq(CauseSet) /\ Len(bare) <= Len(c)
             /\ Causes(bare) = Causes(c)
<1> DEFINE n == Len(c)
           B == {x \in Range(c) : ~Wraps(x)}
           p(k) == SubSeq(c, 1, k)
           A == {k \in 0..n : /\ Only(p(k), B) \in Seq(CauseSet)
                              /\ Len(Only(p(k), B)) <= k
                              /\ Causes(Only(p(k), B)) = Causes(p(k))}
<1>1. n \in Nat /\ n \in 0..n /\ DOMAIN c = 1..n /\ IsSeq(c)
  BY TypedIsSeq
<1>2. 0 \in A
  <2>1. p(0) = <<>>
    BY <1>1, PrefixFacts
  <2>2. Only(p(0), B) = <<>>
    BY <2>1, OnlyNone
  <2>3. <<>> \in Seq(CauseSet) /\ Len(<<>>) <= 0 /\ 0 \in 0..n
    BY <1>1
  <2> QED BY <2>1, <2>2, <2>3
<1>3. ASSUME NEW k \in 1..n, k - 1 \in A PROVE k \in A
  <2> DEFINE q == p(k - 1)
             x == c[k]
             bare == Only(q, B)
  <2>1. k - 1 \in 0..n /\ k \in 0..n /\ k > 0 /\ x \in CauseSet /\ x \in Range(c)
    BY <1>1 DEF Range
  <2>2. p(k) = Joined(q, <<x>>) /\ q \in Seq(CauseSet)
    BY <2>1, PrefixFacts
  <2>3. bare \in Seq(CauseSet) /\ Len(bare) <= k - 1 /\ Causes(bare) = Causes(q)
    BY <1>3
  <2> HIDE DEF q, x, B
  <2>4. Only(p(k), B) = Joined(bare, Only(<<x>>, B))
    <3>1. IsSeq(q) /\ IsSeq(<<x>>)
      BY <2>2, TypedIsSeq, OneIsSeq
    <3> HIDE DEF p
    <3> QED BY <2>2, <3>1, OnlyConcat
  <2>5. Causes(p(k)) = Read(Causes(q), x)
    BY <2>1, <2>2, CausesMore
  <2>6. CASE x \in B
    <3>1. Only(p(k), B) = Joined(bare, <<x>>)
      BY <2>4, <2>6, OnlyOne
    <3> HIDE DEF bare, p
    <3>2. /\ Joined(bare, <<x>>) \in Seq(CauseSet)
          /\ Len(Joined(bare, <<x>>)) = Len(bare) + 1
      BY <2>1, <2>3 DEF Joined
    <3>3. Causes(Joined(bare, <<x>>)) = Read(Causes(bare), x)
      BY <2>1, <2>3, CausesMore
    <3>4. Len(bare) \in Nat
      BY <2>3
    <3> QED BY <1>1, <2>1, <2>3, <2>5, <3>1, <3>2, <3>3, <3>4
  <2>7. CASE x \notin B
    <3>1. IsSeq(bare)
      BY <2>3, TypedIsSeq
    <3>2. Only(p(k), B) = bare
      BY <2>4, <2>7, <3>1, OnlyOne, ConcatEmpty
    <3>3. Wraps(x)
      BY <2>1, <2>7 DEF B
    <3>4. Read(Causes(q), x) = Causes(q)
      BY <3>3 DEF Read, Wraps
    <3> HIDE DEF bare, p
    <3>5. Len(bare) \in Nat
      BY <2>3
    <3> QED BY <1>1, <2>1, <2>3, <2>5, <3>2, <3>4, <3>5
  <2> QED BY <2>6, <2>7
<1>4. n \in A
  <2> HIDE DEF A, n
  <2> QED BY <1>1, <1>2, <1>3, CountUp
<1>5. p(n) = c
  BY <1>1, PrefixFacts
<1> QED BY <1>4, <1>5

\* A timeout that has been read stays read.
LEMMA TimeoutIsRead ==
  ASSUME NEW c \in Seq(CauseSet), NEW k \in DOMAIN c, TimesOut(c[k])
  PROVE  Causes(c).timedOut
<1> DEFINE n == Len(c)
<1>1. PICK acc : /\ acc[0] = Unread
                 /\ \A j \in 1..n : acc[j] = Read(acc[j - 1], c[j])
                 /\ \A j \in 0..n : acc[j] \in ReadFacts
                 /\ Causes(c) = acc[n]
  BY CausesIs
<1> DEFINE A == {j \in 0..n : j >= k => acc[j].timedOut}
<1>2. n \in Nat /\ n \in 0..n /\ k \in 1..n
  OBVIOUS
<1>3. 0 \in A
  BY <1>2
<1>4. ASSUME NEW j \in 1..n, j - 1 \in A PROVE j \in A
  <2>1. /\ j \in 0..n /\ j - 1 \in 0..n /\ c[j] \in CauseSet /\ acc[j - 1] \in ReadFacts
        /\ acc[j] = Read(acc[j - 1], c[j])
    BY <1>1, <1>2
  <2>2. CASE j = k
    <3>1. acc[j].timedOut
      BY <2>1, <2>2 DEF TimesOut, Read, ReadFacts, CauseSet
    <3> QED BY <2>1, <3>1
  <2>3. CASE j > k
    <3>1. acc[j - 1].timedOut
      BY <1>2, <1>4, <2>3
    <3>2. acc[j].timedOut
      BY <2>1, <3>1 DEF Read, ReadFacts, CauseSet
    <3> QED BY <2>1, <3>2
  <2> QED BY <1>2, <2>1, <2>2, <2>3
<1>5. n \in A
  <2> HIDE DEF A, n
  <2> QED BY <1>2, <1>3, <1>4, CountUp
<1> QED BY <1>1, <1>2, <1>5

\* Of a chain that is read to its end.
LEMMA ChainIsRead ==
  ASSUME NEW c \in Seq(CauseSet), Len(c) <= ChainLimit
  PROVE  ReadChain(c) = Causes(c)
<1>1. Len(c) \in 0..Len(c) /\ Len(c) \in Nat
  OBVIOUS
<1> DEFINE n == Len(c)
<1>3. (IF n < ChainLimit THEN n ELSE ChainLimit) = n
  <2> HIDE DEF n
  <2>1. n \in Nat /\ n <= ChainLimit
    BY <1>1 DEF n
  <2> QED BY <2>1 DEF ChainLimit
<1>2. SubSeq(c, 1, Len(c)) = c
  BY <1>1, PrefixFacts
<1> QED BY <1>2, <1>3 DEF ReadChain, Causes

\* CauseDecides holds of every error there is.
LEMMA CausesDecide ==
  ASSUME NEW error \in ErrorSet, error.http = "Instance" => error.variant = "HttpError",
         Len(error.chain) <= ChainLimit
  PROVE  LET bare == [error EXCEPT !.chain = Only(@, {c \in Range(@) : ~Wraps(c)})]
             as == NormalizeError(error)
         IN  /\ as = NormalizeError(bare)
             /\ /\ error.http = "Instance" /\ as.status = Nil
                /\ \E k \in DOMAIN error.chain : TimesOut(error.chain[k])
                => as.category = "Timeout"
<1> DEFINE c == error.chain
           less == Only(c, {x \in Range(c) : ~Wraps(x)})
           bare == [error EXCEPT !.chain = Only(@, {x \in Range(@) : ~Wraps(x)})]
           as == NormalizeError(error)
<1>1. c \in Seq(CauseSet) /\ Len(c) \in Nat
  BY DEF ErrorSet
<1>2. less \in Seq(CauseSet) /\ Len(less) <= Len(c) /\ Causes(less) = Causes(c)
  BY <1>1, WrappingSaysNothing
<1>3. bare = [error EXCEPT !.chain = less]
  OBVIOUS
<1>4. ReadChain(c) = Causes(c) /\ ReadChain(less) = Causes(c)
  <2>1. Len(less) <= ChainLimit
    <3> HIDE DEF less, c
    <3>1. Len(less) \in Nat
      BY <1>2
    <3>2. Len(c) <= ChainLimit
      BY DEF c
    <3> QED BY <1>1, <1>2, <3>1, <3>2 DEF ChainLimit
  <2> QED BY <1>1, <1>2, <2>1, ChainIsRead
<1> HIDE DEF less
<1>5. /\ bare.variant = error.variant /\ bare.status = error.status /\ bare.http = error.http
      /\ bare.chain = less
  BY <1>3 DEF ErrorSet
<1> HIDE DEF bare
<1>6. Classified(bare) = Classified(error)
  BY <1>4, <1>5 DEF Classified
<1>7. as = NormalizeError(bare)
  BY <1>5, <1>6 DEF NormalizeError, Metadata
<1>8. ASSUME error.http = "Instance", as.status = Nil,
             NEW k \in DOMAIN c, TimesOut(c[k])
      PROVE  as.category = "Timeout"
  <2>1. Causes(c).timedOut
    BY <1>1, <1>8, TimeoutIsRead
  <2>2. KindRead(ReadChain(c)) = "Timeout"
    BY <1>4, <2>1 DEF KindRead
  <2>3. Metadata(error) = Classified(error)
    BY <1>8 DEF Metadata
  <2>4. Classified(error).status = Nil
    BY <1>8, <2>3 DEF NormalizeError
  <2>5. Classified(error).transport = "Timeout"
    BY <1>8, <2>2, <2>4 DEF Classified
  <2>6. as.category = VariantCategory("HttpError", "Timeout")
    BY <1>8, <2>3, <2>4, <2>5 DEF NormalizeError
  <2> QED BY <2>6 DEF VariantCategory
<1> QED BY <1>7, <1>8 DEF bare

-----------------------------------------------------------------------------
(* Failures: what the host is told is what the error of the provider comes  *)
(* to.                                                                      *)
FailureInv ==
  /\ session \in DOMAIN Sessions
  /\ failure # Nil =>
       failure.of \in Here.errors /\ failure.as = NormalizeError(failure.of)

LEMMA FailureInit == Init => FailureInv
  BY DEF Init, FailureInv

LEMMA FailureStep == FailureInv /\ [Next]_vars => FailureInv'
<1> SUFFICES ASSUME FailureInv, [Next]_vars PROVE FailureInv'
  OBVIOUS
<1> USE DEF FailureInv, Here
<1>1. CASE UNCHANGED vars
  BY <1>1 DEF vars
<1>2. ASSUME NEW error \in Here.errors, Fail(error) PROVE FailureInv'
  <2>1. /\ failure'.of = error /\ failure'.as = NormalizeError(error)
        /\ session' = session
    BY <1>2 DEF Fail
  <2> QED BY <1>2, <2>1
<1>3. CASE \E config \in Here.configs : Build(config)
  BY <1>3 DEF Build
<1>4. CASE \E message \in Here.messages : Say(message)
  BY <1>4 DEF Say
<1>5. CASE \E config \in bridges, asked \in Here.requests : Send(config, asked)
  BY <1>5 DEF Send
<1>6. CASE \E raw \in Here.answers : Respond(raw)
  BY <1>6 DEF Respond
<1>7. CASE Cancel
  BY <1>7 DEF Cancel
<1>8. CASE \E at \in Unanswered : StartTool(at)
  BY <1>8 DEF StartTool
<1>9. CASE \E at \in Unanswered, isError \in BOOLEAN : UnknownTool(at, isError)
  BY <1>9 DEF UnknownTool
<1>10. CASE \E execution \in running : FinishTool(execution)
  BY <1>10 DEF FinishTool
<1>11. CASE \E execution \in running, error \in ExecutionErrors, isError \in BOOLEAN :
              FailTool(execution, error, isError)
  BY <1>11 DEF FailTool
<1>12. CASE \E tool \in Here.tools : RegisterTool(tool) \/ RefuseTool(tool)
  BY <1>12 DEF RegisterTool, RefuseTool
<1>13. CASE \E name \in DOMAIN registered : UnregisterTool(name)
  BY <1>13 DEF UnregisterTool
<1> QED BY <1>1, <1>2, <1>3, <1>4, <1>5, <1>6, <1>7, <1>8, <1>9, <1>10, <1>11, <1>12, <1>13
        DEF Next

(* How an error is wrapped does not change what the host is told of it, and a
   timeout anywhere in the chain is one (classify_http_error, the loop over the
   sources of an error), for every chain up to the limit. *)
THEOREM CausesDecideFailures == Spec => []CauseDecides
<1>1. FailureInv => CauseDecides
  <2> SUFFICES ASSUME FailureInv, failure # Nil, Len(failure.of.chain) <= ChainLimit
               PROVE  CauseDecides
    BY DEF CauseDecides
  <2>1. /\ failure.of \in ErrorSet
        /\ failure.of.http = "Instance" => failure.of.variant = "HttpError"
        /\ failure.as = NormalizeError(failure.of)
    BY ErrorsAssumption DEF FailureInv, Here
  <2> DEFINE error == failure.of
             bare == [error EXCEPT !.chain = Only(@, {c \in Range(@) : ~Wraps(c)})]
             as == NormalizeError(error)
  <2>2. /\ as = NormalizeError(bare)
        /\ /\ error.http = "Instance" /\ as.status = Nil
           /\ \E k \in DOMAIN error.chain : TimesOut(error.chain[k])
           => as.category = "Timeout"
    BY <2>1, CausesDecide
  <2> QED BY <2>1, <2>2 DEF CauseDecides
<1> QED BY <1>1, FailureInit, FailureStep, PTL DEF Spec

-----------------------------------------------------------------------------
(* What a response becomes.                                                *)

\* Parts as a response has them, before they are marked with their provider.
IsRaw(part) ==
  \/ part.kind = "Text" /\ part = TextContent(part.text)
  \/ part.kind = "ToolCall" /\ part = ToolContent(part.call)
  \/ /\ part.kind = "ProviderData" /\ part = DataContent(part.data, part.value)
     /\ part.data = "tool_call_metadata" => part.value # Nil

LEMMA FromRigFacts ==
  ASSUME NEW part, IsRigPart(part)
  PROVE  /\ IsSeq(FromRig(part))
         /\ \A x \in Range(FromRig(part)) : IsRaw(x)
         /\ FromRig(part) \in
              {<<>>}
              \cup {<<x>> : x \in {TextContent(part.text), ToolContent(part.call),
                                   DataContent("reasoning", part.reasoning),
                                   DataContent("image", part.image)}}
              \cup {<<TextContent(part.text), DataContent("text_metadata", Nil)>>,
                    <<ToolContent(part.call), DataContent("tool_call_metadata", part.meta)>>}
<1> DEFINE text == TextContent(part.text)
           mark == DataContent("text_metadata", Nil)
           tool == ToolContent(part.call)
           meta == DataContent("tool_call_metadata", part.meta)
           reasoning == DataContent("reasoning", part.reasoning)
           image == DataContent("image", part.image)
<1>1. /\ IsRaw(text) /\ IsRaw(mark) /\ IsRaw(tool) /\ IsRaw(reasoning) /\ IsRaw(image)
      /\ part.meta # Nil => IsRaw(meta)
  BY DEF IsRaw, TextContent, ToolContent, DataContent
<1>2. \/ part.type = "Text"
         /\ (FromRig(part) = <<text>> \o <<mark>> \/ FromRig(part) = <<text>> \o <<>>)
      \/ /\ part.type = "ToolCall"
         /\ \/ part.meta # Nil /\ FromRig(part) = <<tool>> \o <<meta>>
            \/ FromRig(part) = <<tool>> \o <<>>
      \/ FromRig(part) \in {<<>>, <<reasoning>>, <<image>>}
  <2> HIDE DEF text, mark, tool, meta, reasoning, image
  <2>1. CASE part.type = "Text"
    BY <2>1 DEF FromRig, text, mark
  <2>2. CASE part.type = "ToolCall"
    BY <2>2 DEF FromRig, tool, meta
  <2>3. CASE part.type = "Reasoning"
    BY <2>3 DEF FromRig, reasoning
  <2>4. CASE part.type = "Image"
    BY <2>4 DEF FromRig, image
  <2> QED BY <2>1, <2>2, <2>3, <2>4 DEF IsRigPart
<1> HIDE DEF text, mark, tool, meta, reasoning, image
<1>3. /\ <<text>> \o <<mark>> = <<text, mark>> /\ <<text>> \o <<>> = <<text>>
      /\ <<tool>> \o <<meta>> = <<tool, meta>> /\ <<tool>> \o <<>> = <<tool>>
  <2>1. \A x, y : <<x>> \o <<y>> = <<x, y>>
    BY PairIs DEF Joined
  <2>2. \A x : <<x>> \o <<>> = <<x>>
    OBVIOUS
  <2> QED BY <2>1, <2>2
<1>4. \A x, y : IsSeq(<<x, y>>) /\ Range(<<x, y>>) = {x, y}
  BY DEF IsSeq, Range
<1>5. \A x : IsSeq(<<x>>) /\ Range(<<x>>) = {x}
  BY OneIsSeq
<1>6. IsSeq(FromRig(part)) /\ \A x \in Range(FromRig(part)) : IsRaw(x)
  BY <1>1, <1>2, <1>3, <1>4, <1>5, EmptyIsSeq
<1> QED BY <1>2, <1>3, <1>6 DEF text, mark, tool, meta, reasoning, image

\* A response is what its parts become, one after the other.
LEMMA ResponseIsFlat ==
  ASSUME NEW c, IsSeq(c), \A part \in Range(c) : IsRigPart(part)
  PROVE  /\ IsSeqs([k \in DOMAIN c |-> FromRig(c[k])])
         /\ Len([k \in DOMAIN c |-> FromRig(c[k])]) = Len(c)
         /\ AssistantContentFromRig(c) = FlattenSeq([k \in DOMAIN c |-> FromRig(c[k])])
<1> DEFINE n == Len(c)
           Step(x, i) == x \o FromRig(c[i])
           Body(f, S) == IF S = {} THEN <<>> ELSE Step(f[S \ {Max(S)}], Max(S))
           Solves(f, k) == f = [S \in SUBSET (1..k) |-> Body(f, S)]
           A == {k \in 0..n : \E f : Solves(f, k)}
           fold == CHOOSE f : Solves(f, n)
           parts == [k \in DOMAIN c |-> FromRig(c[k])]
<1>1. n \in Nat /\ DOMAIN c = 1..n
  BY SeqIs
<1>2. AssistantContentFromRig(c) = fold[1..n]
  BY <1>1 DEF AssistantContentFromRig, FoldLeft, MapThenFoldSet
<1>3. IsSeqs(parts) /\ Len(parts) = n /\ \A k \in 1..n : parts[k] = FromRig(c[k])
  <2>1. \A k \in 1..n : IsSeq(FromRig(c[k]))
    BY <1>1, FromRigFacts DEF Range
  <2>2. parts = [k \in 1..n |-> parts[k]] /\ \A k \in 1..n : parts[k] = FromRig(c[k])
    BY <1>1
  <2> HIDE DEF parts
  <2>3. IsSeq(parts) /\ Len(parts) = n
    <3> HIDE DEF n
    <3> QED BY <1>1, <2>2, FunctionIsSeq
  <2> QED BY <2>1, <2>2, <2>3 DEF IsSeqs
<1> HIDE DEF Step, fold
<1>4. 0 \in A
  <2> DEFINE f == [S \in SUBSET (1..0) |-> <<>>]
  <2>1. Solves(f, 0)
    <3>1. \A S \in SUBSET (1..0) : S = {}
      OBVIOUS
    <3> QED BY <3>1
  <2> HIDE DEF Solves, f
  <2> QED BY <1>1, <2>1
<1>5. ASSUME NEW k \in 1..n, k - 1 \in A PROVE k \in A
  <2>1. PICK f : Solves(f, k - 1)
    BY <1>5
  <2> DEFINE g == [S \in SUBSET (1..k) |-> IF k \in S THEN Step(f[S \ {k}], k) ELSE f[S]]
  <2>2. k \in Nat /\ k - 1 \in Nat /\ k \in 0..n
    BY <1>1
  <2>3. \A S \in SUBSET (1..k - 1) : S \in SUBSET (1..k) /\ k \notin S
    BY <2>2
  <2>4. \A S \in SUBSET (1..k - 1) : g[S] = f[S] /\ f[S] = Body(f, S)
    <3> HIDE DEF Body
    <3> QED BY <2>1, <2>3
  <2>5. ASSUME NEW S \in SUBSET (1..k) PROVE g[S] = Body(g, S)
    <3>1. CASE k \in S
      <4>1. Max(S) = k /\ S \ {k} \in SUBSET (1..k - 1) /\ S # {}
        BY <2>2, <3>1, SubsetsByMax
      <4>2. g[S] = Step(f[S \ {k}], k)
        BY <3>1
      <4>3. g[S \ {k}] = f[S \ {k}]
        BY <2>4, <4>1
      <4> HIDE DEF g
      <4> QED BY <4>1, <4>2, <4>3
    <3>2. CASE k \notin S
      <4>1. S \in SUBSET (1..k - 1) /\ (S # {} => S \ {Max(S)} \in SUBSET (1..k - 1))
        BY <2>2, <3>2, SubsetsByMax
      <4> HIDE DEF g
      <4> QED BY <2>4, <4>1
    <3> QED BY <3>1, <3>2
  <2>6. Solves(g, k)
    <3> HIDE DEF Body
    <3>1. g = [S \in SUBSET (1..k) |-> g[S]]
      OBVIOUS
    <3> HIDE DEF g
    <3> QED BY <2>5, <3>1
  <2> HIDE DEF Solves, g
  <2> QED BY <2>2, <2>6
<1>6. n \in A
  <2>1. n \in 0..n
    BY <1>1
  <2> HIDE DEF A, n
  <2> QED BY <1>1, <1>4, <1>5, <2>1, CountUp
<1>7. Solves(fold, n)
  <2> HIDE DEF Solves
  <2> QED BY <1>6 DEF fold
<1>8. fold[1..0] = <<>>
  <2>1. 1..0 = {} /\ {} \in SUBSET (1..n)
    OBVIOUS
  <2> QED BY <1>7, <2>1
<1>9. ASSUME NEW k \in 1..n PROVE fold[1..k] = Joined(fold[1..k - 1], parts[k])
  <2>1. 1..k \in SUBSET (1..n) /\ 1..k # {} /\ Max(1..k) = k /\ (1..k) \ {k} = 1..k - 1
    BY <1>1, IntervalFacts
  <2>2. fold[1..k] = Step(fold[1..k - 1], k)
    BY <1>7, <2>1
  <2> QED BY <1>3, <2>2 DEF Step, Joined
<1>10. PICK h : FlatSteps(h, parts)
  BY <1>3, FlattenIs
<1> HIDE DEF parts
<1> DEFINE B == {k \in 0..n : fold[1..k] = h[k]}
<1>11. 0 \in B
  BY <1>1, <1>8, <1>10 DEF FlatSteps
<1>12. ASSUME NEW k \in 1..n, k - 1 \in B PROVE k \in B
  <2>1. k \in 0..n /\ k - 1 \in Nat
    BY <1>1
  <2>2. h[k] = Joined(h[k - 1], parts[k])
    BY <1>3, <1>10 DEF FlatSteps
  <2> QED BY <1>9, <1>12, <2>1, <2>2
<1>13. n \in B
  <2>1. n \in 0..n
    BY <1>1
  <2> HIDE DEF B, n
  <2> QED BY <1>1, <1>11, <1>12, <2>1, CountUp
<1>14. AssistantContentFromRig(c) = FlattenSeq(parts)
  BY <1>2, <1>3, <1>10, <1>13 DEF FlatSteps
<1> QED BY <1>3, <1>14 DEF parts

\* Metadata follows the call it belongs to.
Attached(content) ==
  \A k \in DOMAIN content :
    content[k].kind = "ProviderData" /\ content[k].data = "tool_call_metadata" =>
      k > 1 /\ content[k - 1].kind = "ToolCall"

LEMMA AttachedConcat ==
  ASSUME NEW s, NEW t, IsSeq(s), IsSeq(t), Attached(s), Attached(t)
  PROVE  Attached(Joined(s, t))
<1> DEFINE d == Joined(s, t)
<1>1. /\ IsSeq(d) /\ Len(d) = Len(s) + Len(t)
      /\ \A k \in 1..Len(s) : d[k] = s[k]
      /\ \A k \in 1..Len(t) : d[Len(s) + k] = t[k]
  BY ConcatFacts
<1>2. /\ Len(s) \in Nat /\ Len(t) \in Nat /\ DOMAIN s = 1..Len(s) /\ DOMAIN t = 1..Len(t)
      /\ DOMAIN d = 1..Len(s) + Len(t)
  BY <1>1, SeqIs
<1> HIDE DEF d
<1>3. ASSUME NEW k \in DOMAIN d, d[k].kind = "ProviderData", d[k].data = "tool_call_metadata"
      PROVE  k > 1 /\ d[k - 1].kind = "ToolCall"
  <2>1. CASE k \in 1..Len(s)
    <3>1. d[k] = s[k]
      BY <1>1, <2>1
    <3>2. k > 1 /\ s[k - 1].kind = "ToolCall"
      BY <1>2, <1>3, <2>1, <3>1 DEF Attached
    <3>3. k - 1 \in 1..Len(s)
      BY <1>2, <2>1, <3>2
    <3> QED BY <1>1, <3>2, <3>3
  <2>2. CASE k \notin 1..Len(s)
    <3> DEFINE j == k - Len(s)
    <3>1. j \in 1..Len(t) /\ k = Len(s) + j
      BY <1>2, <2>2
    <3> HIDE DEF j
    <3>2. d[k] = t[j]
      BY <1>1, <3>1
    <3>3. j > 1 /\ t[j - 1].kind = "ToolCall"
      BY <1>2, <1>3, <3>1, <3>2 DEF Attached
    <3>4. j - 1 \in 1..Len(t) /\ k - 1 = Len(s) + (j - 1) /\ k > 1
      BY <1>2, <3>1, <3>3
    <3>5. d[Len(s) + (j - 1)] = t[j - 1]
      BY <1>1, <3>4
    <3> QED BY <3>3, <3>4, <3>5
  <2> QED BY <2>1, <2>2
<1> QED BY <1>3 DEF Attached, d

LEMMA AttachedFlat ==
  ASSUME NEW seqs, IsSeqs(seqs), \A k \in 1..Len(seqs) : Attached(seqs[k])
  PROVE  Attached(FlattenSeq(seqs))
<1> DEFINE n == Len(seqs)
<1>1. PICK f : FlatSteps(f, seqs)
  BY FlattenIs
<1>2. n \in Nat /\ n \in 0..n
  BY SeqIs DEF IsSeqs
<1> DEFINE A == {k \in 0..n : Attached(f[k])}
<1>3. 0 \in A
  <2>1. f[0] = <<>> /\ 0 \in 0..n
    BY <1>1, <1>2 DEF FlatSteps
  <2>2. Attached(<<>>)
    BY DEF Attached
  <2> QED BY <2>1, <2>2
<1>4. ASSUME NEW k \in 1..n, k - 1 \in A PROVE k \in A
  <2>1. k - 1 \in 0..n /\ k \in 0..n
    BY <1>2
  <2>2. f[k] = Joined(f[k - 1], seqs[k]) /\ IsSeq(f[k - 1]) /\ IsSeq(seqs[k])
    BY <1>1, <2>1 DEF FlatSteps, IsSeqs
  <2> QED BY <1>4, <2>1, <2>2, AttachedConcat
<1>5. n \in A
  <2> HIDE DEF A, n
  <2> QED BY <1>2, <1>3, <1>4, CountUp
<1> QED BY <1>1, <1>5 DEF FlatSteps

LEMMA FromRigAttached ==
  ASSUME NEW part, IsRigPart(part)
  PROVE  Attached(FromRig(part))
<1> DEFINE text == TextContent(part.text)
           mark == DataContent("text_metadata", Nil)
           tool == ToolContent(part.call)
           meta == DataContent("tool_call_metadata", part.meta)
           reasoning == DataContent("reasoning", part.reasoning)
           image == DataContent("image", part.image)
<1>1. /\ text.kind = "Text" /\ tool.kind = "ToolCall" /\ mark.data = "text_metadata"
      /\ reasoning.data = "reasoning" /\ image.data = "image"
  BY DEF TextContent, ToolContent, DataContent
<1>2. FromRig(part) \in {<<>>} \cup {<<x>> : x \in {text, tool, reasoning, image}}
                          \cup {<<text, mark>>, <<tool, meta>>}
  BY FromRigFacts
<1> HIDE DEF text, mark, tool, meta, reasoning, image
<1>3. Attached(<<>>)
  BY DEF Attached
<1>4. ASSUME NEW x \in {text, tool, reasoning, image} PROVE Attached(<<x>>)
  <2>1. DOMAIN <<x>> = {1} /\ <<x>>[1] = x
    OBVIOUS
  <2>2. ~(x.kind = "ProviderData" /\ x.data = "tool_call_metadata")
    BY <1>1
  <2> QED BY <2>1, <2>2 DEF Attached
<1>5. Attached(<<text, mark>>)
  <2> DEFINE two == <<text, mark>>
  <2>1. DOMAIN two = {1, 2} /\ two[1] = text /\ two[2] = mark
    OBVIOUS
  <2> HIDE DEF two
  <2>2. Attached(two)
    BY <1>1, <2>1 DEF Attached
  <2> QED BY <2>2 DEF two
<1>6. Attached(<<tool, meta>>)
  <2> DEFINE two == <<tool, meta>>
  <2>1. DOMAIN two = {1, 2} /\ two[1] = tool /\ two[2] = meta
    OBVIOUS
  <2> HIDE DEF two
  <2>2. 2 > 1 /\ two[2 - 1].kind = "ToolCall"
    BY <1>1, <2>1
  <2>3. Attached(two)
    BY <1>1, <2>1, <2>2 DEF Attached
  <2> QED BY <2>3 DEF two
<1> QED BY <1>2, <1>3, <1>4, <1>5, <1>6

\* The content of a response: formed as said content is, without results, and
\* with the metadata of each call behind it.
LEMMA ResponseFacts ==
  ASSUME NEW provider, NEW raw, IsSeq(raw.choice), \A part \in Range(raw.choice) : IsRigPart(part)
  PROVE  /\ IsSeq(ResponseContent(provider, raw))
         /\ \A part \in Range(ResponseContent(provider, raw)) :
              IsPart(part) /\ part.kind # "ToolResult"
         /\ Attached(ResponseContent(provider, raw))
<1> DEFINE content == AssistantContentFromRig(raw.choice)
           numbered == Numbered(content)
           normal == IF provider = "ollama" THEN numbered ELSE content
           response == ResponseContent(provider, raw)
           parts == [k \in DOMAIN raw.choice |-> FromRig(raw.choice[k])]
           n == Len(content)
<1>1. IsSeqs(parts) /\ Len(parts) = Len(raw.choice) /\ content = FlattenSeq(parts)
  BY ResponseIsFlat
<1>2. Len(raw.choice) \in Nat /\ DOMAIN raw.choice = 1..Len(raw.choice)
  BY SeqIs
<1>3. \A k \in 1..Len(parts) : parts[k] = FromRig(raw.choice[k]) /\ IsRigPart(raw.choice[k])
  BY <1>1, <1>2 DEF Range
<1> HIDE DEF parts
<1>4. /\ IsSeq(content)
      /\ Range(content) = UNION {Range(parts[k]) : k \in 1..Len(parts)}
      /\ Attached(content)
  <2>1. \A k \in 1..Len(parts) : Attached(parts[k])
    BY <1>3, FromRigAttached
  <2> HIDE DEF content
  <2> QED BY <1>1, <2>1, FlattenFacts, AttachedFlat
<1>5. \A x \in Range(content) : IsRaw(x)
  BY <1>3, <1>4, FromRigFacts
<1> HIDE DEF content
<1>6. n \in Nat /\ DOMAIN content = 1..n /\ \A k \in 1..n : IsRaw(content[k])
  BY <1>4, <1>5, SeqIs DEF Range
<1>7. /\ numbered = [k \in 1..n |-> numbered[k]]
      /\ \A k \in 1..n : /\ IsRaw(numbered[k]) /\ numbered[k].kind = content[k].kind
                         /\ numbered[k].kind = "ProviderData" => numbered[k] = content[k]
  <2>1. numbered = [k \in 1..n |-> numbered[k]]
    BY <1>6 DEF Numbered
  <2>2. ASSUME NEW k \in 1..n
        PROVE  /\ IsRaw(numbered[k]) /\ numbered[k].kind = content[k].kind
               /\ numbered[k].kind = "ProviderData" => numbered[k] = content[k]
    <3>1. CASE content[k].kind # "ToolCall"
      BY <1>6, <3>1 DEF Numbered
    <3>2. CASE content[k].kind = "ToolCall"
      <4>1. content[k] = ToolContent(content[k].call)
        BY <1>6, <3>2 DEF IsRaw
      <4>2. \E id : numbered[k] = [content[k] EXCEPT !.call.id = id]
        BY <1>6, <3>2 DEF Numbered
      <4>3. PICK id : numbered[k] = [content[k] EXCEPT !.call.id = id]
        BY <4>2
      <4>4. numbered[k] = ToolContent([content[k].call EXCEPT !.id = id])
        BY <4>1, <4>3 DEF ToolContent
      <4> HIDE DEF numbered
      <4> QED BY <3>2, <4>4 DEF IsRaw, ToolContent
    <3> QED BY <3>1, <3>2
  <2> QED BY <2>1, <2>2
<1> HIDE DEF numbered
<1>8. /\ normal = [k \in 1..n |-> normal[k]]
      /\ \A k \in 1..n : /\ IsRaw(normal[k]) /\ normal[k].kind = content[k].kind
                         /\ normal[k].kind = "ProviderData" => normal[k] = content[k]
  <2>1. content = [k \in 1..n |-> content[k]]
    BY <1>4, SeqIs
  <2> QED BY <1>6, <1>7, <2>1
<1>9. DOMAIN normal = 1..n /\ response = [k \in DOMAIN normal |-> OwnedPart(provider, normal[k])]
  <2>1. response = [k \in DOMAIN normal |-> OwnedPart(provider, normal[k])]
    BY DEF ResponseContent, content, numbered
  <2> HIDE DEF normal, response
  <2>2. DOMAIN normal = 1..n
    BY <1>8
  <2> QED BY <2>1, <2>2
<1> HIDE DEF normal
<1>10. /\ response = [k \in 1..n |-> response[k]] /\ DOMAIN response = 1..n
       /\ \A k \in 1..n : response[k] = OwnedPart(provider, normal[k])
  <2> HIDE DEF response
  <2> QED BY <1>9
<1>11. ASSUME NEW x, IsRaw(x)
       PROVE  /\ IsPart(OwnedPart(provider, x)) /\ OwnedPart(provider, x).kind = x.kind
              /\ x.kind # "ToolResult"
              /\ x.kind = "ProviderData" => OwnedPart(provider, x).data = x.data
  <2>1. CASE x.kind = "ProviderData"
    BY <1>11, <2>1 DEF OwnedPart, IsPart, IsRaw, DataContent
  <2>2. CASE x.kind = "Text"
    BY <1>11, <2>2 DEF OwnedPart, IsPart, IsRaw
  <2>3. CASE x.kind = "ToolCall"
    BY <1>11, <2>3 DEF OwnedPart, IsPart, IsRaw
  <2> QED BY <1>11, <2>1, <2>2, <2>3 DEF IsRaw
<1> HIDE DEF response
<1>12. \A k \in 1..n :
         /\ IsPart(response[k]) /\ response[k].kind = content[k].kind
         /\ response[k].kind # "ToolResult"
         /\ response[k].kind = "ProviderData" => response[k].data = content[k].data
  BY <1>8, <1>10, <1>11
<1>13. IsSeq(response)
  <2> HIDE DEF n
  <2> QED BY <1>6, <1>10, FunctionIsSeq
<1>14. Attached(response)
  <2>1. ASSUME NEW k \in 1..n, response[k].kind = "ProviderData",
               response[k].data = "tool_call_metadata"
        PROVE  k > 1 /\ response[k - 1].kind = "ToolCall"
    <3>1. k > 1 /\ content[k - 1].kind = "ToolCall"
      BY <1>4, <1>6, <1>12, <2>1 DEF Attached
    <3>2. k - 1 \in 1..n
      BY <1>6, <3>1
    <3> QED BY <1>12, <3>1, <3>2
  <2> QED BY <1>10, <2>1 DEF Attached
<1>15. \A part \in Range(response) : IsPart(part) /\ part.kind # "ToolResult"
  BY <1>10, <1>12 DEF Range
<1> QED BY <1>13, <1>14, <1>15 DEF response

-----------------------------------------------------------------------------
(* The history and what waits for an answer.                               *)

\* Parts as the history has them: the results of the host name what they answer.
FormedPart(part) ==
  \/ IsPart(part)
  \/ /\ part.kind = "ToolResult"
     /\ part = ResultPart(part.call, part.value, part.isError, part.answers)

Formed(message) ==
  /\ message = Message(message.role, message.content) /\ message.role \in Roles
  /\ IsSeq(message.content)
  /\ \A part \in Range(message.content) : FormedPart(part)

HistoryInv ==
  /\ session \in DOMAIN Sessions
  /\ IsSeq(history)
  /\ \A i \in DOMAIN history : Formed(history[i])

\* The locations of a history are where it has parts.
LEMMA LocationsFacts ==
  ASSUME NEW h, IsSeq(h), \A i \in DOMAIN h : IsSeq(h[i].content)
  PROVE  /\ IsSeq(Locations(h))
         /\ \A at : at \in Range(Locations(h)) <=>
                    \E i \in DOMAIN h : \E k \in DOMAIN h[i].content : at = <<i, k>>
<1> DEFINE Places(i) == [k \in DOMAIN h[i].content |-> <<i, k>>]
           places == [i \in DOMAIN h |-> Places(i)]
<1>1. Len(h) \in Nat /\ DOMAIN h = 1..Len(h)
  BY SeqIs
<1>2. ASSUME NEW i \in DOMAIN h
      PROVE  /\ IsSeq(Places(i))
             /\ \A at : at \in Range(Places(i)) <=> \E k \in DOMAIN h[i].content : at = <<i, k>>
  <2> DEFINE c == h[i].content
  <2>1. IsSeq(c)
    OBVIOUS
  <2>2. Len(c) \in Nat /\ DOMAIN c = 1..Len(c)
    BY <2>1, SeqIs
  <2>3. Places(i) = [k \in 1..Len(c) |-> Places(i)[k]]
    BY <2>2
  <2>4. Range(Places(i)) = {<<i, k>> : k \in DOMAIN c}
    BY DEF Range
  <2> HIDE DEF Places, c
  <2>5. IsSeq(Places(i))
    BY <2>2, <2>3, FunctionIsSeq
  <2> QED BY <2>4, <2>5 DEF c
<1>3. Locations(h) = FlattenSeq(places)
  BY DEF Locations
<1>4. /\ places = [i \in 1..Len(h) |-> places[i]]
      /\ \A i \in 1..Len(h) : places[i] = Places(i)
  BY <1>1
<1> HIDE DEF Places, places
<1>5. IsSeqs(places) /\ Len(places) = Len(h)
  <2>1. IsSeq(places) /\ Len(places) = Len(h)
    BY <1>1, <1>4, FunctionIsSeq
  <2> QED BY <1>1, <1>2, <1>4, <2>1 DEF IsSeqs
<1>6. /\ IsSeq(Locations(h))
      /\ Range(Locations(h)) = UNION {Range(places[i]) : i \in 1..Len(places)}
  BY <1>3, <1>5, FlattenFacts
<1>7. Range(Locations(h)) = UNION {Range(Places(i)) : i \in DOMAIN h}
  BY <1>1, <1>4, <1>5, <1>6
<1>8. ASSUME NEW at
      PROVE  at \in Range(Locations(h)) <=>
               \E i \in DOMAIN h : \E k \in DOMAIN h[i].content : at = <<i, k>>
  BY <1>2, <1>7
<1> QED BY <1>6, <1>8

LEMMA HistoryLocations ==
  ASSUME HistoryInv
  PROVE  /\ IsSeq(Locations(history))
         /\ \A at : at \in Range(Locations(history)) <=>
                    \E i \in DOMAIN history : \E k \in DOMAIN history[i].content : at = <<i, k>>
  BY LocationsFacts DEF HistoryInv, Formed

\* One message more.
LEMMA HistoryMore ==
  ASSUME NEW message, HistoryInv, Formed(message),
         history' = Append(history, message), session' = session
  PROVE  /\ HistoryInv' /\ Len(history) \in Nat /\ Len(history') = Len(history) + 1
         /\ \A i \in DOMAIN history : i \in DOMAIN history' /\ history'[i] = history[i]
         /\ history'[Len(history) + 1] = message
         /\ DOMAIN history = 1..Len(history)
         /\ DOMAIN history' = 1..Len(history) + 1
<1>1. IsSeq(history) /\ Len(history) \in Nat /\ DOMAIN history = 1..Len(history)
  BY SeqIs DEF HistoryInv
<1> DEFINE more == Append(history, message)
<1>2. /\ IsSeq(more) /\ Len(more) = Len(history) + 1
      /\ \A i \in 1..Len(history) : more[i] = history[i]
      /\ more[Len(history) + 1] = message
  <2>1. more = Joined(history, <<message>>)
    BY <1>1, AppendFacts
  <2> HIDE DEF more
  <2> QED BY <1>1, <2>1, LongerFacts
<1> HIDE DEF more
<1>3. history' = more
  BY DEF more
<1>4. DOMAIN more = 1..Len(history) + 1
  BY <1>1, <1>2, SeqIs
<1>5. \A i \in DOMAIN more : Formed(more[i])
  <2> SUFFICES ASSUME NEW i \in DOMAIN more PROVE Formed(more[i])
    OBVIOUS
  <2>1. i \in 1..Len(history) \/ i = Len(history) + 1
    BY <1>1, <1>4
  <2> QED BY <1>1, <1>2, <2>1 DEF HistoryInv
<1>6. HistoryInv'
  BY <1>2, <1>3, <1>5 DEF HistoryInv
<1> QED BY <1>1, <1>2, <1>3, <1>4, <1>6

LEMMA SaidIsFormed ==
  ASSUME NEW message, IsMessage(message)
  PROVE  Formed(message)
  BY DEF IsMessage, Formed, FormedPart, IsSeq

LEMMA RespondedIsFormed ==
  ASSUME NEW provider, NEW raw, session \in DOMAIN Sessions, raw \in Here.answers
  PROVE  /\ Formed(Message("Assistant", ResponseContent(provider, raw)))
         /\ Attached(ResponseContent(provider, raw))
         /\ \A part \in Range(ResponseContent(provider, raw)) : part.kind # "ToolResult"
<1>1. IsSeq(raw.choice) /\ \A part \in Range(raw.choice) : IsRigPart(part)
  BY MessagesAssumption DEF Here, IsSeq
<1>2. /\ IsSeq(ResponseContent(provider, raw))
      /\ Attached(ResponseContent(provider, raw))
      /\ \A part \in Range(ResponseContent(provider, raw)) :
           IsPart(part) /\ part.kind # "ToolResult"
  BY <1>1, ResponseFacts
<1> QED BY <1>2 DEF Formed, Message, Roles, FormedPart

LEMMA AnswersByPlace ==
  ASSUME NEW h, NEW L, NEW at,
         \A x : x \in L <=> \E i \in DOMAIN h : \E k \in DOMAIN h[i].content : x = <<i, k>>
  PROVE  (\A other \in L : PartAt(h, other).kind = "ToolResult" => PartAt(h, other).answers # at)
         <=> \A i \in DOMAIN h : \A k \in DOMAIN h[i].content :
               h[i].content[k].kind = "ToolResult" => h[i].content[k].answers # at
<1>1. \A i, k : PartAt(h, <<i, k>>) = h[i].content[k]
  BY DEF PartAt
<1>2. ASSUME \A other \in L : PartAt(h, other).kind = "ToolResult" => PartAt(h, other).answers # at,
             NEW i \in DOMAIN h, NEW k \in DOMAIN h[i].content,
             h[i].content[k].kind = "ToolResult"
      PROVE  h[i].content[k].answers # at
  <2>1. <<i, k>> \in L
    OBVIOUS
  <2> QED BY <1>1, <1>2, <2>1
<1>3. ASSUME \A i \in DOMAIN h : \A k \in DOMAIN h[i].content :
               h[i].content[k].kind = "ToolResult" => h[i].content[k].answers # at,
             NEW other \in L, PartAt(h, other).kind = "ToolResult"
      PROVE  PartAt(h, other).answers # at
  <2>1. PICK i \in DOMAIN h : \E k \in DOMAIN h[i].content : other = <<i, k>>
    OBVIOUS
  <2>2. PICK k \in DOMAIN h[i].content : other = <<i, k>>
    BY <2>1
  <2> QED BY <1>1, <1>3, <2>2
<1> QED BY <1>2, <1>3

\* What waits for an answer is a call somewhere in the history.
LEMMA UnansweredFacts ==
  ASSUME HistoryInv
  PROVE  \A at : at \in Unanswered <=>
           /\ \E i \in DOMAIN history : \E k \in DOMAIN history[i].content : at = <<i, k>>
           /\ PartAt(history, at).kind = "ToolCall"
           /\ \A i \in DOMAIN history : \A k \in DOMAIN history[i].content :
                history[i].content[k].kind = "ToolResult" => history[i].content[k].answers # at
<1>1. \A i \in DOMAIN history : \A k \in DOMAIN history[i].content :
        PartAt(history, <<i, k>>) = history[i].content[k]
  BY DEF PartAt
<1>2. \A at : at \in Range(Locations(history)) <=>
        \E i \in DOMAIN history : \E k \in DOMAIN history[i].content : at = <<i, k>>
  BY HistoryLocations
<1> DEFINE L == Range(Locations(history))
<1>3. \A at : at \in Unanswered <=>
        /\ at \in L /\ PartAt(history, at).kind = "ToolCall"
        /\ \A other \in L : PartAt(history, other).kind = "ToolResult" =>
             PartAt(history, other).answers # at
  BY DEF Unanswered
<1> HIDE DEF L
<1>4. \A at : (\A other \in L : PartAt(history, other).kind = "ToolResult" =>
                 PartAt(history, other).answers # at)
        <=> \A i \in DOMAIN history : \A k \in DOMAIN history[i].content :
              history[i].content[k].kind = "ToolResult" => history[i].content[k].answers # at
  <2>1. \A x : x \in L <=> \E i \in DOMAIN history : \E k \in DOMAIN history[i].content : x = <<i, k>>
    BY <1>2 DEF L
  <2>2. ASSUME NEW at
        PROVE  (\A other \in L : PartAt(history, other).kind = "ToolResult" =>
                  PartAt(history, other).answers # at)
               <=> \A i \in DOMAIN history : \A k \in DOMAIN history[i].content :
                     history[i].content[k].kind = "ToolResult" =>
                       history[i].content[k].answers # at
    BY <2>1, AnswersByPlace, Zenon
  <2> QED BY <2>2
<1> QED BY <1>2, <1>3, <1>4 DEF L

\* The same of the next state.
LEMMA UnansweredLater ==
  ASSUME HistoryInv'
  PROVE  \A x : x \in Unanswered' <=>
           /\ \E i \in DOMAIN history' : \E k \in DOMAIN history'[i].content : x = <<i, k>>
           /\ PartAt(history', x).kind = "ToolCall"
           /\ \A i \in DOMAIN history' : \A k \in DOMAIN history'[i].content :
                history'[i].content[k].kind = "ToolResult" => history'[i].content[k].answers # x
<1>1. \A i \in DOMAIN history' : \A k \in DOMAIN history'[i].content :
        PartAt(history', <<i, k>>) = history'[i].content[k]
  BY DEF PartAt
<1>2. \A i \in DOMAIN history' : IsSeq(history'[i].content)
  BY DEF HistoryInv, Formed
<1>3. \A x : x \in Range(Locations(history')) <=>
        \E i \in DOMAIN history' : \E k \in DOMAIN history'[i].content : x = <<i, k>>
  <2> DEFINE h == history'
  <2>1. IsSeq(h) /\ \A i \in DOMAIN h : IsSeq(h[i].content)
    BY <1>2 DEF HistoryInv
  <2> HIDE DEF h
  <2>2. \A x : x \in Range(Locations(h)) <=>
          \E i \in DOMAIN h : \E k \in DOMAIN h[i].content : x = <<i, k>>
    BY <2>1, LocationsFacts
  <2> QED BY <2>2 DEF h
<1> DEFINE L == Range(Locations(history'))
<1>4. \A x : x \in Unanswered' <=>
        /\ x \in L /\ PartAt(history', x).kind = "ToolCall"
        /\ \A other \in L : PartAt(history', other).kind = "ToolResult" =>
             PartAt(history', other).answers # x
  BY DEF Unanswered
<1> HIDE DEF L
<1>5. \A x : (\A other \in L : PartAt(history', other).kind = "ToolResult" =>
                PartAt(history', other).answers # x)
        <=> \A i \in DOMAIN history' : \A k \in DOMAIN history'[i].content :
              history'[i].content[k].kind = "ToolResult" => history'[i].content[k].answers # x
  <2> DEFINE h == history'
  <2>1. \A x : x \in L <=> \E i \in DOMAIN h : \E k \in DOMAIN h[i].content : x = <<i, k>>
    BY <1>3 DEF L
  <2> HIDE DEF h
  <2> HIDE DEF L
  <2>2. ASSUME NEW x
        PROVE  (\A other \in L : PartAt(h, other).kind = "ToolResult" =>
                  PartAt(h, other).answers # x)
               <=> \A i \in DOMAIN h : \A k \in DOMAIN h[i].content :
                     h[i].content[k].kind = "ToolResult" => h[i].content[k].answers # x
    BY <2>1, AnswersByPlace, Zenon
  <2> QED BY <2>2 DEF h
<1> QED BY <1>3, <1>4, <1>5 DEF L

\* A result answers its call and no other.
LEMMA ResultAnswers ==
  ASSUME NEW at \in Unanswered, NEW value, NEW isError, HistoryInv,
         history' = Append(history, Result(at, value, isError)), session' = session
  PROVE  /\ HistoryInv'
         /\ Unanswered' = Unanswered \ {at}
<1> DEFINE part == ResultPart(PartAt(history, at).call.id, value, isError, at)
           n == Len(history)
<1>1. Result(at, value, isError) = Message("Tool", <<part>>)
  BY DEF Result
<1>2. Formed(Message("Tool", <<part>>))
  <2>1. FormedPart(part)
    BY DEF FormedPart, ResultPart
  <2> HIDE DEF part
  <2> QED BY <2>1, OneIsSeq DEF Formed, Message, Roles
<1>3. part.kind = "ToolResult" /\ part.answers = at
  BY DEF ResultPart
<1> HIDE DEF part
<1>4. /\ HistoryInv' /\ n \in Nat
      /\ \A i \in DOMAIN history : i \in DOMAIN history' /\ history'[i] = history[i]
      /\ history'[n + 1] = Message("Tool", <<part>>)
      /\ DOMAIN history = 1..n /\ DOMAIN history' = 1..n + 1
  BY <1>1, <1>2, HistoryMore
<1>5. /\ history'[n + 1].content = <<part>>
      /\ DOMAIN <<part>> = {1} /\ <<part>>[1] = part
  BY <1>4 DEF Message
<1>6. \A x : x \in Unanswered' <=>
        /\ \E i \in DOMAIN history' : \E k \in DOMAIN history'[i].content : x = <<i, k>>
        /\ PartAt(history', x).kind = "ToolCall"
        /\ \A i \in DOMAIN history' : \A k \in DOMAIN history'[i].content :
             history'[i].content[k].kind = "ToolResult" => history'[i].content[k].answers # x
  BY <1>4, UnansweredLater
<1> HIDE DEF n
<1>7. \A i : i \in DOMAIN history' <=> i \in DOMAIN history \/ i = n + 1
  BY <1>4
<1>8. \A i \in DOMAIN history : \A k \in DOMAIN history[i].content :
        PartAt(history', <<i, k>>) = PartAt(history, <<i, k>>)
  BY <1>4 DEF PartAt
<1>9. PartAt(history', <<n + 1, 1>>) = part
  BY <1>5 DEF PartAt
<1>10. ASSUME NEW x PROVE x \in Unanswered' <=> x \in Unanswered /\ x # at
  <2>1. ASSUME x \in Unanswered' PROVE x \in Unanswered /\ x # at
    <3>1. x # at
      BY <1>3, <1>5, <1>6, <1>7, <2>1
    <3>2. PICK i \in DOMAIN history' : \E k \in DOMAIN history'[i].content : x = <<i, k>>
      BY <1>6, <2>1
    <3>3. PICK k \in DOMAIN history'[i].content : x = <<i, k>>
      BY <3>2
    <3>4. i # n + 1
      BY <1>3, <1>5, <1>6, <1>9, <2>1, <3>3
    <3>5. i \in DOMAIN history /\ k \in DOMAIN history[i].content
      BY <1>4, <1>7, <3>4
    <3> QED BY <1>4, <1>6, <1>7, <1>8, <2>1, <3>1, <3>3, <3>5, UnansweredFacts
  <2>2. ASSUME x \in Unanswered, x # at PROVE x \in Unanswered'
    <3>1. PICK i \in DOMAIN history : \E k \in DOMAIN history[i].content : x = <<i, k>>
      BY <2>2, UnansweredFacts
    <3>2. PICK k \in DOMAIN history[i].content : x = <<i, k>>
      BY <3>1
    <3>3. i \in DOMAIN history' /\ k \in DOMAIN history'[i].content
      BY <1>4
    <3>4. PartAt(history', x).kind = "ToolCall"
      BY <1>8, <2>2, <3>2, UnansweredFacts
    <3>5. ASSUME NEW j \in DOMAIN history', NEW l \in DOMAIN history'[j].content,
                 history'[j].content[l].kind = "ToolResult"
          PROVE  history'[j].content[l].answers # x
      <4>1. CASE j = n + 1
        BY <1>3, <1>5, <2>2, <4>1
      <4>2. CASE j \in DOMAIN history
        BY <1>4, <2>2, <3>5, <4>2, UnansweredFacts
      <4> QED BY <1>7, <4>1, <4>2
    <3> QED BY <1>6, <3>2, <3>3, <3>4, <3>5
  <2> QED BY <2>1, <2>2
<1> QED BY <1>4, <1>10

\* The flow of a conversation: nothing waits for an answer while the host waits
\* for one, what executes is a call that waits, and no call executes twice.
FlowInv ==
  /\ HistoryInv
  /\ bridges \subseteq Here.configs
  /\ call # Nil =>
       call.bridge \in bridges /\ call.request.messages = history /\ Unanswered = {}
  /\ Executing \subseteq Unanswered
  /\ \A e, f \in running : e.at = f.at => e = f
  /\ \A name \in DOMAIN registered : registered[name].name = name

LEMMA FlowInit == Init => FlowInv
<1> SUFFICES ASSUME Init PROVE FlowInv
  OBVIOUS
<1>1. HistoryInv
  BY EmptyIsSeq DEF Init, HistoryInv
<1>2. Executing = {}
  BY DEF Init, RegistryInit, Executing
<1> QED BY <1>1, <1>2 DEF Init, RegistryInit, NoTools, FlowInv

\* A result, of an execution that ends or of a call no tool was found for.
LEMMA ResultKeepsFlow ==
  ASSUME FlowInv, NEW at \in Unanswered, NEW value, NEW isError,
         history' = Append(history, Result(at, value, isError)),
         running' = {e \in running : e.at # at},
         UNCHANGED <<session, bridges, call, registered>>
  PROVE  FlowInv'
<1>1. HistoryInv' /\ Unanswered' = Unanswered \ {at}
  BY ResultAnswers DEF FlowInv
<1>2. call = Nil
  BY DEF FlowInv
<1>3. Executing' \subseteq Unanswered'
  BY <1>1 DEF FlowInv, Executing
<1> QED BY <1>1, <1>2, <1>3 DEF FlowInv, Here

LEMMA FlowStep == FlowInv /\ [Next]_vars => FlowInv'
<1> SUFFICES ASSUME FlowInv, [Next]_vars PROVE FlowInv'
  OBVIOUS
<1>1. ASSUME UNCHANGED <<session, history>> PROVE HistoryInv' /\ Unanswered' = Unanswered
  BY <1>1 DEF FlowInv, HistoryInv, Unanswered, Here
<1>2. ASSUME UNCHANGED <<session, bridges, history, registryVars>>, call' = call \/ call' = Nil
      PROVE  FlowInv'
  BY <1>1, <1>2 DEF FlowInv, registryVars, Executing, Here
<1>3. ASSUME NEW message, Formed(message), history' = Append(history, message), Unanswered = {},
             call' = Nil, UNCHANGED <<session, bridges, registryVars>>
      PROVE  FlowInv'
  <2>1. HistoryInv'
    BY <1>3, HistoryMore DEF FlowInv
  <2>2. Executing' = {}
    BY <1>3 DEF FlowInv, Executing, registryVars
  <2> QED BY <1>3, <2>1, <2>2 DEF FlowInv, registryVars, Here
<1>4. ASSUME NEW config \in Here.configs, Build(config) PROVE FlowInv'
  <2>1. /\ UNCHANGED <<session, history, call, running, registered>>
        /\ bridges' \subseteq Here.configs /\ bridges \subseteq bridges'
    BY <1>4 DEF Build, FlowInv, registryVars
  <2> QED BY <1>1, <2>1 DEF FlowInv, Executing, Here
<1>5. ASSUME NEW message \in Here.messages, Say(message) PROVE FlowInv'
  <2>1. Formed(message)
    BY <1>5, MessagesAssumption, SaidIsFormed DEF FlowInv, HistoryInv, Here
  <2> QED BY <1>3, <1>5, <2>1 DEF Say, HostFree
<1>6. ASSUME NEW config \in bridges, NEW asked, Send(config, asked) PROVE FlowInv'
  <2>1. /\ UNCHANGED <<session, bridges, history, running, registered>>
        /\ Unanswered = {}
        /\ \/ call' = call
           \/ call'.bridge = config /\ call'.request = RequestOf(asked)
    BY <1>6 DEF Send, HostFree, registryVars
  <2>2. call' # Nil => call'.bridge \in bridges' /\ call'.request.messages = history'
    BY <2>1 DEF FlowInv, RequestOf
  <2> QED BY <1>1, <2>1, <2>2 DEF FlowInv, Executing, Here
<1>7. ASSUME NEW raw \in Here.answers, Respond(raw) PROVE FlowInv'
  <2> DEFINE message == Message("Assistant", ResponseContent(call.bridge.provider, raw))
  <2>1. /\ call # Nil /\ call' = Nil /\ UNCHANGED <<session, bridges, registryVars>>
        /\ history' = history \/ history' = Append(history, message)
    BY <1>7 DEF Respond
  <2>2. Formed(message)
    BY RespondedIsFormed DEF FlowInv, HistoryInv
  <2> HIDE DEF message
  <2>3. Unanswered = {}
    BY <2>1 DEF FlowInv
  <2>4. CASE history' = history
    BY <1>2, <2>1, <2>4
  <2>5. CASE history' = Append(history, message)
    BY <1>3, <2>1, <2>2, <2>3, <2>5
  <2> QED BY <2>1, <2>4, <2>5
<1>8. ASSUME NEW error, Fail(error) PROVE FlowInv'
  BY <1>2, <1>8 DEF Fail
<1>9. CASE Cancel
  BY <1>2, <1>9 DEF Cancel
<1>10. ASSUME NEW at, StartTool(at) PROVE FlowInv'
  <2>1. /\ at \in Unanswered \ Executing
        /\ UNCHANGED <<session, bridges, history, call, registered>>
        /\ \E e : e.at = at /\ running' = running \cup {e}
    <3> DEFINE e == [call |-> PartAt(history, at).call, at |-> at,
                     tool |-> registered[PartAt(history, at).call.name]]
    <3>1. e.at = at
      OBVIOUS
    <3>2. running' = running \cup {e}
      BY <1>10 DEF StartTool, Execute
    <3> HIDE DEF e
    <3>3. \E x : x.at = at /\ running' = running \cup {x}
      BY <3>1, <3>2
    <3> QED BY <1>10, <3>3 DEF StartTool, Execute
  <2>2. PICK e : e.at = at /\ running' = running \cup {e}
    BY <2>1
  <2>3. Executing' \subseteq Unanswered'
    BY <1>1, <2>1, <2>2 DEF FlowInv, Executing
  <2>4. \A x, y \in running' : x.at = y.at => x = y
    BY <2>1, <2>2 DEF FlowInv, Executing
  <2> QED BY <1>1, <2>1, <2>3, <2>4 DEF FlowInv, Here
<1>11. ASSUME NEW at \in Unanswered, NEW isError, UnknownTool(at, isError) PROVE FlowInv'
  <2>1. running = {e \in running : e.at # at}
    BY <1>11 DEF UnknownTool, Executing
  <2> QED BY <1>11, <2>1, ResultKeepsFlow DEF UnknownTool, ExecuteUnknown, registryVars
<1>12. ASSUME NEW execution \in running, NEW value, NEW isError, Finish(execution),
              history' = Append(history, Result(execution.at, value, isError)),
              UNCHANGED <<session, bridges, call>>
       PROVE  FlowInv'
  <2> DEFINE at == execution.at
  <2>1. at \in Unanswered
    BY DEF FlowInv, Executing
  <2>2. running' = {e \in running : e.at # at} /\ registered' = registered
    BY <1>12 DEF Finish, FlowInv
  <2> HIDE DEF at
  <2>3. history' = Append(history, Result(at, value, isError))
    BY <1>12 DEF at
  <2> QED BY <1>12, <2>1, <2>2, <2>3, ResultKeepsFlow
<1>13. ASSUME NEW execution \in running, FinishTool(execution) PROVE FlowInv'
  BY <1>12, <1>13 DEF FinishTool
<1>14. ASSUME NEW execution \in running, NEW error, NEW isError,
              FailTool(execution, error, isError)
       PROVE  FlowInv'
  BY <1>12, <1>14 DEF FailTool
<1>15. ASSUME UNCHANGED <<session, bridges, history, call, running>>,
              \A name \in DOMAIN registered' : registered'[name].name = name
       PROVE  FlowInv'
  BY <1>1, <1>15 DEF FlowInv, Executing, Here
<1>16. ASSUME NEW tool, RegisterTool(tool) PROVE FlowInv'
  <2>1. \A name \in DOMAIN registered' : registered'[name].name = name
    BY <1>16 DEF RegisterTool, Register, Put, FlowInv
  <2> QED BY <1>15, <1>16, <2>1 DEF RegisterTool, Register
<1>17. ASSUME NEW tool, RefuseTool(tool) PROVE FlowInv'
  BY <1>2, <1>17 DEF RefuseTool, RegisterDuplicate
<1>18. ASSUME NEW name, UnregisterTool(name) PROVE FlowInv'
  <2>1. \A n \in DOMAIN registered' : registered'[n].name = n
    BY <1>18 DEF UnregisterTool, Unregister, FlowInv
  <2> QED BY <1>15, <1>18, <2>1 DEF UnregisterTool, Unregister
<1>19. CASE UNCHANGED vars
  BY <1>2, <1>19 DEF vars
<1> QED BY <1>4, <1>5, <1>6, <1>7, <1>8, <1>9, <1>10, <1>11, <1>13, <1>14, <1>16, <1>17,
           <1>18, <1>19 DEF Next

\* Replay, part by part.
LEMMA ReplayIs ==
  ASSUME NEW keeps, NEW c, IsSeq(c)
  PROVE  \E acc : /\ acc[0] = NoReplay
                  /\ \A k \in 1..Len(c) : acc[k] = ReplayPart(keeps, acc[k - 1], c[k])
                  /\ Replay(keeps, c) = acc[Len(c)]
<1> DEFINE n == Len(c)
           Step(x, i) == ReplayPart(keeps, x, c[i])
           Body(f, S) == IF S = {} THEN NoReplay ELSE Step(f[S \ {Max(S)}], Max(S))
           Solves(f, k) == f = [S \in SUBSET (1..k) |-> Body(f, S)]
           A == {k \in 0..n : \E f : Solves(f, k)}
           fold == CHOOSE f : Solves(f, n)
           acc == [k \in 0..n |-> fold[1..k]]
<1>1. n \in Nat /\ DOMAIN c = 1..n
  BY SeqIs
<1>2. Replay(keeps, c) = fold[1..n]
  BY <1>1 DEF Replay, FoldLeft, MapThenFoldSet
<1> HIDE DEF Step, fold
<1>3. 0 \in A
  <2> DEFINE f == [S \in SUBSET (1..0) |-> NoReplay]
  <2>1. Solves(f, 0)
    <3>1. \A S \in SUBSET (1..0) : S = {}
      OBVIOUS
    <3> QED BY <3>1
  <2> HIDE DEF Solves, f
  <2> QED BY <1>1, <2>1
<1>4. ASSUME NEW k \in 1..n, k - 1 \in A PROVE k \in A
  <2>1. PICK f : Solves(f, k - 1)
    BY <1>4
  <2> DEFINE g == [S \in SUBSET (1..k) |-> IF k \in S THEN Step(f[S \ {k}], k) ELSE f[S]]
  <2>2. k \in Nat /\ k - 1 \in Nat /\ k \in 0..n
    BY <1>1
  <2>3. \A S \in SUBSET (1..k - 1) : S \in SUBSET (1..k) /\ k \notin S
    BY <2>2
  <2>4. \A S \in SUBSET (1..k - 1) : g[S] = f[S] /\ f[S] = Body(f, S)
    <3> HIDE DEF Body
    <3> QED BY <2>1, <2>3
  <2>5. ASSUME NEW S \in SUBSET (1..k) PROVE g[S] = Body(g, S)
    <3>1. CASE k \in S
      <4>1. Max(S) = k /\ S \ {k} \in SUBSET (1..k - 1) /\ S # {}
        BY <2>2, <3>1, SubsetsByMax
      <4>2. g[S] = Step(f[S \ {k}], k)
        BY <3>1
      <4>3. g[S \ {k}] = f[S \ {k}]
        BY <2>4, <4>1
      <4> HIDE DEF g
      <4> QED BY <4>1, <4>2, <4>3
    <3>2. CASE k \notin S
      <4>1. S \in SUBSET (1..k - 1) /\ (S # {} => S \ {Max(S)} \in SUBSET (1..k - 1))
        BY <2>2, <3>2, SubsetsByMax
      <4> HIDE DEF g
      <4> QED BY <2>4, <4>1
    <3> QED BY <3>1, <3>2
  <2>6. Solves(g, k)
    <3> HIDE DEF Body
    <3>1. g = [S \in SUBSET (1..k) |-> g[S]]
      OBVIOUS
    <3> HIDE DEF g
    <3> QED BY <2>5, <3>1
  <2> HIDE DEF Solves, g
  <2> QED BY <2>2, <2>6
<1>5. n \in A
  <2>1. n \in 0..n
    BY <1>1
  <2> HIDE DEF A, n
  <2> QED BY <1>1, <1>3, <1>4, <2>1, CountUp
<1>6. Solves(fold, n)
  <2> HIDE DEF Solves
  <2> QED BY <1>5 DEF fold
<1>7. fold[1..0] = NoReplay
  <2>1. 1..0 = {} /\ {} \in SUBSET (1..n)
    OBVIOUS
  <2> QED BY <1>6, <2>1
<1>8. ASSUME NEW k \in 1..n PROVE fold[1..k] = Step(fold[1..k - 1], k)
  <2>1. 1..k \in SUBSET (1..n) /\ 1..k # {} /\ Max(1..k) = k /\ (1..k) \ {k} = 1..k - 1
    BY <1>1, IntervalFacts
  <2> QED BY <1>6, <2>1
<1>9. acc[0] = NoReplay /\ acc[n] = fold[1..n]
  BY <1>1, <1>7
<1>10. ASSUME NEW k \in 1..n PROVE acc[k] = Step(acc[k - 1], k)
  <2>1. acc[k] = fold[1..k] /\ acc[k - 1] = fold[1..k - 1]
    BY <1>1
  <2> QED BY <1>8, <2>1
<1> HIDE DEF acc
<1> QED BY <1>2, <1>9, <1>10 DEF Step

\* What the parts of a replay become, with the errors there are.
ReplayVerdicts == {"Ok", "ProjectionIncompatible", "InvalidRequest"}

IsReplay(r) ==
  /\ r = [verdict |-> r.verdict, rig |-> r.rig] /\ r.verdict \in ReplayVerdicts
  /\ IsSeq(r.rig) /\ \A part \in Range(r.rig) : IsRigPart(part)

LEMMA PushedFacts ==
  ASSUME NEW r, IsReplay(r), NEW part, IsRigPart(part)
  PROVE  /\ IsReplay(Pushed(r, part)) /\ Pushed(r, part).verdict = r.verdict
         /\ Pushed(r, part).rig = Joined(r.rig, <<part>>)
<1> DEFINE more == Joined(r.rig, <<part>>)
<1>1. IsSeq(more) /\ Range(more) = Range(r.rig) \cup {part} /\ Append(r.rig, part) = more
  BY LongerFacts, AppendFacts DEF IsReplay
<1>2. Pushed(r, part) = [verdict |-> r.verdict, rig |-> more]
  BY <1>1 DEF Pushed, IsReplay
<1> HIDE DEF more
<1>3. Pushed(r, part).verdict = r.verdict /\ Pushed(r, part).rig = more
  BY <1>2
<1>4. \A x \in Range(more) : IsRigPart(x)
  BY <1>1 DEF IsReplay
<1>5. IsReplay(Pushed(r, part))
  BY <1>1, <1>2, <1>3, <1>4 DEF IsReplay
<1> QED BY <1>3, <1>5 DEF more

LEMMA UnprojectableFacts ==
  ASSUME NEW r, IsReplay(r)
  PROVE  IsReplay(Unprojectable(r)) /\ Unprojectable(r).verdict # "Ok"
<1>1. Unprojectable(r) = [verdict |-> "ProjectionIncompatible", rig |-> r.rig]
  BY DEF Unprojectable, IsReplay
<1>2. Unprojectable(r).verdict = "ProjectionIncompatible" /\ Unprojectable(r).rig = r.rig
  BY <1>1
<1> QED BY <1>1, <1>2 DEF IsReplay, ReplayVerdicts

\* Metadata of a call goes to the call it follows, and to nothing else.
LEMMA MetadataFacts ==
  ASSUME NEW r, IsReplay(r), NEW meta
  PROVE  LET q == ReplayMetadata(r, meta)
             n == Len(r.rig)
         IN  /\ IsReplay(q)
             /\ q.verdict = "Ok" /\ r.verdict = "Ok" =>
                  /\ n > 0 /\ r.rig[n].type = "ToolCall" /\ Len(q.rig) = n
                  /\ \A k \in 1..n - 1 : q.rig[k] = r.rig[k]
                  /\ q.rig[n] = RigCall(r.rig[n].call, Renewed(r.rig[n].meta, meta))
<1> DEFINE q == ReplayMetadata(r, meta)
           n == Len(r.rig)
           last == r.rig[n]
           renewed == [r.rig EXCEPT ![n].meta = Renewed(@, meta)]
<1>1. n \in Nat /\ DOMAIN r.rig = 1..n /\ r.rig = [k \in 1..n |-> r.rig[k]]
  BY SeqIs DEF IsReplay
<1>2. CASE WellFormedMetadata(meta) /\ r.rig # <<>> /\ Last(r.rig).type = "ToolCall"
  <2>1. n > 0
    <3>1. n = 0 => r.rig = <<>>
      BY EmptyIsSeq, SameSeq DEF IsReplay
    <3> QED BY <1>1, <1>2, <3>1
  <2>2. last.type = "ToolCall" /\ last \in Range(r.rig)
    BY <1>1, <1>2, <2>1 DEF Last, Range
  <2>3. last = RigCall(last.call, last.meta)
    BY <2>2 DEF IsReplay, IsRigPart, RigText, RigReasoning, RigImage
  <2>4. [last EXCEPT !.meta = Renewed(@, meta)] = RigCall(last.call, Renewed(last.meta, meta))
    BY <2>3 DEF RigCall
  <2>5. renewed = [k \in 1..n |-> IF k = n THEN RigCall(last.call, Renewed(last.meta, meta))
                                   ELSE r.rig[k]]
    BY <1>1, <2>1, <2>4
  <2>6. q = [verdict |-> r.verdict, rig |-> renewed]
    BY <1>2 DEF ReplayMetadata, IsReplay
  <2> HIDE DEF renewed
  <2>7. IsSeq(renewed) /\ Len(renewed) = n
    BY <1>1, <2>5, FunctionIsSeq
  <2>8. /\ \A k \in 1..n - 1 : renewed[k] = r.rig[k]
        /\ renewed[n] = RigCall(last.call, Renewed(last.meta, meta))
    BY <1>1, <2>1, <2>5
  <2>9. \A part \in Range(renewed) : IsRigPart(part)
    <3>1. ASSUME NEW k \in 1..n PROVE IsRigPart(renewed[k])
      <4>1. CASE k = n
        BY <2>8, <4>1 DEF IsRigPart, RigCall
      <4>2. CASE k # n
        BY <1>1, <2>8, <4>2 DEF IsReplay, Range
      <4> QED BY <4>1, <4>2
    <3>2. DOMAIN renewed = 1..n
      BY <2>5
    <3> QED BY <3>1, <3>2 DEF Range
  <2>10. q.verdict = r.verdict /\ q.rig = renewed
    BY <2>6
  <2> HIDE DEF q
  <2>11. IsReplay(q)
    BY <2>6, <2>7, <2>9, <2>10 DEF IsReplay
  <2> QED BY <2>1, <2>2, <2>7, <2>8, <2>10, <2>11 DEF q
<1>3. CASE ~(WellFormedMetadata(meta) /\ r.rig # <<>> /\ Last(r.rig).type = "ToolCall")
  <2>1. q = Unprojectable(r)
    BY <1>3 DEF ReplayMetadata
  <2> QED BY <2>1, UnprojectableFacts
<1> QED BY <1>2, <1>3

LEMMA ReplayPartFacts ==
  ASSUME NEW r, IsReplay(r), NEW keeps, NEW part, FormedPart(part)
  PROVE  IsReplay(ReplayPart(keeps, r, part))
<1>1. CASE r.verdict # "Ok"
  BY <1>1 DEF ReplayPart
<1>2. CASE r.verdict = "Ok" /\ part.kind = "Text"
  <2>1. ReplayPart(keeps, r, part) = Pushed(r, RigText(part.text, FALSE))
    BY <1>2 DEF ReplayPart
  <2>2. IsRigPart(RigText(part.text, FALSE))
    BY DEF IsRigPart, RigText
  <2> QED BY <2>1, <2>2, PushedFacts
<1>3. CASE r.verdict = "Ok" /\ part.kind = "ToolCall"
  <2>1. ReplayPart(keeps, r, part) = Pushed(r, RigCall(part.call, Nil))
    BY <1>3 DEF ReplayPart
  <2>2. IsRigPart(RigCall(part.call, Nil))
    BY DEF IsRigPart, RigCall
  <2> QED BY <2>1, <2>2, PushedFacts
<1>4. CASE r.verdict = "Ok" /\ part.kind = "ProviderData"
  <2>1. ReplayPart(keeps, r, part) = ReplayData(keeps, r, part)
    BY <1>4 DEF ReplayPart
  <2>2. IsRigPart(RigReasoning(part.value))
    BY DEF IsRigPart, RigReasoning
  <2>3. CASE part.data = "reasoning"
    BY <2>1, <2>2, <2>3, PushedFacts, UnprojectableFacts DEF ReplayData
  <2>4. CASE part.data = "tool_call_metadata"
    BY <2>1, <2>4, MetadataFacts DEF ReplayData
  <2>5. CASE part.data \notin {"reasoning", "tool_call_metadata"}
    BY <2>1, <2>5 DEF ReplayData
  <2> QED BY <2>3, <2>4, <2>5
<1>5. CASE r.verdict = "Ok" /\ part.kind = "ToolResult"
  <2>1. ReplayPart(keeps, r, part) = [verdict |-> "InvalidRequest", rig |-> r.rig]
    BY <1>5 DEF ReplayPart, IsReplay
  <2> QED BY <2>1 DEF IsReplay, ReplayVerdicts
<1>6. part.kind \in {"Text", "ToolCall", "ProviderData", "ToolResult"}
  BY DEF FormedPart, IsPart
<1> QED BY <1>1, <1>2, <1>3, <1>4, <1>5, <1>6

LEMMA ReplayTyped ==
  ASSUME NEW keeps, NEW c, IsSeq(c), \A part \in Range(c) : FormedPart(part)
  PROVE  IsReplay(Replay(keeps, c))
<1> DEFINE n == Len(c)
<1>1. n \in Nat /\ DOMAIN c = 1..n
  BY SeqIs
<1>2. PICK acc : /\ acc[0] = NoReplay
                 /\ \A k \in 1..n : acc[k] = ReplayPart(keeps, acc[k - 1], c[k])
                 /\ Replay(keeps, c) = acc[n]
  BY ReplayIs
<1> DEFINE A == {k \in 0..n : IsReplay(acc[k])}
<1>3. 0 \in A
  <2>1. IsReplay(NoReplay)
    BY EmptyIsSeq DEF IsReplay, NoReplay, ReplayVerdicts
  <2> QED BY <1>1, <1>2, <2>1
<1>4. ASSUME NEW k \in 1..n, k - 1 \in A PROVE k \in A
  <2>1. FormedPart(c[k]) /\ k \in 0..n
    BY <1>1 DEF Range
  <2> QED BY <1>2, <1>4, <2>1, ReplayPartFacts
<1>5. n \in A
  <2>1. n \in 0..n
    BY <1>1
  <2> HIDE DEF A, n
  <2> QED BY <1>1, <1>3, <1>4, <2>1, CountUp
<1> QED BY <1>2, <1>5

-----------------------------------------------------------------------------
(* Verdicts: every operation answers "Ok" or an error there is.            *)

Refusals == {"Ok"} \cup BridgeErrors

LEMMA AssertsFacts ==
  ASSUME NEW condition
  PROVE  /\ Requires(condition) \in Refusals /\ Supports(condition) \in Refusals
         /\ Configured(condition) \in Refusals
         /\ Asserts(condition, "InvalidProviderResponse") \in Refusals
BY DEF Requires, Supports, Configured, Asserts, Refusals, BridgeErrors

LEMMA NeedsFacts ==
  ASSUME NEW caps, NEW used
  PROVE  Needs(caps, used) \in Refusals /\ CapabilitiesVerdict(caps) \in Refusals
BY DEF Needs, CapabilitiesVerdict, Refusals, BridgeErrors

LEMMA RefusalChain ==
  ASSUME NEW vs \in Seq(Refusals)
  PROVE  FirstError(vs) \in Refusals
<1>1. "Ok" \in Refusals
  BY DEF Refusals
<1> HIDE DEF Refusals
<1> QED BY <1>1, FirstErrorFacts

\* The same for the chains there are, by their length.
LEMMA Refusals2 ==
  ASSUME NEW a \in Refusals, NEW b \in Refusals
  PROVE  FirstError(<<a, b>>) \in Refusals
<1>1. <<a, b>> \in Seq(Refusals)
  <2> HIDE DEF Refusals
  <2> QED OBVIOUS
<1> QED BY <1>1, RefusalChain

LEMMA Refusals3 ==
  ASSUME NEW a \in Refusals, NEW b \in Refusals, NEW c \in Refusals
  PROVE  FirstError(<<a, b, c>>) \in Refusals
<1>1. <<a, b, c>> \in Seq(Refusals)
  <2> HIDE DEF Refusals
  <2> QED OBVIOUS
<1> QED BY <1>1, RefusalChain

LEMMA Refusals4 ==
  ASSUME NEW a \in Refusals, NEW b \in Refusals, NEW c \in Refusals, NEW d \in Refusals
  PROVE  FirstError(<<a, b, c, d>>) \in Refusals
<1>1. <<a, b, c, d>> \in Seq(Refusals)
  <2> HIDE DEF Refusals
  <2> QED OBVIOUS
<1> QED BY <1>1, RefusalChain

LEMMA Refusals6 ==
  ASSUME NEW a \in Refusals, NEW b \in Refusals, NEW c \in Refusals, NEW d \in Refusals, NEW e \in Refusals, NEW f \in Refusals
  PROVE  FirstError(<<a, b, c, d, e, f>>) \in Refusals
<1>1. <<a, b, c, d, e, f>> \in Seq(Refusals)
  <2> HIDE DEF Refusals
  <2> QED OBVIOUS
<1> QED BY <1>1, RefusalChain

LEMMA Refusals7 ==
  ASSUME NEW a \in Refusals, NEW b \in Refusals, NEW c \in Refusals, NEW d \in Refusals, NEW e \in Refusals, NEW f \in Refusals, NEW g \in Refusals
  PROVE  FirstError(<<a, b, c, d, e, f, g>>) \in Refusals
<1>1. <<a, b, c, d, e, f, g>> \in Seq(Refusals)
  <2> HIDE DEF Refusals
  <2> QED OBVIOUS
<1> QED BY <1>1, RefusalChain

LEMMA AnthropicControlsTyped ==
  ASSUME NEW model, NEW o, NEW choice
  PROVE  AnthropicVerdict(model, o, choice) \in Refusals
<1> DEFINE c1 == Requires(Thinks(o) => o.temperature \in {Nil, 1} /\ ~Forced(choice))
           c2 == Requires(~(/\ model = "claude-opus-5" /\ Mode(o) = "disabled"
                            /\ Effort(o) \in {"xhigh", "max"}))
           c3 == Requires(Mode(o) = "budget" =>
                            o.thinking.tokens >= 1024 /\ o.max # Nil /\ o.thinking.tokens < Or(o.max, 0))
<1>1. c1 \in Refusals /\ c2 \in Refusals /\ c3 \in Refusals
  BY AssertsFacts
<1>2. AnthropicVerdict(model, o, choice) = FirstError(<<c1, c2, c3>>)
  BY DEF AnthropicVerdict
<1> HIDE DEF c1, c2, c3, Refusals
<1> QED BY <1>1, <1>2, Refusals3

LEMMA ControlsTyped ==
  ASSUME NEW provider, NEW model, NEW o, NEW choice
  PROVE  ControlsVerdict(provider, model, o, choice) \in Refusals
<1> DEFINE c1 == Needs(Reasoning(provider, model), {Mode(o), Effort(o)} \ {Nil})
           c2 == Requires(~(Thinks(o) /\ Effort(o) = "none"))
           c3 == Requires(\/ provider = "anthropic" \/ Mode(o) # "disabled"
                          \/ Effort(o) \in {Nil, "none"})
           c4 == Requires(provider \in OpenAiLike /\ Mode(o) = "enabled" => Effort(o) # Nil)
           c5 == Requires(provider = "deepseek" /\ (Thinks(o) \/ Effort(o) # Nil) => o.temperature = Nil)
           c6 == IF provider = "anthropic" THEN AnthropicVerdict(model, o, choice) ELSE "Ok"
<1>1. c1 \in Refusals /\ c2 \in Refusals /\ c3 \in Refusals /\ c4 \in Refusals /\ c5 \in Refusals
  BY AssertsFacts, NeedsFacts
<1>2. c6 \in Refusals
  BY AnthropicControlsTyped DEF Refusals
<1>3. ControlsVerdict(provider, model, o, choice) = FirstError(<<c1, c2, c3, c4, c5, c6>>)
  BY DEF ControlsVerdict
<1> HIDE DEF c1, c2, c3, c4, c5, c6, Refusals
<1> QED BY <1>1, <1>2, <1>3, Refusals6

LEMMA ResolveTyped ==
  ASSUME NEW config
  PROVE  ResolveVerdict(config) \in Refusals
<1> DEFINE c1 == Configured(config.version = "armillae.llm/v1alpha1")
           c2 == Configured(config.model # "")
           c3 == Configured(config.timeout > 0)
           c4 == Configured(SoundDefaults(config.defaults))
           c5 == Configured(config.endpoint # "refused")
           c6 == Configured(config.credential \in {Nil, "secret"})
<1>1. /\ c1 \in Refusals /\ c2 \in Refusals /\ c3 \in Refusals
      /\ c4 \in Refusals /\ c5 \in Refusals /\ c6 \in Refusals
  BY AssertsFacts
<1>2. ResolveVerdict(config) = FirstError(<<c1, c2, c3, c4, c5, c6>>)
  BY DEF ResolveVerdict
<1> HIDE DEF c1, c2, c3, c4, c5, c6, Refusals
<1> QED BY <1>1, <1>2, Refusals6

LEMMA BuildTyped ==
  ASSUME NEW config
  PROVE  BuildVerdict(config) \in Refusals
<1> DEFINE caps == CapabilitiesVerdict(CapabilitiesOf(config.provider, config.model))
           controls == Configured(ControlsVerdict(config.provider, config.model, config.defaults, Nil) = "Ok")
<1>1. caps \in Refusals /\ controls \in Refusals
  BY AssertsFacts, NeedsFacts
<1>2. NewVerdict(config) = FirstError(<<caps, controls>>)
  BY DEF NewVerdict
<1>3. NewVerdict(config) \in Refusals
  <2> HIDE DEF caps, controls, Refusals
  <2> QED BY <1>1, <1>2, Refusals2
<1>4. ResolveVerdict(config) \in Refusals /\ DriverVerdict(config) \in Refusals
  BY ResolveTyped, AssertsFacts DEF DriverVerdict
<1> HIDE DEF Refusals
<1> QED BY <1>3, <1>4, Refusals3 DEF BuildVerdict

LEMMA PreflightTyped ==
  ASSUME NEW caps, NEW r
  PROVE  PrepareVerdict(r) \in Refusals /\ RequestVerdict(caps, r) \in Refusals
<1> DEFINE c1 == CapabilitiesVerdict(caps)
           c2 == Needs(caps, {r.thinking, r.effort} \ {"default"})
           c3 == IF UsesTools(r) THEN Needs(caps, {"tool_calling"}) ELSE "Ok"
           c4 == ChoiceVerdict(r)
           c5 == Needs(caps, {r.choice} \ {"unset"})
           c6 == Needs(caps, {r.format} \ {"text"})
           c7 == Needs(caps, r.roles)
<1>1. c1 \in Refusals /\ c2 \in Refusals /\ c5 \in Refusals /\ c6 \in Refusals /\ c7 \in Refusals
  BY NeedsFacts
<1>2. c3 \in Refusals
  BY NeedsFacts DEF Refusals
<1>3. c4 \in Refusals
  BY DEF ChoiceVerdict, Refusals, BridgeErrors
<1>4. RequestVerdict(caps, r) = FirstError(<<c1, c2, c3, c4, c5, c6, c7>>)
  BY DEF RequestVerdict
<1>5. PrepareVerdict(r) \in Refusals
  BY DEF PrepareVerdict, Refusals, BridgeErrors
<1> HIDE DEF c1, c2, c3, c4, c5, c6, c7, Refusals
<1>6. FirstError(<<c1, c2, c3, c4, c5, c6, c7>>) \in Refusals
  BY <1>1, <1>2, <1>3, Refusals7
<1> QED BY <1>4, <1>5, <1>6

LEMMA FormatTyped ==
  ASSUME NEW provider, NEW format
  PROVE  FormatVerdict(provider, format) \in Refusals /\ StructuredVerdict(format) \in Refusals
<1> DEFINE named == Requires(format.named)
           strict == Supports(format.strict)
           sound == Requires(Anthropic(format.schema))
           object == Requires(Root(format.schema).object)
<1>1. /\ named \in Refusals /\ strict \in Refusals /\ sound \in Refusals /\ object \in Refusals
      /\ "Ok" \in Refusals /\ Supports(provider # "anthropic") \in Refusals
  BY AssertsFacts DEF Refusals
<1>2. /\ AnthropicFormatVerdict(format) = FirstError(<<named, strict, sound>>)
      /\ OllamaFormatVerdict(format) = FirstError(<<named, object, strict>>)
      /\ OpenAiFormatVerdict(format) = FirstError(<<named, object>>)
  BY DEF AnthropicFormatVerdict, OllamaFormatVerdict, OpenAiFormatVerdict
<1>3. StructuredVerdict(format) \in Refusals
  BY AssertsFacts DEF StructuredVerdict
<1> HIDE DEF named, strict, sound, object, Refusals
<1>4. FirstError(<<named, strict, sound>>) \in Refusals
  BY <1>1, Refusals3
<1>5. FirstError(<<named, object, strict>>) \in Refusals
  BY <1>1, Refusals3
<1>6. FirstError(<<named, object>>) \in Refusals
  BY <1>1, Refusals2
<1>7. SchemaVerdict(provider, format) \in Refusals
  BY <1>2, <1>4, <1>5, <1>6 DEF SchemaVerdict
<1>8. FormatVerdict(provider, format) \in Refusals
  BY <1>1, <1>7 DEF FormatVerdict
<1> QED BY <1>3, <1>8

\* What is forwarded of a message are parts of it.
LEMMA ForwardedFacts ==
  ASSUME NEW target, NEW message, Formed(message)
  PROVE  /\ IsSeq(Forwarded(target, message.content))
         /\ \A part \in Range(Forwarded(target, message.content)) :
              part \in Range(message.content) /\ FormedPart(part) /\ ~NotForwarded(target, part)
<1>1. IsSeq(message.content)
  BY DEF Formed
<1> QED BY <1>1, OnlyFacts DEF Forwarded, Formed

LEMMA MessageTyped ==
  ASSUME NEW target, NEW message, Formed(message)
  PROVE  MessageVerdict(target, message) \in Refusals
<1>1. CASE message.content = <<>>
  BY <1>1 DEF MessageVerdict, Refusals, BridgeErrors
<1>2. CASE message.content # <<>> /\ message.role = "Developer"
  BY <1>2 DEF MessageVerdict, Refusals, BridgeErrors
<1>3. CASE message.content # <<>> /\ message.role = "Assistant"
  <2>1. IsReplay(Replay(Keeps(target), Forwarded(target, message.content)))
    BY ForwardedFacts, ReplayTyped
  <2> QED BY <1>3, <2>1 DEF MessageVerdict, IsReplay, ReplayVerdicts, Refusals, BridgeErrors
<1>4. CASE message.content # <<>> /\ message.role \notin {"Developer", "Assistant"}
  <2> DEFINE verdicts == [k \in DOMAIN message.content |->
                            PartVerdict(message.role, target, message.content[k])]
  <2>1. Len(message.content) \in Nat /\ DOMAIN message.content = 1..Len(message.content)
    BY SeqIs DEF Formed
  <2>2. ASSUME NEW k \in DOMAIN message.content
        PROVE  PartVerdict(message.role, target, message.content[k]) \in Refusals
    <3>1. message.content[k].kind \in {"Text", "ToolCall", "ProviderData", "ToolResult"}
      BY DEF Formed, FormedPart, IsPart, Range
    <3> QED BY <3>1 DEF PartVerdict, ResultVerdict, IsData, Refusals, BridgeErrors
  <2>3. verdicts \in Seq(Refusals)
    <3> HIDE DEF Refusals
    <3> QED BY <2>1, <2>2
  <2>4. MessageVerdict(target, message) = FirstError(verdicts)
    BY <1>4 DEF MessageVerdict
  <2> HIDE DEF verdicts, Refusals
  <2> QED BY <2>3, <2>4, RefusalChain
<1> QED BY <1>1, <1>2, <1>3, <1>4

LEMMA ProjectionTyped ==
  ASSUME NEW target, NEW h, IsSeq(h), \A i \in DOMAIN h : Formed(h[i])
  PROVE  /\ [i \in DOMAIN h |-> MessageVerdict(target, h[i])] \in Seq(Refusals)
         /\ ProjectionVerdict(target, h) \in Refusals
<1> DEFINE verdicts == [i \in DOMAIN h |-> MessageVerdict(target, h[i])]
           all == IF \A i \in DOMAIN h : Forwarded(target, h[i].content) = <<>>
                  THEN "InvalidRequest" ELSE "Ok"
<1>1. Len(h) \in Nat /\ DOMAIN h = 1..Len(h)
  BY SeqIs
<1>2. \A i \in DOMAIN h : MessageVerdict(target, h[i]) \in Refusals
  BY MessageTyped
<1>3. all \in Refusals
  BY DEF Refusals, BridgeErrors
<1> HIDE DEF all, Refusals
<1>4. verdicts \in Seq(Refusals)
  BY <1>1, <1>2
<1>5. ProjectionVerdict(target, h) = FirstError(verdicts \o <<all>>)
  BY DEF ProjectionVerdict, all
<1> HIDE DEF verdicts
<1>6. verdicts \o <<all>> \in Seq(Refusals)
  BY <1>3, <1>4
<1> QED BY <1>4, <1>5, <1>6, RefusalChain DEF verdicts

LEMMA MapTyped ==
  ASSUME NEW provider, NEW request, NEW o, IsSeq(request.messages),
         \A i \in DOMAIN request.messages : Formed(request.messages[i])
  PROVE  MapVerdict(provider, request, o) \in Refusals
<1> DEFINE c1 == CASE provider = "anthropic" -> Requires(AnthropicMessages(request.messages))
                   [] provider = "ollama" -> Requires(OllamaMessages(request.messages))
                   [] OTHER -> "Ok"
           c2 == ProjectionVerdict(provider, request.messages)
           c3 == StructuredVerdict(request.format)
           c4 == Requires(request.extensions = {})
           c5 == CASE provider = "anthropic" -> AnthropicOptionsVerdict(o)
                   [] provider = "ollama" -> OllamaChoiceVerdict(request.choice)
                   [] OTHER -> "Ok"
           c6 == FormatVerdict(provider, PlainFormat(request.format))
           a1 == Supports(o.seed = Nil)
           a2 == Requires(o.max # Nil)
<1>1. "Ok" \in Refusals
  BY DEF Refusals
<1>2. c2 \in Refusals /\ c3 \in Refusals /\ c4 \in Refusals /\ c6 \in Refusals
  BY ProjectionTyped, FormatTyped, AssertsFacts
<1>3. a1 \in Refusals /\ a2 \in Refusals
  BY AssertsFacts
<1>4. OllamaChoiceVerdict(request.choice) \in Refusals
  BY AssertsFacts DEF OllamaChoiceVerdict
<1>5. AnthropicOptionsVerdict(o) \in Refusals
  <2>1. AnthropicOptionsVerdict(o) = FirstError(<<a1, a2>>)
    BY DEF AnthropicOptionsVerdict
  <2> HIDE DEF a1, a2, Refusals
  <2> QED BY <1>3, <2>1, Refusals2
<1>6. c1 \in Refusals /\ c5 \in Refusals
  <2>1. /\ Requires(AnthropicMessages(request.messages)) \in Refusals
        /\ Requires(OllamaMessages(request.messages)) \in Refusals
    BY AssertsFacts
  <2> HIDE DEF Refusals
  <2> QED BY <1>1, <1>4, <1>5, <2>1
<1>7. MapVerdict(provider, request, o) = FirstError(<<c1, c2, c3, c4, c5, c6>>)
  BY DEF MapVerdict
<1> HIDE DEF c1, c2, c3, c4, c5, c6, Refusals
<1> QED BY <1>2, <1>6, <1>7, Refusals6

LEMMA BridgeTyped ==
  ASSUME NEW config, NEW request, IsSeq(request.messages),
         \A i \in DOMAIN request.messages : Formed(request.messages[i])
  PROVE  BridgeVerdict(config, request) \in Refusals
<1> DEFINE o == Merge(config.defaults, request.options)
           caps == CapabilitiesOf(config.provider, config.model)
           seen == View(request, o)
           c1 == PrepareVerdict(seen)
           c2 == RequestVerdict(caps, seen)
           c3 == ControlsVerdict(config.provider, config.model, o, request.choice)
           c4 == MapVerdict(config.provider, request, o)
<1>1. BridgeVerdict(config, request) = FirstError(<<c1, c2, c3, c4>>)
  BY DEF BridgeVerdict
<1> HIDE DEF o, caps, seen
<1>2. c1 \in Refusals /\ c2 \in Refusals /\ c3 \in Refusals /\ c4 \in Refusals
  BY PreflightTyped, ControlsTyped, MapTyped
<1> HIDE DEF c1, c2, c3, c4, Refusals
<1> QED BY <1>1, <1>2, Refusals4

LEMMA ResponseTyped ==
  ASSUME NEW provider, NEW raw, NEW format, NEW content, NEW finish
  PROVE  FirstError(<<NormalizeVerdict(provider, raw),
                      ValidateVerdict(format, content, finish)>>) \in Refusals
<1>1. NormalizeVerdict(provider, raw) \in Refusals
  BY AssertsFacts DEF NormalizeVerdict
<1>2. ValidateVerdict(format, content, finish) \in Refusals
  BY DEF ValidateVerdict, Refusals, BridgeErrors
<1> HIDE DEF Refusals
<1> QED BY <1>1, <1>2, Refusals2

LEMMA CategoryTyped ==
  ASSUME NEW error
  PROVE  NormalizeError(error).category \in Refusals
<1> DEFINE facts == Metadata(error)
<1>1. NormalizeError(error).category =
        IF facts.status # Nil THEN StatusCategory(facts.status)
        ELSE VariantCategory(error.variant, facts.transport)
  BY DEF NormalizeError
<1> HIDE DEF facts
<1>2. StatusCategory(facts.status) \in Refusals
  BY DEF StatusCategory, Refusals, BridgeErrors
<1>3. VariantCategory(error.variant, facts.transport) \in Refusals
  BY DEF VariantCategory, Refusals, BridgeErrors
<1> QED BY <1>1, <1>2, <1>3

LEMMA VerdictInit == Init => answer \in Verdicts
BY DEF Init, Verdicts

LEMMA VerdictStep == FlowInv /\ [Next]_vars /\ answer \in Verdicts => answer' \in Verdicts
<1> SUFFICES ASSUME FlowInv, Next, answer \in Verdicts PROVE answer' \in Verdicts
  BY DEF vars
<1>1. Refusals \subseteq Verdicts /\ {"Ok", "UnknownTool", "DuplicateTool"} \subseteq Verdicts
      /\ ExecutionErrors \subseteq Verdicts
  BY DEF Refusals, Verdicts
<1>2. ASSUME NEW config \in Here.configs, Build(config) PROVE answer' \in Verdicts
  BY <1>1, <1>2, BuildTyped DEF Build
<1>3. ASSUME NEW message \in Here.messages, Say(message) PROVE answer' \in Verdicts
  BY <1>1, <1>3 DEF Say
<1>4. ASSUME NEW config \in bridges, NEW asked \in Here.requests, Send(config, asked)
      PROVE  answer' \in Verdicts
  <2> DEFINE request == RequestOf(asked)
  <2>1. answer' = BridgeVerdict(config, request)
    BY <1>4 DEF Send
  <2>2. request.messages = history
    BY DEF RequestOf
  <2> HIDE DEF request
  <2>3. IsSeq(request.messages) /\ \A i \in DOMAIN request.messages : Formed(request.messages[i])
    BY <2>2 DEF FlowInv, HistoryInv
  <2> QED BY <1>1, <2>1, <2>3, BridgeTyped
<1>5. ASSUME NEW raw \in Here.answers, Respond(raw) PROVE answer' \in Verdicts
  BY <1>1, <1>5, ResponseTyped DEF Respond
<1>6. ASSUME NEW error \in Here.errors, Fail(error) PROVE answer' \in Verdicts
  <2>1. answer' = NormalizeError(error).category
    BY <1>6 DEF Fail
  <2> QED BY <1>1, <2>1, CategoryTyped
<1>7. CASE Cancel
  BY <1>1, <1>7 DEF Cancel
<1>8. ASSUME NEW at \in Unanswered, StartTool(at) PROVE answer' \in Verdicts
  BY <1>1, <1>8 DEF StartTool
<1>9. ASSUME NEW at \in Unanswered, NEW isError \in BOOLEAN, UnknownTool(at, isError)
      PROVE  answer' \in Verdicts
  BY <1>1, <1>9 DEF UnknownTool
<1>10. ASSUME NEW execution \in running, FinishTool(execution) PROVE answer' \in Verdicts
  BY <1>1, <1>10 DEF FinishTool
<1>11. ASSUME NEW execution \in running, NEW error \in ExecutionErrors, NEW isError \in BOOLEAN,
              FailTool(execution, error, isError)
       PROVE  answer' \in Verdicts
  BY <1>1, <1>11 DEF FailTool
<1>12. ASSUME NEW tool \in Here.tools, RegisterTool(tool) \/ RefuseTool(tool)
       PROVE  answer' \in Verdicts
  BY <1>1, <1>12 DEF RegisterTool, RefuseTool
<1>13. ASSUME NEW name \in DOMAIN registered, UnregisterTool(name) PROVE answer' \in Verdicts
  BY <1>1, <1>13 DEF UnregisterTool
<1> QED
  BY <1>2, <1>3, <1>4, <1>5, <1>6, <1>7, <1>8, <1>9, <1>10, <1>11, <1>12, <1>13 DEF Next

LEMMA FlowIsTyped ==
  ASSUME FlowInv, answer \in Verdicts
  PROVE  TypeOK
<1>1. \A i \in DOMAIN history : history[i].role \in Roles
  BY DEF FlowInv, HistoryInv, Formed
<1> QED BY <1>1 DEF FlowInv, HistoryInv, TypeOK

\* What executes is a call of the history without a result, a call in flight is of
\* a bridge there is and about the whole history, which no step changes under it,
\* every tool is filed under its own name, and every operation answers what the
\* error types have: for any configurations, messages, tools and providers.
THEOREM ConversationIsTyped == Spec => []TypeOK
<1>1. Init => FlowInv /\ answer \in Verdicts
  BY FlowInit, VerdictInit
<1>2. FlowInv /\ answer \in Verdicts /\ [Next]_vars => (FlowInv /\ answer \in Verdicts)'
  BY FlowStep, VerdictStep
<1>3. FlowInv /\ answer \in Verdicts => TypeOK
  BY FlowIsTyped
<1> QED BY <1>1, <1>2, <1>3, PTL DEF Spec

-----------------------------------------------------------------------------
(* Projections: what is on the wire, part by part.                         *)

\* A selection of a flattening, and through a function.
LEMMA OnlyIs ==
  ASSUME NEW s, NEW S, NEW Select, IsSeq(s),
         \A x \in Range(s) : Select[x] = IF x \in S THEN <<x>> ELSE <<>>
  PROVE  Only(s, S) = FlattenSeq(Through(Select, s))
<1>1. \A k \in DOMAIN s : s[k] \in Range(s)
  BY DEF Range
<1>2. [k \in DOMAIN s |-> IF s[k] \in S THEN <<s[k]>> ELSE <<>>] = Through(Select, s)
  BY <1>1 DEF Through
<1> QED BY <1>2 DEF Only

LEMMA OnlyFlat ==
  ASSUME NEW seqs, NEW S, IsSeqs(seqs)
  PROVE  LET chosen == [k \in DOMAIN seqs |-> Only(seqs[k], S)]
         IN  /\ IsSeqs(chosen) /\ Len(chosen) = Len(seqs)
             /\ Only(FlattenSeq(seqs), S) = FlattenSeq(chosen)
<1> DEFINE all == Range(FlattenSeq(seqs))
           Select == [x \in all |-> IF x \in S THEN <<x>> ELSE <<>>]
           chosen == [k \in DOMAIN seqs |-> Only(seqs[k], S)]
           flat == [k \in DOMAIN seqs |-> FlattenSeq(Through(Select, seqs[k]))]
<1>1. DOMAIN seqs = 1..Len(seqs) /\ \A k \in DOMAIN seqs : IsSeq(seqs[k])
  BY SeqIs DEF IsSeqs
<1>2. IsSeq(FlattenSeq(seqs)) /\ \A k \in 1..Len(seqs) : Range(seqs[k]) \subseteq all
  BY FlattenFacts
<1>3. \A x \in all : Select[x] = IF x \in S THEN <<x>> ELSE <<>>
  OBVIOUS
<1>4. \A x \in all : IsSeq(Select[x])
  BY <1>3, EmptyIsSeq, OneIsSeq
<1>5. Only(FlattenSeq(seqs), S) = FlattenSeq(Through(Select, FlattenSeq(seqs)))
  <2> HIDE DEF Select
  <2> QED BY <1>2, <1>3, OnlyIs
<1>6. \A k \in DOMAIN seqs : Only(seqs[k], S) = FlattenSeq(Through(Select, seqs[k]))
  <2> HIDE DEF Select, all
  <2>1. ASSUME NEW k \in DOMAIN seqs
        PROVE  Only(seqs[k], S) = FlattenSeq(Through(Select, seqs[k]))
    <3>1. IsSeq(seqs[k]) /\ \A x \in Range(seqs[k]) : Select[x] = IF x \in S THEN <<x>> ELSE <<>>
      BY <1>1, <1>2, <1>3
    <3> QED BY <3>1, OnlyIs
  <2> QED BY <2>1
<1>7. chosen = flat
  <2> HIDE DEF Select
  <2> QED BY <1>6
<1> HIDE DEF Select, all
<1>8. /\ IsSeqs(flat) /\ Len(flat) = Len(seqs)
      /\ FlattenSeq(Through(Select, FlattenSeq(seqs))) = FlattenSeq(flat)
  BY <1>2, <1>4, FlatThroughFlat
<1> HIDE DEF chosen, flat
<1>9. IsSeqs(chosen) /\ Len(chosen) = Len(seqs) /\ Only(FlattenSeq(seqs), S) = FlattenSeq(chosen)
  BY <1>5, <1>7, <1>8
<1> QED BY <1>9 DEF chosen

LEMMA OnlyThrough ==
  ASSUME NEW F, NEW s, NEW S, NEW U, IsSeq(s), \A x \in Range(s) : F[x] \in U <=> x \in S
  PROVE  Only(Through(F, s), U) = Through(F, Only(s, S))
<1> DEFINE sel == [k \in DOMAIN s |-> IF s[k] \in S THEN <<s[k]>> ELSE <<>>]
           fs == Through(F, s)
           picked == [k \in DOMAIN fs |-> IF fs[k] \in U THEN <<fs[k]>> ELSE <<>>]
           through == [k \in DOMAIN sel |-> Through(F, sel[k])]
<1>1. Len(s) \in Nat /\ DOMAIN s = 1..Len(s) /\ \A k \in 1..Len(s) : s[k] \in Range(s)
  BY SeqIs DEF Range
<1>2. sel = [k \in 1..Len(s) |-> sel[k]] /\ \A k \in 1..Len(s) : IsSeq(sel[k])
  BY <1>1, EmptyIsSeq, OneIsSeq
<1>3. DOMAIN sel = 1..Len(s)
  BY <1>1
<1>4. \A k \in 1..Len(s) : sel[k] = IF s[k] \in S THEN <<s[k]>> ELSE <<>>
  BY <1>1
<1> HIDE DEF sel
<1>5. IsSeqs(sel)
  <2>1. IsSeq(sel) /\ Len(sel) = Len(s)
    BY <1>1, <1>2, FunctionIsSeq
  <2> QED BY <1>2, <2>1 DEF IsSeqs
<1>6. DOMAIN fs = 1..Len(s) /\ \A k \in 1..Len(s) : fs[k] = F[s[k]]
  BY <1>1 DEF Through
<1> HIDE DEF fs
<1>7. ASSUME NEW k \in 1..Len(s)
      PROVE  Through(F, sel[k]) = IF fs[k] \in U THEN <<fs[k]>> ELSE <<>>
  <2>1. fs[k] = F[s[k]] /\ (fs[k] \in U <=> s[k] \in S)
    BY <1>1, <1>6
  <2>2. CASE s[k] \in S
    <3>1. sel[k] = <<s[k]>>
      BY <1>4, <2>2
    <3> QED BY <2>1, <2>2, <3>1, ThroughOne
  <2>3. CASE s[k] \notin S
    <3>1. sel[k] = <<>>
      BY <1>4, <2>3
    <3> QED BY <2>1, <2>3, <3>1, ThroughNone
  <2> QED BY <2>2, <2>3
<1>8. picked = through
  BY <1>3, <1>6, <1>7
<1>9. Through(F, FlattenSeq(sel)) = FlattenSeq(through)
  BY <1>5, ThroughFlat
<1> HIDE DEF through
<1>10. Only(fs, U) = FlattenSeq(picked) /\ Only(s, S) = FlattenSeq(sel)
  BY DEF Only, sel
<1> QED BY <1>8, <1>9, <1>10 DEF fs

\* What the parts of a wire message are in the history.
LEMMA RecoveredFacts ==
  ASSUME NEW part
  PROVE  /\ part.type = "ToolResult" =>
              Recovered(part) = <<[kind |-> "ToolResult", call |-> part.call, value |-> part.value]>>
         /\ \A text : Recovered(RigText(text, FALSE)) = <<TextContent(text)>>
         /\ \A c : Recovered(RigCall(c, Nil)) = <<ToolContent(c)>>
         /\ \A c, meta : meta # Nil =>
              Recovered(RigCall(c, meta))
                = <<ToolContent(c), DataContent("tool_call_metadata", meta)>>
         /\ \A r : Recovered(RigReasoning(r)) = <<DataContent("reasoning", r)>>
<1>1. part.type = "ToolResult" =>
        Recovered(part) = <<[kind |-> "ToolResult", call |-> part.call, value |-> part.value]>>
  BY DEF Recovered
<1>2. ASSUME NEW text PROVE Recovered(RigText(text, FALSE)) = <<TextContent(text)>>
  <2> DEFINE one == <<TextContent(text)>>
  <2>1. Recovered(RigText(text, FALSE)) = Joined(one, <<>>)
    BY DEF Recovered, RigText, FromRig, Joined
  <2>2. IsSeq(one)
    BY OneIsSeq
  <2> HIDE DEF one
  <2>3. Recovered(RigText(text, FALSE)) = one
    BY <2>1, <2>2, ConcatEmpty
  <2> QED BY <2>3 DEF one
<1>3. ASSUME NEW c PROVE Recovered(RigCall(c, Nil)) = <<ToolContent(c)>>
  <2> DEFINE one == <<ToolContent(c)>>
  <2>1. Recovered(RigCall(c, Nil)) = Joined(one, <<>>)
    BY DEF Recovered, RigCall, FromRig, Joined
  <2>2. IsSeq(one)
    BY OneIsSeq
  <2> HIDE DEF one
  <2>3. Recovered(RigCall(c, Nil)) = one
    BY <2>1, <2>2, ConcatEmpty
  <2> QED BY <2>3 DEF one
<1>4. ASSUME NEW c, NEW meta, meta # Nil
      PROVE  Recovered(RigCall(c, meta))
               = <<ToolContent(c), DataContent("tool_call_metadata", meta)>>
  <2> DEFINE x == ToolContent(c)
             y == DataContent("tool_call_metadata", meta)
  <2>1. Recovered(RigCall(c, meta)) = Joined(<<x>>, <<y>>)
    BY <1>4 DEF Recovered, RigCall, FromRig, Joined
  <2> HIDE DEF x, y
  <2>2. Recovered(RigCall(c, meta)) = <<x, y>>
    BY <2>1, PairIs
  <2> QED BY <2>2 DEF x, y
<1>5. ASSUME NEW r PROVE Recovered(RigReasoning(r)) = <<DataContent("reasoning", r)>>
  BY DEF Recovered, RigReasoning
<1> QED BY <1>1, <1>2, <1>3, <1>4, <1>5

\* What a sequence of wire parts says.
Back(s) == FlattenSeq([k \in DOMAIN s |-> Recovered(s[k])])

LEMMA RecoveredIsSeq ==
  ASSUME NEW part, IsRigPart(part) \/ part.type = "ToolResult"
  PROVE  IsSeq(Recovered(part))
<1>1. CASE part.type = "ToolResult"
  BY <1>1, OneIsSeq DEF Recovered
<1>2. CASE part.type # "ToolResult" /\ IsRigPart(part)
  <2>1. IsSeq(FromRig(part))
    BY <1>2, FromRigFacts
  <2>2. IsSeq(<<DataContent("reasoning", part.reasoning)>>)
    BY OneIsSeq
  <2> QED BY <1>2, <2>1, <2>2 DEF Recovered
<1> QED BY <1>1, <1>2

LEMMA BackIs ==
  ASSUME NEW s, NEW R, \A x \in Range(s) : R[x] = Recovered(x)
  PROVE  Back(s) = FlattenSeq(Through(R, s))
<1>1. \A k \in DOMAIN s : s[k] \in Range(s)
  BY DEF Range
<1>2. [k \in DOMAIN s |-> Recovered(s[k])] = Through(R, s)
  BY <1>1 DEF Through
<1> QED BY <1>2 DEF Back

LEMMA BackMore ==
  ASSUME NEW s, IsSeq(s), \A x \in Range(s) : IsRigPart(x), NEW x, IsRigPart(x)
  PROVE  Back(Joined(s, <<x>>)) = Joined(Back(s), Recovered(x)) /\ IsSeq(Back(s))
<1> DEFINE R == [y \in Range(s) \cup {x} |-> Recovered(y)]
           ts == Through(R, s)
           tx == Through(R, <<x>>)
<1>1. \A y \in Range(s) \cup {x} : R[y] = Recovered(y) /\ IsSeq(R[y])
  BY RecoveredIsSeq
<1> HIDE DEF R
<1>2. IsSeqs(ts)
  <2>1. IsSeq(ts) /\ Len(ts) = Len(s) /\ \A k \in 1..Len(s) : ts[k] = R[s[k]]
    BY ThroughFacts
  <2>2. \A k \in 1..Len(s) : s[k] \in Range(s)
    BY SeqIs DEF Range
  <2> HIDE DEF ts
  <2> QED BY <1>1, <2>1, <2>2 DEF IsSeqs
<1>3. tx = <<R[x]>>
  BY ThroughOne
<1>4. IsSeqs(tx) /\ FlattenSeq(tx) = Recovered(x)
  <2> HIDE DEF tx
  <2>1. IsSeqs(tx)
    BY <1>1, <1>3, OneIsSeq DEF IsSeqs
  <2>2. FlattenSeq(tx) = R[x]
    BY <1>1, <1>3, FlattenOne
  <2> QED BY <1>1, <2>1, <2>2
<1>5. Range(Joined(s, <<x>>)) = Range(s) \cup {x} /\ IsSeq(<<x>>)
  BY LongerFacts, OneIsSeq
<1>6. Back(s) = FlattenSeq(ts)
  BY <1>1, BackIs
<1>7. Back(Joined(s, <<x>>)) = FlattenSeq(Through(R, Joined(s, <<x>>)))
  <2> DEFINE more == Joined(s, <<x>>)
  <2>1. \A y \in Range(more) : R[y] = Recovered(y)
    BY <1>1, <1>5
  <2> HIDE DEF more
  <2>2. Back(more) = FlattenSeq(Through(R, more))
    BY <2>1, BackIs
  <2> QED BY <2>2 DEF more
<1>8. Through(R, Joined(s, <<x>>)) = Joined(ts, tx)
  BY <1>5, ThroughConcat
<1> HIDE DEF ts, tx
<1> QED BY <1>2, <1>4, <1>6, <1>7, <1>8, FlattenConcat, FlattenFacts

\* What a part of the target's own adds to a replay.
LEMMA ReplayOne ==
  ASSUME NEW r, IsReplay(r), NEW keeps, NEW part, FormedPart(part),
         IsData(part) => part.data \in ReplayKinds, ~IsMetadata(part),
         ReplayPart(keeps, r, part).verdict = "Ok"
  PROVE  /\ r.verdict = "Ok"
         /\ \E x : /\ IsRigPart(x) /\ ReplayPart(keeps, r, part).rig = Joined(r.rig, <<x>>)
                   /\ Recovered(x) = <<Canonical(part)>>
                   /\ x.type = "ToolCall" => x = RigCall(part.call, Nil)
                   /\ x.type = "ToolCall" <=> part.kind = "ToolCall"
                   /\ x.type \in {"Text", "ToolCall", "Reasoning"}
<1> DEFINE q == ReplayPart(keeps, r, part)
<1>1. r.verdict = "Ok"
  BY DEF ReplayPart
<1>2. part.kind \in {"Text", "ToolCall", "ProviderData", "ToolResult"}
  BY DEF FormedPart, IsPart
<1>3. CASE part.kind = "Text"
  <2> DEFINE x == RigText(part.text, FALSE)
  <2>1. q = Pushed(r, x)
    BY <1>1, <1>3 DEF ReplayPart
  <2>2. IsRigPart(x) /\ x.type = "Text"
    BY DEF IsRigPart, RigText
  <2>3. part = TextContent(part.text)
    BY <1>3 DEF FormedPart, IsPart
  <2>4. Canonical(part) = TextContent(part.text)
    BY <1>3, <2>3 DEF Canonical, IsData
  <2>5. Recovered(x) = <<Canonical(part)>>
    BY <2>4, RecoveredFacts
  <2>8. q.rig = Joined(r.rig, <<x>>)
    BY <1>1, <2>1, <2>2, PushedFacts
  <2>9. /\ IsRigPart(x) /\ q.rig = Joined(r.rig, <<x>>) /\ Recovered(x) = <<Canonical(part)>>
        /\ x.type = "ToolCall" => x = RigCall(part.call, Nil)
        /\ x.type = "ToolCall" <=> part.kind = "ToolCall"
        /\ x.type \in {"Text", "ToolCall", "Reasoning"}
    BY <1>3, <2>2, <2>5, <2>8
  <2> HIDE DEF x, q
  <2>10. \E z : /\ IsRigPart(z) /\ q.rig = Joined(r.rig, <<z>>)
                /\ Recovered(z) = <<Canonical(part)>>
                /\ z.type = "ToolCall" => z = RigCall(part.call, Nil)
                /\ z.type = "ToolCall" <=> part.kind = "ToolCall"
                /\ z.type \in {"Text", "ToolCall", "Reasoning"}
    BY <2>9
  <2> QED BY <1>1, <2>10 DEF q
<1>4. CASE part.kind = "ToolCall"
  <2> DEFINE x == RigCall(part.call, Nil)
  <2>1. q = Pushed(r, x)
    BY <1>1, <1>4 DEF ReplayPart
  <2>2. IsRigPart(x) /\ x.type = "ToolCall"
    BY DEF IsRigPart, RigCall
  <2>3. part = ToolContent(part.call)
    BY <1>4 DEF FormedPart, IsPart
  <2>4. Canonical(part) = ToolContent(part.call)
    BY <1>4, <2>3 DEF Canonical, IsData
  <2>5. Recovered(x) = <<Canonical(part)>>
    BY <2>4, RecoveredFacts
  <2>6. x = RigCall(part.call, Nil)
    OBVIOUS
  <2>8. q.rig = Joined(r.rig, <<x>>)
    BY <1>1, <2>1, <2>2, PushedFacts
  <2>9. /\ IsRigPart(x) /\ q.rig = Joined(r.rig, <<x>>) /\ Recovered(x) = <<Canonical(part)>>
        /\ x.type = "ToolCall" => x = RigCall(part.call, Nil)
        /\ x.type = "ToolCall" <=> part.kind = "ToolCall"
        /\ x.type \in {"Text", "ToolCall", "Reasoning"}
    BY <1>4, <2>2, <2>5, <2>6, <2>8
  <2> HIDE DEF x, q
  <2>10. \E z : /\ IsRigPart(z) /\ q.rig = Joined(r.rig, <<z>>)
                /\ Recovered(z) = <<Canonical(part)>>
                /\ z.type = "ToolCall" => z = RigCall(part.call, Nil)
                /\ z.type = "ToolCall" <=> part.kind = "ToolCall"
                /\ z.type \in {"Text", "ToolCall", "Reasoning"}
    BY <2>9
  <2> QED BY <1>1, <2>10 DEF q
<1>5. CASE part.kind = "ProviderData"
  <2> DEFINE x == RigReasoning(part.value)
  <2>1. part.data = "reasoning"
    BY <1>5 DEF IsData, IsMetadata, ReplayKinds
  <2>2. q = ReplayData(keeps, r, part)
    BY <1>1, <1>5 DEF ReplayPart
  <2>3. q = Pushed(r, x) \/ q = Unprojectable(r)
    BY <2>1, <2>2 DEF ReplayData
  <2>4. q = Pushed(r, x)
    BY <2>3, UnprojectableFacts
  <2>5. IsRigPart(x) /\ x.type = "Reasoning"
    BY DEF IsRigPart, RigReasoning
  <2>6. Canonical(part) = DataContent("reasoning", part.value)
    BY <1>5, <2>1 DEF Canonical, IsData
  <2>7. Recovered(x) = <<Canonical(part)>>
    BY <2>6, RecoveredFacts
  <2>8. q.rig = Joined(r.rig, <<x>>)
    BY <1>1, <2>4, <2>5, PushedFacts
  <2>9. /\ IsRigPart(x) /\ q.rig = Joined(r.rig, <<x>>) /\ Recovered(x) = <<Canonical(part)>>
        /\ x.type = "ToolCall" => x = RigCall(part.call, Nil)
        /\ x.type = "ToolCall" <=> part.kind = "ToolCall"
        /\ x.type \in {"Text", "ToolCall", "Reasoning"}
    BY <1>5, <2>5, <2>7, <2>8
  <2> HIDE DEF x, q
  <2>10. \E z : /\ IsRigPart(z) /\ q.rig = Joined(r.rig, <<z>>)
                /\ Recovered(z) = <<Canonical(part)>>
                /\ z.type = "ToolCall" => z = RigCall(part.call, Nil)
                /\ z.type = "ToolCall" <=> part.kind = "ToolCall"
                /\ z.type \in {"Text", "ToolCall", "Reasoning"}
    BY <2>9
  <2> QED BY <1>1, <2>10 DEF q
<1>6. CASE part.kind = "ToolResult"
  <2>1. q = [r EXCEPT !.verdict = "InvalidRequest"]
    BY <1>1, <1>6 DEF ReplayPart
  <2>2. q = [verdict |-> "InvalidRequest", rig |-> r.rig]
    BY <2>1 DEF IsReplay
  <2>3. q.verdict = "InvalidRequest"
    BY <2>2
  <2> QED BY <2>3
<1> QED BY <1>2, <1>3, <1>4, <1>5, <1>6

\* Metadata adds to the call before it, if it is the first of that call.
LEMMA ReplayAttaches ==
  ASSUME NEW r, IsReplay(r), NEW s, IsSeq(s), \A x \in Range(s) : IsRigPart(x),
         NEW x, IsRigPart(x), x.type = "ToolCall" => x.meta = Nil,
         r.rig = Joined(s, <<x>>), r.verdict = "Ok",
         NEW meta, meta # Nil, ReplayMetadata(r, meta).verdict = "Ok"
  PROVE  /\ x.type = "ToolCall"
         /\ ReplayMetadata(r, meta).rig = Joined(s, <<RigCall(x.call, meta)>>)
         /\ Back(ReplayMetadata(r, meta).rig)
              = Joined(Back(r.rig), <<DataContent("tool_call_metadata", meta)>>)
<1> DEFINE q == ReplayMetadata(r, meta)
           n == Len(r.rig)
           y == RigCall(x.call, meta)
           t == Joined(s, <<y>>)
<1>1. /\ n > 0 /\ r.rig[n].type = "ToolCall" /\ Len(q.rig) = n
      /\ \A k \in 1..n - 1 : q.rig[k] = r.rig[k]
      /\ q.rig[n] = RigCall(r.rig[n].call, Renewed(r.rig[n].meta, meta))
      /\ IsReplay(q)
  BY MetadataFacts
<1>2. /\ Len(s) \in Nat /\ n = Len(s) + 1 /\ r.rig[n] = x
      /\ \A k \in 1..Len(s) : r.rig[k] = s[k]
  BY LongerFacts, SeqIs
<1>3. x.type = "ToolCall" /\ x.meta = Nil
  BY <1>1, <1>2
<1>4. Renewed(x.meta, meta) = meta
  BY <1>3 DEF Renewed
<1>5. /\ IsSeq(t) /\ Len(t) = n /\ t[n] = y
      /\ \A k \in 1..Len(s) : t[k] = s[k]
  BY <1>2, LongerFacts
<1>6. IsSeq(q.rig)
  BY <1>1 DEF IsReplay
<1>7. q.rig[n] = y
  BY <1>1, <1>2, <1>4
<1> HIDE DEF q, t, y
<1>8. \A k \in 1..n : q.rig[k] = t[k]
  <2>1. \A k \in 1..n : k \in 1..Len(s) \/ k = n
    BY <1>2
  <2>2. \A k \in 1..Len(s) : q.rig[k] = t[k]
    BY <1>1, <1>2, <1>5
  <2> QED BY <1>5, <1>7, <2>1, <2>2
<1>9. q.rig = t
  BY <1>1, <1>5, <1>6, <1>8, SameSeq
<1>10. x = RigCall(x.call, Nil)
  BY <1>3 DEF IsRigPart, RigText, RigReasoning, RigImage
<1>11. Recovered(x) = <<ToolContent(x.call)>>
  BY <1>10, RecoveredFacts
<1>12. Recovered(y) = <<ToolContent(x.call), DataContent("tool_call_metadata", meta)>>
  BY RecoveredFacts DEF y
<1>13. Recovered(y) = Joined(Recovered(x), <<DataContent("tool_call_metadata", meta)>>)
  BY <1>11, <1>12, PairIs
<1>14. IsRigPart(y)
  BY DEF y, IsRigPart, RigCall
<1>15. /\ Back(r.rig) = Joined(Back(s), Recovered(x))
       /\ Back(t) = Joined(Back(s), Recovered(y))
       /\ IsSeq(Back(s))
  BY <1>14, BackMore DEF t
<1>16. IsSeq(Recovered(x)) /\ IsSeq(<<DataContent("tool_call_metadata", meta)>>)
  BY RecoveredIsSeq, OneIsSeq
<1>17. Back(t) = Joined(Back(r.rig), <<DataContent("tool_call_metadata", meta)>>)
  <2> DEFINE a == Back(s)
             b == Recovered(x)
             c == <<DataContent("tool_call_metadata", meta)>>
  <2>1. /\ IsSeq(a) /\ IsSeq(b) /\ IsSeq(c) /\ Back(t) = Joined(a, Joined(b, c))
        /\ Back(r.rig) = Joined(a, b)
    BY <1>13, <1>15, <1>16
  <2> HIDE DEF a, b, c
  <2>2. Joined(Joined(a, b), c) = Joined(a, Joined(b, c))
    BY <2>1, ConcatAssociates
  <2>3. Back(t) = Joined(Back(r.rig), c)
    BY <2>1, <2>2
  <2> QED BY <2>3 DEF c
<1> QED BY <1>3, <1>9, <1>17 DEF q, t, y

\* A replay that succeeds says all it was given.
LEMMA ReplayBack ==
  ASSUME NEW keeps, NEW c, IsSeq(c), Replay(keeps, c).verdict = "Ok",
         \A part \in Range(c) : FormedPart(part) /\ (IsData(part) => part.data \in ReplayKinds),
         \A k \in 2..Len(c) : ~(IsMetadata(c[k - 1]) /\ IsMetadata(c[k])),
         NEW Can, \A part \in Range(c) : Can[part] = Canonical(part)
  PROVE  Back(Replay(keeps, c).rig) = Through(Can, c)
<1> DEFINE n == Len(c)
           T == Range(c)
           pre(k) == SubSeq(c, 1, k)
<1>1. n \in Nat /\ DOMAIN c = 1..n /\ c \in Seq(T) /\ \A k \in 1..n : c[k] \in T
  BY SeqIs DEF IsSeq, Range
<1>2. PICK acc : /\ acc[0] = NoReplay
                 /\ \A k \in 1..n : acc[k] = ReplayPart(keeps, acc[k - 1], c[k])
                 /\ Replay(keeps, c) = acc[n]
  BY ReplayIs
<1> HIDE DEF T
<1>3. \A k \in 0..n : /\ pre(k) \in Seq(T)
                      /\ k > 0 => pre(k) = Joined(pre(k - 1), <<c[k]>>)
  <2>1. ASSUME NEW k \in 0..n
        PROVE  /\ pre(k) \in Seq(T)
               /\ k > 0 => pre(k) = Joined(pre(k - 1), <<c[k]>>)
    BY <1>1, PrefixFacts
  <2> QED BY <2>1
<1>4. pre(0) = <<>> /\ pre(n) = c
  <2>1. n \in 0..Len(c)
    BY <1>1
  <2> QED BY <1>1, <2>1, PrefixFacts
<1> HIDE DEF pre
\* The last of the replay so far, when the last part was no metadata.
<1> DEFINE Ends(k) ==
             \E s, x : /\ IsSeq(s) /\ (\A y \in Range(s) : IsRigPart(y)) /\ IsRigPart(x)
                       /\ x.type = "ToolCall" => x.meta = Nil
                       /\ acc[k].rig = Joined(s, <<x>>)
           Holds(k) ==
             /\ IsReplay(acc[k])
             /\ acc[k].verdict = "Ok" =>
                  /\ Back(acc[k].rig) = Through(Can, pre(k))
                  /\ k = 0 => acc[k].rig = <<>>
                  /\ k > 0 => IsMetadata(c[k]) \/ Ends(k)
           A == {k \in 0..n : Holds(k)}
<1>5. 0 \in A
  <2>1. IsReplay(acc[0]) /\ acc[0].rig = <<>>
    BY <1>2, EmptyIsSeq DEF IsReplay, NoReplay, ReplayVerdicts
  <2>2. pre(0) = <<>>
    BY <1>4
  <2>3. Back(<<>>) = FlattenSeq(Through(Can, <<>>))
    <3>1. \A x \in Range(<<>>) : Can[x] = Recovered(x)
      BY EmptyIsSeq
    <3> QED BY <3>1, BackIs
  <2>4. Back(<<>>) = Through(Can, <<>>)
    BY <2>3, ThroughNone, FlattenNone
  <2> QED BY <1>1, <2>1, <2>2, <2>4
<1>6. ASSUME NEW k \in 1..n, k - 1 \in A PROVE k \in A
  <2>1. k \in 0..n /\ k - 1 \in 0..n /\ k > 0
    BY <1>1
  <2> DEFINE r == acc[k - 1]
             part == c[k]
             q == acc[k]
  <2>2. /\ q = ReplayPart(keeps, r, part) /\ FormedPart(part)
        /\ IsData(part) => part.data \in ReplayKinds
        /\ Can[part] = Canonical(part)
    BY <1>1, <1>2 DEF T
  <2>3. Holds(k - 1)
    BY <1>6
  <2>4. IsReplay(r) /\ IsReplay(q)
    BY <2>2, <2>3, ReplayPartFacts
  <2>5. pre(k) = Joined(pre(k - 1), <<part>>) /\ IsSeq(pre(k - 1)) /\ IsSeq(<<part>>)
    BY <1>3, <2>1, TypedIsSeq, OneIsSeq
  <2>6. Through(Can, pre(k)) = Joined(Through(Can, pre(k - 1)), <<Canonical(part)>>)
    BY <2>2, <2>5, ThroughConcat, ThroughOne
  <2>7. ASSUME q.verdict = "Ok", ~IsMetadata(part)
        PROVE  Back(q.rig) = Through(Can, pre(k)) /\ Ends(k)
    <3>1. PICK x : /\ IsRigPart(x) /\ q.rig = Joined(r.rig, <<x>>)
                   /\ Recovered(x) = <<Canonical(part)>>
                   /\ x.type = "ToolCall" => x = RigCall(part.call, Nil)
      <4>1. /\ ReplayPart(keeps, r, part).verdict = "Ok" /\ IsReplay(r) /\ FormedPart(part)
            /\ IsData(part) => part.data \in ReplayKinds
            /\ ~IsMetadata(part)
        BY <2>2, <2>4, <2>7
      <4> HIDE DEF r, part, q
      <4>2. \E x : /\ IsRigPart(x) /\ ReplayPart(keeps, r, part).rig = Joined(r.rig, <<x>>)
                   /\ Recovered(x) = <<Canonical(part)>>
                   /\ x.type = "ToolCall" => x = RigCall(part.call, Nil)
        BY <4>1, ReplayOne
      <4> QED BY <2>2, <4>2
    <3>2. r.verdict = "Ok"
      BY <2>2, <2>4, <2>7, ReplayOne
    <3>3. Back(r.rig) = Through(Can, pre(k - 1))
      BY <2>3, <3>2
    <3>4. IsSeq(r.rig) /\ \A y \in Range(r.rig) : IsRigPart(y)
      BY <2>4 DEF IsReplay
    <3>5. Back(q.rig) = Joined(Back(r.rig), Recovered(x))
      BY <3>1, <3>4, BackMore
    <3>6. x.type = "ToolCall" => x.meta = Nil
      BY <3>1 DEF RigCall
    <3> QED BY <2>6, <3>1, <3>3, <3>4, <3>5, <3>6
  <2>8. ASSUME q.verdict = "Ok", IsMetadata(part)
        PROVE  Back(q.rig) = Through(Can, pre(k))
    <3>1. r.verdict = "Ok" /\ q = ReplayMetadata(r, part.value)
      BY <2>2, <2>8 DEF ReplayPart, ReplayData, IsMetadata, IsData
    <3>2. part.value # Nil
      BY <2>2, <2>8 DEF FormedPart, IsPart, IsMetadata, IsData
    <3>3. k - 1 # 0
      <4>1. SUFFICES ASSUME k - 1 = 0 PROVE FALSE
        OBVIOUS
      <4>2. r.rig = <<>>
        BY <2>3, <3>1, <4>1
      <4>3. Len(r.rig) > 0
        BY <2>4, <2>8, <3>1, MetadataFacts
      <4> QED BY <4>2, <4>3, EmptyIsSeq
    <3>4. ~IsMetadata(c[k - 1])
      <4>1. k \in 2..n
        BY <1>1, <3>3
      <4> QED BY <2>8, <4>1
    <3>5. Ends(k - 1)
      <4>1. k - 1 > 0
        BY <1>1, <3>3
      <4> HIDE DEF Ends
      <4> QED BY <2>3, <3>1, <3>4, <4>1
    <3>6. PICK s, x : /\ IsSeq(s) /\ (\A y \in Range(s) : IsRigPart(y)) /\ IsRigPart(x)
                      /\ x.type = "ToolCall" => x.meta = Nil
                      /\ r.rig = Joined(s, <<x>>)
      BY <3>5
    <3>7. Back(q.rig) = Joined(Back(r.rig), <<DataContent("tool_call_metadata", part.value)>>)
      <4> DEFINE meta == part.value
      <4>1. meta # Nil /\ q = ReplayMetadata(r, meta) /\ ReplayMetadata(r, meta).verdict = "Ok"
        BY <2>8, <3>1, <3>2
      <4> HIDE DEF r, part, q, meta
      <4>2. Back(ReplayMetadata(r, meta).rig)
              = Joined(Back(r.rig), <<DataContent("tool_call_metadata", meta)>>)
        BY <2>4, <3>1, <3>6, <4>1, ReplayAttaches
      <4> QED BY <4>1, <4>2 DEF meta
    <3>8. Canonical(part) = DataContent("tool_call_metadata", part.value)
      BY <2>8 DEF Canonical, IsMetadata, IsData
    <3> QED BY <2>3, <2>6, <3>1, <3>7, <3>8
  <2> HIDE DEF Ends
  <2>9. Holds(k)
    BY <2>1, <2>4, <2>7, <2>8
  <2> HIDE DEF Holds
  <2> QED BY <2>1, <2>9
<1>7. n \in A
  <2>1. n \in 0..n
    BY <1>1
  <2> HIDE DEF A, n
  <2> QED BY <1>1, <1>5, <1>6, <2>1, CountUp
<1> HIDE DEF Ends
<1> QED BY <1>2, <1>7, <1>4

\* What is on the wire: what a response may have, and results.
IsWirePart(part) ==
  \/ IsRigPart(part)
  \/ /\ part.type = "ToolResult"
     /\ part = [type |-> "ToolResult", call |-> part.call, name |-> part.name,
                identity |-> part.identity, value |-> part.value, answers |-> part.answers]

IsWire(message) ==
  /\ message = Message(message.role, message.content)
  /\ IsSeq(message.content) /\ \A part \in Range(message.content) : IsWirePart(part)

LEMMA PartsAre ==
  ASSUME NEW messages, IsSeq(messages), \A j \in 1..Len(messages) : IsSeq(messages[j].content),
         NEW C, \A m \in Range(messages) : C[m] = m.content
  PROVE  /\ IsSeqs(Through(C, messages)) /\ PartsOf(messages) = FlattenSeq(Through(C, messages))
         /\ IsSeq(PartsOf(messages))
         /\ Range(PartsOf(messages)) = UNION {Range(messages[j].content) : j \in 1..Len(messages)}
<1> DEFINE t == Through(C, messages)
<1>1. DOMAIN messages = 1..Len(messages) /\ \A j \in 1..Len(messages) : messages[j] \in Range(messages)
  BY SeqIs DEF Range
<1>2. /\ IsSeq(t) /\ Len(t) = Len(messages)
      /\ \A j \in 1..Len(messages) : t[j] = C[messages[j]]
  BY ThroughFacts
<1>3. PartsOf(messages) = FlattenSeq(t)
  <2>1. [i \in DOMAIN messages |-> messages[i].content] = t
    BY <1>1 DEF Through
  <2> QED BY <2>1 DEF PartsOf
<1> HIDE DEF t
<1>4. \A j \in 1..Len(messages) : t[j] = messages[j].content
  BY <1>1, <1>2
<1>5. IsSeqs(t)
  BY <1>2, <1>4 DEF IsSeqs
<1>6. /\ IsSeq(FlattenSeq(t))
      /\ Range(FlattenSeq(t)) = UNION {Range(t[j]) : j \in 1..Len(t)}
  BY <1>5, FlattenFacts
<1>7. {Range(t[j]) : j \in 1..Len(t)} = {Range(messages[j].content) : j \in 1..Len(messages)}
  BY <1>2, <1>4
<1> QED BY <1>3, <1>5, <1>6, <1>7 DEF t

LEMMA RigPartFacts ==
  ASSUME NEW part, FormedPart(part), part.kind \in {"Text", "ToolResult"}
  PROVE  IsWirePart(RigPart(part)) /\ Recovered(RigPart(part)) = <<Canonical(part)>>
<1>1. CASE part.kind = "Text"
  <2>1. RigPart(part) = RigText(part.text, FALSE) /\ part = TextContent(part.text)
    BY <1>1 DEF RigPart, FormedPart, IsPart
  <2>2. Canonical(part) = TextContent(part.text)
    BY <1>1, <2>1 DEF Canonical, IsData
  <2>3. IsRigPart(RigText(part.text, FALSE))
    BY DEF IsRigPart, RigText
  <2> QED BY <2>1, <2>2, <2>3, RecoveredFacts DEF IsWirePart
<1>2. CASE part.kind = "ToolResult"
  <2>1. RigPart(part) = RigResult(part)
    BY <1>2 DEF RigPart
  <2>2. /\ RigResult(part).type = "ToolResult" /\ IsWirePart(RigResult(part))
        /\ RigResult(part).call = part.call /\ RigResult(part).value = part.value
    BY DEF RigResult, IsWirePart
  <2>3. Canonical(part) = [kind |-> "ToolResult", call |-> part.call, value |-> part.value]
    BY <1>2 DEF Canonical, IsData
  <2> QED BY <2>1, <2>2, <2>3, RecoveredFacts
<1> QED BY <1>1, <1>2

\* What else than an assistant says and is accepted is text and results.
LEMMA ForwardedKinds ==
  ASSUME NEW target, NEW m, Formed(m), MessageVerdict(target, m) = "Ok", m.role # "Assistant"
  PROVE  \A part \in Range(Forwarded(target, m.content)) : part.kind \in {"Text", "ToolResult"}
<1> DEFINE parts == Forwarded(target, m.content)
<1>1. \A part \in Range(parts) : part \in Range(m.content) /\ ~NotForwarded(target, part)
  BY ForwardedFacts
<1>2. m.content # <<>> /\ m.role # "Developer"
  BY DEF MessageVerdict
<1> DEFINE verdicts == [k \in DOMAIN m.content |-> PartVerdict(m.role, target, m.content[k])]
<1>3. FirstError(verdicts) = "Ok"
  BY <1>2 DEF MessageVerdict
<1>4. Len(m.content) \in Nat /\ DOMAIN m.content = 1..Len(m.content)
  BY SeqIs DEF Formed
<1>5. verdicts \in Seq(Range(verdicts))
  <2>1. verdicts = [k \in 1..Len(m.content) |-> verdicts[k]]
    BY <1>4
  <2> HIDE DEF verdicts
  <2> QED BY <1>4, <2>1, FunctionIsSeq DEF IsSeq
<1>6. \A k \in DOMAIN verdicts : verdicts[k] = "Ok"
  <2> HIDE DEF verdicts
  <2> QED BY <1>3, <1>5, EveryCheckPasses
<1>7. ASSUME NEW k \in DOMAIN m.content, ~NotForwarded(target, m.content[k])
      PROVE  m.content[k].kind \in {"Text", "ToolResult"}
  <2>1. PartVerdict(m.role, target, m.content[k]) = "Ok"
    BY <1>6
  <2>2. m.content[k].kind \in {"Text", "ToolCall", "ProviderData", "ToolResult"}
    BY DEF Formed, FormedPart, IsPart, Range
  <2> QED BY <1>7, <2>1, <2>2 DEF PartVerdict, IsData
<1>8. ASSUME NEW part \in Range(parts) PROVE part.kind \in {"Text", "ToolResult"}
  <2>1. PICK k \in DOMAIN m.content : part = m.content[k]
    BY <1>1 DEF Range
  <2> QED BY <1>1, <1>7, <2>1
<1> QED BY <1>8

\* Every part of a message that is accepted is on the wire.
LEMMA MessageBack ==
  ASSUME NEW target, NEW m, Formed(m), MessageVerdict(target, m) = "Ok",
         m.role = "Assistant" => MetadataOnce(target, m),
         NEW Can, \A part \in Range(m.content) : Can[part] = Canonical(part)
  PROVE  LET rig == MessageToRig(target, m)
         IN  /\ IsSeq(rig) /\ \A message \in Range(rig) : IsWire(message)
             /\ Back(PartsOf(rig)) = Through(Can, Forwarded(target, m.content))
<1> DEFINE parts == Forwarded(target, m.content)
           rig == MessageToRig(target, m)
           all == [k \in DOMAIN parts |-> RigPart(parts[k])]
<1>1. /\ IsSeq(parts)
      /\ \A part \in Range(parts) :
           part \in Range(m.content) /\ FormedPart(part) /\ ~NotForwarded(target, part)
  BY ForwardedFacts
<1>2. m.content # <<>> /\ m.role # "Developer" /\ m.role \in Roles
  BY DEF MessageVerdict, Formed
\* One message, or none.
<1>3. ASSUME NEW role, NEW content, IsSeq(content), \A part \in Range(content) : IsWirePart(part)
      PROVE  /\ IsSeq(OneMessage(role, content))
             /\ \A message \in Range(OneMessage(role, content)) : IsWire(message)
             /\ PartsOf(OneMessage(role, content)) = content
  <2>1. CASE content = <<>>
    <3>1. OneMessage(role, content) = <<>>
      BY <2>1 DEF OneMessage
    <3>2. PartsOf(<<>>) = <<>>
      <4> DEFINE none == [i \in DOMAIN <<>> |-> <<>>[i].content]
      <4>1. none = [k \in 1..0 |-> none[k]]
        BY EmptyIsSeq, SeqIs
      <4> HIDE DEF none
      <4>2. IsSeq(none) /\ Len(none) = 0
        BY <4>1, FunctionIsSeq
      <4>3. none = <<>>
        BY <4>2, EmptyIsSeq, SameSeq
      <4> QED BY <4>3, FlattenNone DEF PartsOf, none
    <3> QED BY <2>1, <3>1, <3>2, EmptyIsSeq
  <2>2. CASE content # <<>>
    <3> DEFINE one == Message(role, content)
               C == [x \in {one} |-> content]
    <3>1. OneMessage(role, content) = <<one>>
      BY <2>2 DEF OneMessage
    <3>2. one.content = content /\ one.role = role
      BY DEF Message
    <3>3. IsWire(one)
      BY <1>3, <3>2 DEF IsWire
    <3> HIDE DEF one
    <3>4. IsSeq(<<one>>) /\ Len(<<one>>) = 1 /\ Range(<<one>>) = {one}
      BY OneIsSeq
    <3>5. PartsOf(<<one>>) = FlattenSeq(Through(C, <<one>>))
      <4>1. \A j \in 1..Len(<<one>>) : IsSeq(<<one>>[j].content)
        BY <1>3, <3>2, <3>4
      <4>2. \A x \in Range(<<one>>) : C[x] = x.content
        BY <3>2, <3>4
      <4> HIDE DEF C
      <4> QED BY <3>4, <4>1, <4>2, PartsAre
    <3>6. Through(C, <<one>>) = <<content>>
      BY ThroughOne
    <3> QED BY <1>3, <3>1, <3>3, <3>4, <3>5, <3>6, FlattenOne
  <2> QED BY <2>1, <2>2
<1>4. CASE m.role = "Assistant"
  <2> DEFINE replay == Replay(Keeps(target), parts)
  <2>1. replay.verdict = "Ok" /\ rig = OneMessage("Assistant", replay.rig)
    BY <1>2, <1>4 DEF MessageVerdict, MessageToRig
  <2>2. IsReplay(replay)
    BY <1>1, ReplayTyped
  <2>3. \A part \in Range(parts) : IsData(part) => part.data \in ReplayKinds
    BY <1>1 DEF NotForwarded
  <2>4. \A k \in 2..Len(parts) : ~(IsMetadata(parts[k - 1]) /\ IsMetadata(parts[k]))
    BY <1>4 DEF MetadataOnce
  <2>5. Back(replay.rig) = Through(Can, parts)
    <3> HIDE DEF parts
    <3> QED BY <1>1, <2>1, <2>3, <2>4, ReplayBack
  <2> HIDE DEF replay
  <2>6. IsSeq(replay.rig) /\ \A part \in Range(replay.rig) : IsWirePart(part)
    BY <2>2 DEF IsReplay, IsWirePart
  <2> QED BY <1>3, <2>1, <2>5, <2>6
<1>5. CASE m.role # "Assistant"
  <2> DEFINE P == [x \in Range(parts) |-> RigPart(x)]
             R == [x \in Range(all) |-> Recovered(x)]
             H == [x \in Range(parts) |-> Recovered(RigPart(x))]
  <2>1. \A part \in Range(parts) : part.kind \in {"Text", "ToolResult"}
    BY <1>5, ForwardedKinds
  <2>2. \A part \in Range(parts) :
          IsWirePart(RigPart(part)) /\ Recovered(RigPart(part)) = <<Canonical(part)>>
    BY <1>1, <2>1, RigPartFacts
  <2>3. all = Through(P, parts)
    BY DEF Through, Range
  <2>4. /\ IsSeq(all) /\ Len(all) = Len(parts)
        /\ Range(all) = {P[x] : x \in Range(parts)}
    BY <1>1, <2>3, ThroughFacts
  <2>5. \A x \in Range(all) : IsWirePart(x)
    BY <2>2, <2>4
  <2>6. Back(all) = Through(Can, parts)
    <3>1. Back(all) = FlattenSeq(Through(R, all))
      <4>1. \A x \in Range(all) : R[x] = Recovered(x)
        OBVIOUS
      <4> HIDE DEF R, all
      <4> QED BY <4>1, BackIs
    <3>2. \A x \in Range(parts) : P[x] \in Range(all)
      BY <2>4
    <3>3. \A x \in Range(parts) : H[x] = R[P[x]]
      BY <3>2
    <3>4. \A x \in Range(parts) : H[x] = <<Can[x]>>
      BY <1>1, <2>2
    <3> HIDE DEF parts, R, P, H, all
    <3>5. Through(R, Through(P, parts)) = Through(H, parts)
      BY <1>1, <3>3, ThroughTwice
    <3>6. FlattenSeq(Through(H, parts)) = Through(Can, parts)
      BY <1>1, <3>4, FlattenSingles
    <3> QED BY <2>3, <3>1, <3>5, <3>6
  <2>7. CASE m.role = "System"
    <3> DEFINE F == [x \in Range(all) |-> <<x>>]
               G == [x \in Range(all) |-> x]
               M == [x \in Range(all) |-> Message("System", <<x>>)]
               C == [x \in Range(rig) |-> x.content]
    <3>1. rig = [k \in DOMAIN all |-> Message("System", <<all[k]>>)]
      BY <2>7 DEF MessageToRig
    <3>2. rig = Through(M, all)
      BY <3>1 DEF Through, Range
    <3>3. \A x \in Range(all) : M[x].content = <<x>> /\ IsWire(M[x])
      BY <2>5, OneIsSeq DEF Message, IsWire
    <3>4. /\ IsSeq(rig) /\ Len(rig) = Len(all) /\ \A k \in 1..Len(all) : rig[k] = M[all[k]]
          /\ Range(rig) = {M[x] : x \in Range(all)}
      <4> HIDE DEF M, all, rig
      <4> QED BY <2>4, <3>2, ThroughFacts
    <3>5. \A message \in Range(rig) : IsWire(message)
      BY <3>3, <3>4
    <3>6. PartsOf(rig) = FlattenSeq(Through(C, rig))
      <4>1. \A k \in 1..Len(all) : all[k] \in Range(all)
        BY <2>4, SeqIs DEF Range
      <4>2. ASSUME NEW k \in 1..Len(rig) PROVE IsSeq(rig[k].content)
        <5> HIDE DEF M, rig, all
        <5>1. rig[k] = M[all[k]] /\ all[k] \in Range(all)
          BY <3>4, <4>1
        <5>2. rig[k].content = <<all[k]>>
          BY <3>3, <5>1
        <5> QED BY <5>2, OneIsSeq
      <4>3. \A x \in Range(rig) : C[x] = x.content
        OBVIOUS
      <4> HIDE DEF C, rig
      <4> QED BY <3>4, <4>2, <4>3, PartsAre
    <3>7. \A x \in Range(all) : F[x] = C[M[x]] /\ F[x] = <<G[x]>>
      BY <3>3, <3>4
    <3> HIDE DEF F, G, M, C, rig, all
    <3>8. Through(C, rig) = Through(F, all)
      BY <2>4, <3>2, <3>7, ThroughTwice
    <3>9. FlattenSeq(Through(F, all)) = Through(G, all)
      BY <2>4, <3>7, FlattenSingles
    <3>10. Through(G, all) = all
      <4>1. \A k \in 1..Len(all) : G[all[k]] = all[k]
        BY <2>4, SeqIs DEF G, Range
      <4> QED BY <2>4, <4>1, ThroughFacts, SameSeq
    <3> QED BY <2>6, <3>4, <3>5, <3>6, <3>8, <3>9, <3>10 DEF rig
  <2>8. CASE m.role # "System"
    <3>1. rig = OneMessage("User", all)
      BY <1>5, <2>8 DEF MessageToRig
    <3> HIDE DEF all
    <3> QED BY <1>3, <2>4, <2>5, <2>6, <3>1
  <2> QED BY <2>7, <2>8
<1> QED BY <1>4, <1>5

\* Pairing gives a result the name and identity of a call, and changes nothing else.
LEMMA PairedPart ==
  ASSUME NEW messages, NEW j, NEW part, IsWirePart(part)
  PROVE  /\ IsWirePart(Paired(messages, j, part))
         /\ Paired(messages, j, part).type = part.type
         /\ Recovered(Paired(messages, j, part)) = Recovered(part)
         /\ part.type = "ToolResult" => Paired(messages, j, part).answers = part.answers
         /\ part.type # "ToolResult" => Paired(messages, j, part) = part
<1> DEFINE q == Paired(messages, j, part)
           calls == CallsNamed(SubSeq(messages, 1, j - 1), part.call)
<1>1. CASE q = part
  BY <1>1
<1>2. CASE q # part
  <2>1. /\ part.type = "ToolResult"
        /\ q = [part EXCEPT !.name = Last(calls).call.name, !.identity = Identity(Last(calls))]
    BY <1>2 DEF Paired
  <2>2. part = [type |-> "ToolResult", call |-> part.call, name |-> part.name,
                identity |-> part.identity, value |-> part.value, answers |-> part.answers]
    BY <2>1 DEF IsWirePart, IsRigPart
  <2>3. q = [type |-> "ToolResult", call |-> part.call, name |-> Last(calls).call.name,
             identity |-> Identity(Last(calls)), value |-> part.value, answers |-> part.answers]
    BY <2>1, <2>2
  <2>4. /\ q.type = "ToolResult" /\ q.call = part.call /\ q.value = part.value
        /\ q.answers = part.answers
        /\ q = [type |-> "ToolResult", call |-> q.call, name |-> q.name,
                identity |-> q.identity, value |-> q.value, answers |-> q.answers]
    BY <2>3
  <2> HIDE DEF q
  <2>5. IsWirePart(q)
    BY <2>4 DEF IsWirePart
  <2>6. Recovered(q) = Recovered(part)
    BY <2>1, <2>4, RecoveredFacts
  <2> QED BY <2>1, <2>4, <2>5, <2>6 DEF q
<1> QED BY <1>1, <1>2

LEMMA PairedFacts ==
  ASSUME NEW M, IsSeq(M), \A message \in Range(M) : IsWire(message)
  PROVE  LET W == PairResults(M)
         IN  /\ IsSeq(W) /\ Len(W) = Len(M)
             /\ \A j \in 1..Len(M) :
                  /\ IsSeq(M[j].content) /\ IsSeq(W[j].content)
                  /\ Len(W[j].content) = Len(M[j].content)
                  /\ \A k \in 1..Len(M[j].content) :
                       /\ IsWirePart(M[j].content[k])
                       /\ W[j].content[k] = Paired(M, j, M[j].content[k])
<1> DEFINE W == PairResults(M)
           paired(j) == [k \in DOMAIN M[j].content |-> Paired(M, j, M[j].content[k])]
<1>1. Len(M) \in Nat /\ DOMAIN M = 1..Len(M)
  BY SeqIs
<1>2. ASSUME NEW j \in 1..Len(M)
      PROVE  /\ M[j] = Message(M[j].role, M[j].content)
             /\ IsSeq(M[j].content) /\ \A part \in Range(M[j].content) : IsWirePart(part)
  <2>1. M[j] \in Range(M)
    BY <1>1 DEF Range
  <2> QED BY <2>1 DEF IsWire
<1>3. ASSUME NEW j \in 1..Len(M) PROVE W[j] = Message(M[j].role, paired(j))
  <2>1. W[j] = [M[j] EXCEPT !.content = paired(j)]
    BY <1>1 DEF PairResults
  <2> HIDE DEF paired, W
  <2>2. M[j] = [role |-> M[j].role, content |-> M[j].content]
    BY <1>2 DEF Message
  <2> QED BY <2>1, <2>2 DEF Message
<1>4. W = [j \in 1..Len(M) |-> W[j]]
  BY <1>1 DEF PairResults
<1>5. ASSUME NEW j \in 1..Len(M)
      PROVE  /\ IsSeq(M[j].content) /\ IsSeq(W[j].content)
             /\ Len(W[j].content) = Len(M[j].content)
             /\ \A k \in 1..Len(M[j].content) :
                  /\ IsWirePart(M[j].content[k])
                  /\ W[j].content[k] = Paired(M, j, M[j].content[k])
  <2> DEFINE content == M[j].content
             p == paired(j)
  <2>1. IsSeq(content) /\ Len(content) \in Nat /\ DOMAIN content = 1..Len(content)
    BY <1>2, SeqIs
  <2>2. p = [k \in 1..Len(content) |-> p[k]]
    BY <2>1
  <2>3. \A k \in 1..Len(content) : p[k] = Paired(M, j, content[k])
    BY <2>1
  <2>4. \A k \in 1..Len(content) : IsWirePart(content[k])
    BY <1>2, <2>1 DEF Range
  <2>5. W[j].content = p
    <3>1. W[j] = Message(M[j].role, paired(j))
      BY <1>3
    <3> HIDE DEF W, paired
    <3> QED BY <3>1 DEF Message
  <2> HIDE DEF p, content
  <2>6. IsSeq(p) /\ Len(p) = Len(content)
    BY <2>1, <2>2, FunctionIsSeq
  <2> QED BY <2>1, <2>3, <2>4, <2>5, <2>6 DEF content
<1> HIDE DEF W
<1>6. IsSeq(W) /\ Len(W) = Len(M)
  BY <1>1, <1>4, FunctionIsSeq
<1> QED BY <1>5, <1>6 DEF W

LEMMA PairedBack ==
  ASSUME NEW M, IsSeq(M), \A message \in Range(M) : IsWire(message)
  PROVE  Back(PartsOf(PairResults(M))) = Back(PartsOf(M))
<1> DEFINE W == PairResults(M)
           n == Len(M)
           CW == [m \in Range(W) |-> m.content]
           CM == [m \in Range(M) |-> m.content]
           cw == Through(CW, W)
           cm == Through(CM, M)
           R == [x \in Range(PartsOf(W)) \cup Range(PartsOf(M)) |-> Recovered(x)]
<1>1. /\ IsSeq(W) /\ Len(W) = n /\ n \in Nat
      /\ \A j \in 1..n :
           /\ IsSeq(M[j].content) /\ IsSeq(W[j].content)
           /\ Len(W[j].content) = Len(M[j].content)
           /\ \A k \in 1..Len(M[j].content) :
                /\ IsWirePart(M[j].content[k])
                /\ W[j].content[k] = Paired(M, j, M[j].content[k])
  BY PairedFacts, SeqIs
<1> HIDE DEF W, n
<1>2. \A x \in Range(PartsOf(W)) \cup Range(PartsOf(M)) : R[x] = Recovered(x)
  OBVIOUS
<1>3. /\ \A m \in Range(W) : CW[m] = m.content
      /\ \A m \in Range(M) : CM[m] = m.content
      /\ \A j \in 1..n : W[j] \in Range(W) /\ M[j] \in Range(M)
  BY <1>1, SeqIs DEF Range, n
<1> HIDE DEF R, CW, CM
<1>4. /\ IsSeqs(cw) /\ PartsOf(W) = FlattenSeq(cw) /\ IsSeq(PartsOf(W))
      /\ Range(PartsOf(W)) = UNION {Range(W[j].content) : j \in 1..n}
  BY <1>1, <1>3, PartsAre
<1>5. /\ IsSeqs(cm) /\ PartsOf(M) = FlattenSeq(cm) /\ IsSeq(PartsOf(M))
      /\ Range(PartsOf(M)) = UNION {Range(M[j].content) : j \in 1..n}
  BY <1>1, <1>3, PartsAre DEF n
<1>6. /\ Len(cw) = n /\ Len(cm) = n /\ DOMAIN cw = 1..n /\ DOMAIN cm = 1..n
      /\ \A j \in 1..n : cw[j] = W[j].content /\ cm[j] = M[j].content
  <2>1. IsSeq(cw) /\ IsSeq(cm) /\ Len(cw) = n /\ Len(cm) = n
    BY <1>1, ThroughFacts DEF n
  <2>2. /\ \A j \in 1..n : cw[j] = CW[W[j]]
        /\ \A j \in 1..n : cm[j] = CM[M[j]]
    BY <1>1, ThroughFacts DEF n
  <2> HIDE DEF cw, cm
  <2> QED BY <1>3, <2>1, <2>2, SeqIs
<1> HIDE DEF cw, cm
\* Every part has a part of the other sequence that says the same.
<1>7. ASSUME NEW j \in 1..n, NEW k \in 1..Len(M[j].content)
      PROVE  /\ W[j].content[k] \in Range(PartsOf(W)) /\ M[j].content[k] \in Range(PartsOf(M))
             /\ R[W[j].content[k]] = R[M[j].content[k]]
             /\ IsSeq(R[W[j].content[k]])
  <2>1. W[j].content[k] \in Range(W[j].content) /\ M[j].content[k] \in Range(M[j].content)
    BY <1>1, SeqIs DEF Range
  <2>2. W[j].content[k] \in Range(PartsOf(W)) /\ M[j].content[k] \in Range(PartsOf(M))
    BY <1>4, <1>5, <2>1
  <2>3. IsWirePart(M[j].content[k]) /\ W[j].content[k] = Paired(M, j, M[j].content[k])
    BY <1>1
  <2>4. /\ Recovered(W[j].content[k]) = Recovered(M[j].content[k])
        /\ IsWirePart(W[j].content[k])
    BY <2>3, PairedPart
  <2>5. IsSeq(Recovered(W[j].content[k]))
    BY <2>4, RecoveredIsSeq DEF IsWirePart
  <2> QED BY <1>2, <2>2, <2>4, <2>5
<1>8. ASSUME NEW j \in 1..n
      PROVE  /\ Through(R, cw[j]) = Through(R, cm[j])
             /\ \A x \in Range(cw[j]) \cup Range(cm[j]) : IsSeq(R[x])
  <2> DEFINE a == cw[j]
             b == cm[j]
  <2>1. IsSeq(a) /\ IsSeq(b) /\ Len(a) = Len(b) /\ Len(b) = Len(M[j].content)
        /\ a = W[j].content /\ b = M[j].content
    BY <1>1, <1>6
  <2>2. \A k \in 1..Len(b) : R[a[k]] = R[b[k]] /\ IsSeq(R[a[k]])
    BY <1>7, <2>1
  <2> HIDE DEF a, b
  <2>3. /\ IsSeq(Through(R, a)) /\ Len(Through(R, a)) = Len(a)
        /\ \A k \in 1..Len(a) : Through(R, a)[k] = R[a[k]]
    BY <2>1, ThroughFacts
  <2>4. /\ IsSeq(Through(R, b)) /\ Len(Through(R, b)) = Len(b)
        /\ \A k \in 1..Len(b) : Through(R, b)[k] = R[b[k]]
    BY <2>1, ThroughFacts
  <2>5. \A k \in 1..Len(a) : Through(R, a)[k] = Through(R, b)[k]
    BY <2>1, <2>2, <2>3, <2>4
  <2>6. Through(R, a) = Through(R, b)
    BY <2>1, <2>3, <2>4, <2>5, SameSeq
  <2>7. \A x \in Range(a) \cup Range(b) : IsSeq(R[x])
    <3>1. DOMAIN a = 1..Len(b) /\ DOMAIN b = 1..Len(b)
      BY <2>1, SeqIs
    <3> QED BY <2>2, <3>1 DEF Range
  <2> QED BY <2>6, <2>7 DEF a, b
<1> DEFINE fw == [j \in DOMAIN cw |-> FlattenSeq(Through(R, cw[j]))]
           fm == [j \in DOMAIN cm |-> FlattenSeq(Through(R, cm[j]))]
<1>9. FlattenSeq(Through(R, PartsOf(W))) = FlattenSeq(fw)
  <2>1. \A j \in 1..Len(cw) : \A x \in Range(cw[j]) : IsSeq(R[x])
    BY <1>6, <1>8
  <2> QED BY <1>4, <2>1, FlatThroughFlat
<1>10. FlattenSeq(Through(R, PartsOf(M))) = FlattenSeq(fm)
  <2>1. \A j \in 1..Len(cm) : \A x \in Range(cm[j]) : IsSeq(R[x])
    BY <1>6, <1>8
  <2> QED BY <1>5, <2>1, FlatThroughFlat
<1>11. fw = fm
  BY <1>6, <1>8
<1>12. /\ Back(PartsOf(W)) = FlattenSeq(Through(R, PartsOf(W)))
       /\ Back(PartsOf(M)) = FlattenSeq(Through(R, PartsOf(M)))
  BY <1>2, BackIs
<1> QED BY <1>9, <1>10, <1>11, <1>12 DEF W

\* Message by message.
LEMMA BackFlat ==
  ASSUME NEW seqs, IsSeqs(seqs),
         \A i \in 1..Len(seqs) : \A message \in Range(seqs[i]) : IsWire(message)
  PROVE  Back(PartsOf(FlattenSeq(seqs)))
           = FlattenSeq([i \in DOMAIN seqs |-> Back(PartsOf(seqs[i]))])
<1> DEFINE M == FlattenSeq(seqs)
           n == Len(seqs)
           C == [m \in Range(M) |-> m.content]
           flat == [i \in DOMAIN seqs |-> FlattenSeq(Through(C, seqs[i]))]
           R == [x \in Range(PartsOf(M)) |-> Recovered(x)]
           back == [i \in DOMAIN flat |-> FlattenSeq(Through(R, flat[i]))]
<1>1. /\ IsSeq(M) /\ Range(M) = UNION {Range(seqs[i]) : i \in 1..n}
      /\ DOMAIN seqs = 1..n /\ n \in Nat
  BY FlattenFacts, SeqIs DEF IsSeqs
<1>2. \A m \in Range(M) : IsWire(m) /\ C[m] = m.content /\ IsSeq(C[m])
  <2>1. \A m \in Range(M) : IsWire(m)
    BY <1>1
  <2> QED BY <2>1 DEF IsWire
<1>3. \A x \in Range(PartsOf(M)) : R[x] = Recovered(x)
  OBVIOUS
<1> HIDE DEF M, C, R
<1>4. \A j \in 1..Len(M) : M[j] \in Range(M)
  BY <1>1, SeqIs DEF Range
<1>5. /\ PartsOf(M) = FlattenSeq(Through(C, M))
      /\ Range(PartsOf(M)) = UNION {Range(M[j].content) : j \in 1..Len(M)}
  <2>1. \A j \in 1..Len(M) : IsSeq(M[j].content)
    BY <1>2, <1>4
  <2> QED BY <1>1, <1>2, <2>1, PartsAre
<1>6. IsSeqs(flat) /\ Len(flat) = n /\ FlattenSeq(Through(C, M)) = FlattenSeq(flat)
  <2>1. \A k \in 1..Len(seqs) : \A x \in Range(seqs[k]) : IsSeq(C[x])
    BY <1>1, <1>2
  <2> QED BY <2>1, FlatThroughFlat DEF M
<1>7. \A i \in 1..n : flat[i] = PartsOf(seqs[i])
  <2>1. ASSUME NEW i \in 1..n PROVE flat[i] = PartsOf(seqs[i])
    <3>1. flat[i] = FlattenSeq(Through(C, seqs[i]))
      BY <1>1
    <3>2. IsSeq(seqs[i]) /\ \A m \in Range(seqs[i]) : C[m] = m.content /\ IsSeq(m.content)
      BY <1>1, <1>2 DEF IsSeqs
    <3>3. \A j \in 1..Len(seqs[i]) : IsSeq(seqs[i][j].content)
      <4>1. \A j \in 1..Len(seqs[i]) : seqs[i][j] \in Range(seqs[i])
        BY <3>2, SeqIs DEF Range
      <4> QED BY <3>2, <4>1
    <3> QED BY <3>1, <3>2, <3>3, PartsAre
  <2> QED BY <2>1
<1>8. \A x \in Range(PartsOf(M)) : IsSeq(R[x])
  <2>1. ASSUME NEW x \in Range(PartsOf(M)) PROVE IsSeq(R[x])
    <3>1. PICK j \in 1..Len(M) : x \in Range(M[j].content)
      BY <1>5
    <3>2. IsWirePart(x)
      BY <1>2, <1>4, <3>1 DEF IsWire
    <3> QED BY <1>3, <3>2, RecoveredIsSeq DEF IsWirePart
  <2> QED BY <2>1
<1> HIDE DEF flat
<1>9. \A i \in 1..n : Range(flat[i]) \subseteq Range(PartsOf(M))
  BY <1>5, <1>6, FlattenFacts
<1>10. FlattenSeq(Through(R, FlattenSeq(flat))) = FlattenSeq(back)
  <2>1. \A k \in 1..Len(flat) : \A x \in Range(flat[k]) : IsSeq(R[x])
    BY <1>6, <1>8, <1>9
  <2> QED BY <1>6, <2>1, FlatThroughFlat
<1>11. \A i \in 1..n : FlattenSeq(Through(R, flat[i])) = Back(PartsOf(seqs[i]))
  <2>1. ASSUME NEW i \in 1..n PROVE FlattenSeq(Through(R, flat[i])) = Back(PartsOf(seqs[i]))
    <3>1. \A x \in Range(flat[i]) : R[x] = Recovered(x)
      BY <1>3, <1>9
    <3> QED BY <1>7, <3>1, BackIs
  <2> QED BY <2>1
<1>12. DOMAIN flat = 1..n
  BY <1>6, SeqIs DEF IsSeqs
<1>13. back = [i \in DOMAIN seqs |-> Back(PartsOf(seqs[i]))]
  BY <1>1, <1>11, <1>12
<1>14. Back(PartsOf(M)) = FlattenSeq(Through(R, PartsOf(M)))
  BY <1>3, BackIs
<1> QED BY <1>5, <1>6, <1>10, <1>13, <1>14 DEF M

\* Metadata that follows its call does so among what is forwarded.
AttachedIn(c, S) ==
  \A k \in DOMAIN c : c[k] \in S /\ IsMetadata(c[k]) => k > 1 /\ c[k - 1].kind = "ToolCall"

LEMMA OnlyAttached ==
  ASSUME NEW c, IsSeq(c), NEW S, AttachedIn(c, S),
         \A part \in Range(c) : part.kind = "ToolCall" => part \in S
  PROVE  Attached(Only(c, S))
<1> DEFINE n == Len(c)
           one(k) == IF c[k] \in S THEN <<c[k]>> ELSE <<>>
           sel == [k \in DOMAIN c |-> one(k)]
<1>1. n \in Nat /\ DOMAIN c = 1..n
  BY SeqIs
<1>2. sel = [k \in 1..n |-> sel[k]] /\ \A k \in 1..n : sel[k] = one(k) /\ IsSeq(sel[k])
  BY <1>1, EmptyIsSeq, OneIsSeq
<1> HIDE DEF sel
<1>3. IsSeqs(sel) /\ Len(sel) = n
  <2>1. IsSeq(sel) /\ Len(sel) = n
    <3> HIDE DEF n
    <3> QED BY <1>1, <1>2, FunctionIsSeq
  <2> QED BY <1>2, <2>1 DEF IsSeqs
<1>4. PICK f : FlatSteps(f, sel)
  BY <1>3, FlattenIs
<1>5. /\ f[0] = <<>> /\ Only(c, S) = f[n] /\ \A k \in 0..n : IsSeq(f[k])
      /\ \A k \in 1..n : f[k] = Joined(f[k - 1], one(k))
  BY <1>2, <1>3, <1>4 DEF FlatSteps, Only, sel
\* A call that was the last is the last of what is selected.
<1> DEFINE Ends(k) == Len(f[k]) > 0 /\ f[k][Len(f[k])] = c[k]
           A == {k \in 0..n : /\ Attached(f[k])
                              /\ k > 0 /\ c[k].kind = "ToolCall" => Ends(k)}
<1>6. 0 \in A
  <2>1. DOMAIN <<>> = {}
    BY EmptyIsSeq, SeqIs
  <2> QED BY <1>1, <1>5, <2>1 DEF Attached
<1>7. ASSUME NEW k \in 1..n, k - 1 \in A PROVE k \in A
  <2> DEFINE p == f[k - 1]
             x == c[k]
             q == f[k]
  <2>1. /\ k \in 0..n /\ k - 1 \in 0..n /\ IsSeq(p) /\ Attached(p) /\ x \in Range(c)
        /\ k \in DOMAIN c
    BY <1>1, <1>5, <1>7 DEF Range
  <2>2. CASE x \notin S
    <3>1. q = p
      BY <1>5, <2>1, <2>2, ConcatEmpty
    <3>2. x.kind # "ToolCall"
      BY <2>1, <2>2
    <3> QED BY <2>1, <3>1, <3>2
  <2>3. CASE x \in S
    <3>1. q = Joined(p, <<x>>)
      BY <1>5, <2>3
    <3>2. /\ IsSeq(q) /\ Len(q) = Len(p) + 1 /\ Len(p) \in Nat
          /\ \A j \in 1..Len(p) : q[j] = p[j]
          /\ q[Len(p) + 1] = x
      BY <2>1, <3>1, LongerFacts, SeqIs
    <3>3. Ends(k)
      BY <3>2
    <3>4. ASSUME NEW j \in DOMAIN q, q[j].kind = "ProviderData", q[j].data = "tool_call_metadata"
          PROVE  j > 1 /\ q[j - 1].kind = "ToolCall"
      <4>1. DOMAIN q = 1..Len(p) + 1 /\ DOMAIN p = 1..Len(p)
        BY <2>1, <3>2, SeqIs
      <4>2. CASE j \in 1..Len(p)
        <5>1. j > 1 /\ p[j - 1].kind = "ToolCall"
          BY <2>1, <3>2, <3>4, <4>1, <4>2 DEF Attached
        <5>2. j - 1 \in 1..Len(p)
          BY <3>2, <4>2, <5>1
        <5> QED BY <3>2, <5>1, <5>2
      <4>3. CASE j = Len(p) + 1
        <5>1. k > 1 /\ c[k - 1].kind = "ToolCall"
          BY <2>1, <2>3, <3>2, <3>4, <4>3 DEF AttachedIn, IsMetadata, IsData
        <5>2. Len(p) > 0 /\ p[Len(p)] = c[k - 1]
          BY <1>7, <5>1
        <5>3. q[j - 1] = c[k - 1] /\ j > 1
          BY <3>2, <4>3, <5>2
        <5> QED BY <5>1, <5>3
      <4> QED BY <3>2, <4>1, <4>2, <4>3
    <3>5. Attached(q)
      <4> HIDE DEF q
      <4> QED BY <3>4 DEF Attached
    <3> HIDE DEF Ends
    <3> QED BY <2>1, <3>3, <3>5
  <2> QED BY <2>2, <2>3
<1>8. n \in A
  <2>1. n \in 0..n
    BY <1>1
  <2> HIDE DEF A, n
  <2> QED BY <1>1, <1>6, <1>7, <2>1, CountUp
<1> QED BY <1>5, <1>8

LEMMA AttachedOnce ==
  ASSUME NEW target, NEW message, Formed(message), Attached(message.content)
  PROVE  MetadataOnce(target, message)
<1> DEFINE c == message.content
           parts == Forwarded(target, c)
<1>1. IsSeq(c)
  BY DEF Formed
<1>2. Attached(parts)
  <2> DEFINE U == {x \in Range(c) : ~NotForwarded(target, x)}
  <2>1. \A part \in Range(c) : part.kind = "ToolCall" => part \in U
    BY DEF NotForwarded, IsData
  <2>2. parts = Only(c, U)
    BY DEF Forwarded
  <2>3. AttachedIn(c, U)
    BY DEF Attached, AttachedIn, IsMetadata, IsData
  <2> HIDE DEF U, parts
  <2> QED BY <1>1, <2>1, <2>2, <2>3, OnlyAttached
<1>3. IsSeq(parts)
  BY ForwardedFacts
<1>4. ASSUME NEW k \in 2..Len(parts), IsMetadata(parts[k - 1]), IsMetadata(parts[k]) PROVE FALSE
  <2> HIDE DEF parts
  <2>1. k \in DOMAIN parts
    BY <1>3, SeqIs
  <2> QED BY <1>2, <1>4, <2>1 DEF Attached, IsMetadata, IsData
<1> QED BY <1>4 DEF MetadataOnce

\* The report names what is not forwarded, and the rest is what is.
KeptParts(target, h) ==
  LET places == Locations(h)
      kept == Only(places, Range(places) \ Range(Facts(target, h)))
  IN  [k \in DOMAIN kept |-> Canonical(PartAt(h, kept[k]))]

ForwardedParts(Can, target, h) == [i \in DOMAIN h |-> Through(Can, Forwarded(target, h[i].content))]

LEMMA KeptIs ==
  ASSUME NEW target, NEW h, IsSeq(h), \A i \in DOMAIN h : Formed(h[i]),
         NEW Can, \A i \in DOMAIN h : \A part \in Range(h[i].content) : Can[part] = Canonical(part)
  PROVE  KeptParts(target, h) = FlattenSeq(ForwardedParts(Can, target, h))
<1> DEFINE places == Locations(h)
           S == Range(places) \ Range(Facts(target, h))
           kept == Only(places, S)
           said == [i \in DOMAIN h |-> Through(Can, Forwarded(target, h[i].content))]
           locs == [i \in DOMAIN h |-> [k \in DOMAIN h[i].content |-> <<i, k>>]]
           P == [at \in Range(places) |-> PartAt(h, at)]
           G == [at \in Range(places) |-> Canonical(PartAt(h, at))]
<1>1. Len(h) \in Nat /\ DOMAIN h = 1..Len(h)
  BY SeqIs
<1>2. ASSUME NEW i \in DOMAIN h PROVE IsSeq(h[i].content)
  BY DEF Formed
<1>3. /\ IsSeq(places)
      /\ \A at : at \in Range(places) <=>
                 \E i \in DOMAIN h : \E k \in DOMAIN h[i].content : at = <<i, k>>
  BY <1>2, LocationsFacts
<1>4. ASSUME NEW i \in DOMAIN h
      PROVE  LET loc == [k \in DOMAIN h[i].content |-> <<i, k>>]
             IN  IsSeq(loc) /\ Len(loc) = Len(h[i].content) /\ Range(loc) \subseteq Range(places)
  <2> DEFINE c == h[i].content
             loc == [k \in DOMAIN c |-> <<i, k>>]
  <2>1. IsSeq(c)
    BY <1>2
  <2>2. Len(c) \in Nat /\ DOMAIN c = 1..Len(c)
    BY <2>1, SeqIs
  <2>3. loc = [k \in 1..Len(c) |-> loc[k]]
    BY <2>2
  <2>4. Range(loc) \subseteq Range(places)
    <3>1. Range(loc) = {<<i, k>> : k \in DOMAIN c}
      BY DEF Range
    <3> HIDE DEF places
    <3> QED BY <1>3, <3>1
  <2> HIDE DEF loc, places, c
  <2>5. IsSeq(loc) /\ Len(loc) = Len(c)
    BY <2>2, <2>3, FunctionIsSeq
  <2> QED BY <2>4, <2>5 DEF loc, c
<1>5. IsSeqs(locs) /\ Len(locs) = Len(h) /\ places = FlattenSeq(locs)
  <2>1. locs = [i \in 1..Len(h) |-> locs[i]]
    BY <1>1
  <2>2. \A i \in 1..Len(h) : IsSeq(locs[i])
    BY <1>1, <1>4
  <2>3. places = FlattenSeq(locs)
    BY DEF Locations
  <2> HIDE DEF locs, places
  <2>4. IsSeq(locs) /\ Len(locs) = Len(h)
    BY <1>1, <2>1, FunctionIsSeq
  <2> QED BY <2>2, <2>3, <2>4 DEF IsSeqs
<1>6. S = {at \in Range(places) : ~NotForwarded(target, PartAt(h, at))}
  <2>1. Range(Facts(target, h)) = {at \in Range(places) : NotForwarded(target, PartAt(h, at))}
    <3> DEFINE U == {at \in Range(Locations(h)) : NotForwarded(target, PartAt(h, at))}
    <3>1. Facts(target, h) = Only(places, U)
      BY DEF Facts
    <3> HIDE DEF U, places
    <3>2. Range(Only(places, U)) = Range(places) \cap U
      BY <1>3, OnlyFacts
    <3> QED BY <3>1, <3>2 DEF U, places
  <2> QED BY <2>1
<1>7. \A at \in Range(places) : P[at] = PartAt(h, at) /\ G[at] = Canonical(PartAt(h, at))
  OBVIOUS
<1> HIDE DEF S, P, G
<1> DEFINE chosen == [i \in DOMAIN locs |-> Only(locs[i], S)]
           through == [i \in DOMAIN chosen |-> Through(G, chosen[i])]
<1>8. IsSeqs(chosen) /\ Len(chosen) = Len(h) /\ kept = FlattenSeq(chosen)
  <2> HIDE DEF locs, places
  <2> QED BY <1>5, OnlyFlat
<1>9. IsSeqs(through) /\ Len(through) = Len(h) /\ Through(G, kept) = FlattenSeq(through)
  <2> HIDE DEF chosen, kept
  <2> QED BY <1>8, ThroughFlat
<1>10. IsSeq(kept) /\ Range(kept) = Range(places) \cap S
  <2> HIDE DEF places
  <2> QED BY <1>3, OnlyFacts
<1>11. [k \in DOMAIN kept |-> Canonical(PartAt(h, kept[k]))] = Through(G, kept)
  <2> HIDE DEF kept, places
  <2>1. \A k \in DOMAIN kept : kept[k] \in Range(places)
    BY <1>10 DEF Range
  <2> QED BY <1>7, <2>1 DEF Through
<1>12. ASSUME NEW i \in DOMAIN h
       PROVE  Through(G, Only(locs[i], S)) = Through(Can, Forwarded(target, h[i].content))
  <2> DEFINE c == h[i].content
             loc == [k \in DOMAIN c |-> <<i, k>>]
             U == {part \in Range(c) : ~NotForwarded(target, part)}
  <2>1. IsSeq(loc) /\ Len(loc) = Len(c) /\ Range(loc) \subseteq Range(places) /\ locs[i] = loc
    BY <1>4
  <2>2. IsSeq(c) /\ DOMAIN c = 1..Len(c)
    BY <1>2, SeqIs
  <2>3. \A k \in 1..Len(c) : loc[k] = <<i, k>> /\ PartAt(h, loc[k]) = c[k]
    BY <2>2 DEF PartAt
  <2>4. DOMAIN loc = 1..Len(c)
    BY <2>2
  <2> HIDE DEF loc, locs, places
  <2>5. \A k \in 1..Len(c) : loc[k] \in Range(loc) /\ P[loc[k]] = c[k]
    BY <1>7, <2>1, <2>3, <2>4 DEF Range
  <2>6. Through(P, loc) = c
    <3>1. /\ IsSeq(Through(P, loc)) /\ Len(Through(P, loc)) = Len(c)
          /\ \A k \in 1..Len(c) : Through(P, loc)[k] = P[loc[k]]
      BY <2>1, ThroughFacts
    <3> HIDE DEF c
    <3> QED BY <2>2, <2>5, <3>1, SameSeq
  <2>7. \A at \in Range(loc) : P[at] \in U <=> at \in S
    <3>1. ASSUME NEW at \in Range(loc) PROVE P[at] \in U <=> at \in S
      <4>1. P[at] = PartAt(h, at) /\ at \in Range(places)
        BY <1>7, <2>1
      <4>2. P[at] \in Range(c)
        <5>1. PICK k \in 1..Len(c) : at = loc[k]
          BY <2>4 DEF Range
        <5> QED BY <2>2, <2>5, <5>1 DEF Range
      <4> HIDE DEF c
      <4> QED BY <1>6, <4>1, <4>2
    <3> QED BY <3>1
  <2>8. Forwarded(target, c) = Only(c, U)
    BY DEF Forwarded
  <2>9. Only(c, U) = Through(P, Only(loc, S))
    <3> HIDE DEF c, U
    <3>1. Only(Through(P, loc), U) = Through(P, Only(loc, S))
      BY <2>1, <2>7, OnlyThrough
    <3> QED BY <2>6, <3>1
  <2>10. IsSeq(Only(loc, S)) /\ Range(Only(loc, S)) \subseteq Range(loc)
    BY <2>1, OnlyFacts
  <2>11. \A at \in Range(Only(loc, S)) : G[at] = Can[P[at]]
    <3>1. ASSUME NEW at \in Range(loc) PROVE G[at] = Can[P[at]]
      <4>1. at \in Range(places) /\ P[at] \in Range(c)
        <5>1. PICK k \in 1..Len(c) : at = loc[k]
          BY <2>4 DEF Range
        <5> QED BY <2>1, <2>2, <2>5, <5>1 DEF Range
      <4>2. Can[P[at]] = Canonical(P[at])
        BY <4>1
      <4> QED BY <1>7, <4>1, <4>2
    <3> QED BY <2>10, <3>1
  <2>12. Through(Can, Through(P, Only(loc, S))) = Through(G, Only(loc, S))
    BY <2>10, <2>11, ThroughTwice
  <2> QED BY <2>1, <2>8, <2>9, <2>12 DEF c
<1>13. through = said
  <2>1. DOMAIN locs = DOMAIN h /\ DOMAIN chosen = DOMAIN h /\ DOMAIN through = DOMAIN h
    OBVIOUS
  <2>2. \A i \in DOMAIN h : through[i] = said[i]
    BY <1>12
  <2> QED BY <1>12
<1> HIDE DEF through, said, kept, places, locs, chosen
<1>14. /\ IsSeqs(said) /\ Len(said) = Len(h)
       /\ [k \in DOMAIN kept |-> Canonical(PartAt(h, kept[k]))] = FlattenSeq(said)
  BY <1>9, <1>11, <1>13
<1> QED BY <1>14 DEF said, kept, places, S, KeptParts, ForwardedParts

\* Every check of the projection.
LEMMA ProjectionAccepted ==
  ASSUME NEW target, NEW h, IsSeq(h), \A i \in DOMAIN h : Formed(h[i]),
         ProjectionVerdict(target, h) = "Ok"
  PROVE  \A i \in DOMAIN h : MessageVerdict(target, h[i]) = "Ok"
<1> DEFINE verdicts == [i \in DOMAIN h |-> MessageVerdict(target, h[i])]
           all == <<IF \A i \in DOMAIN h : Forwarded(target, h[i].content) = <<>>
                    THEN "InvalidRequest" ELSE "Ok">>
<1>1. verdicts \in Seq(Refusals)
  BY ProjectionTyped
<1>2. all \in Seq(Refusals)
  <2>1. (IF \A i \in DOMAIN h : Forwarded(target, h[i].content) = <<>>
         THEN "InvalidRequest" ELSE "Ok") \in Refusals
    BY DEF Refusals, BridgeErrors
  <2> HIDE DEF Refusals
  <2> QED BY <2>1
<1>3. FirstError(verdicts \o all) = "Ok"
  BY DEF ProjectionVerdict
<1>4. \A i \in DOMAIN verdicts : verdicts[i] = "Ok"
  <2> HIDE DEF verdicts, all, Refusals
  <2>1. verdicts \o all \in Seq(Refusals)
    BY <1>1, <1>2
  <2>2. Passed(verdicts \o all)
    BY <1>3, <2>1, FirstErrorFacts
  <2>3. Passed(verdicts)
    BY <1>1, <1>2, <2>2, ChainFacts
  <2> QED BY <2>3 DEF Passed
<1> QED BY <1>4

\* What a projection puts on the wire, message by message.
LEMMA ProjectionIs ==
  ASSUME NEW target, NEW h, IsSeq(h), \A i \in DOMAIN h : Formed(h[i]),
         ProjectionVerdict(target, h) = "Ok",
         \A i \in DOMAIN h : h[i].role = "Assistant" => MetadataOnce(target, h[i]),
         NEW Can, \A i \in DOMAIN h : \A part \in Range(h[i].content) : Can[part] = Canonical(part)
  PROVE  LET seqs == [i \in DOMAIN h |-> MessageToRig(target, h[i])]
         IN  /\ IsSeqs(seqs) /\ Len(seqs) = Len(h)
             /\ \A i \in 1..Len(h) : \A message \in Range(seqs[i]) : IsWire(message)
             /\ \A i \in 1..Len(h) :
                  Back(PartsOf(seqs[i])) = Through(Can, Forwarded(target, h[i].content))
<1> DEFINE seqs == [i \in DOMAIN h |-> MessageToRig(target, h[i])]
<1>1. Len(h) \in Nat /\ DOMAIN h = 1..Len(h)
  BY SeqIs
<1>2. ASSUME NEW i \in DOMAIN h
      PROVE  /\ IsSeq(MessageToRig(target, h[i]))
             /\ \A message \in Range(MessageToRig(target, h[i])) : IsWire(message)
             /\ Back(PartsOf(MessageToRig(target, h[i])))
                  = Through(Can, Forwarded(target, h[i].content))
  <2> DEFINE m == h[i]
  <2>1. /\ Formed(m) /\ MessageVerdict(target, m) = "Ok"
        /\ m.role = "Assistant" => MetadataOnce(target, m)
        /\ \A part \in Range(m.content) : Can[part] = Canonical(part)
    BY ProjectionAccepted
  <2> HIDE DEF m
  <2>2. /\ IsSeq(MessageToRig(target, m))
        /\ \A message \in Range(MessageToRig(target, m)) : IsWire(message)
        /\ Back(PartsOf(MessageToRig(target, m))) = Through(Can, Forwarded(target, m.content))
    BY <2>1, MessageBack
  <2> QED BY <2>2 DEF m
<1>3. seqs = [i \in 1..Len(h) |-> seqs[i]] /\ \A i \in 1..Len(h) : seqs[i] = MessageToRig(target, h[i])
  BY <1>1
<1> HIDE DEF seqs
<1>4. IsSeq(seqs) /\ Len(seqs) = Len(h)
  BY <1>1, <1>3, FunctionIsSeq
<1>5. IsSeqs(seqs)
  BY <1>1, <1>2, <1>3, <1>4 DEF IsSeqs
<1>6. \A i \in 1..Len(h) :
        /\ \A message \in Range(seqs[i]) : IsWire(message)
        /\ Back(PartsOf(seqs[i])) = Through(Can, Forwarded(target, h[i].content))
  BY <1>1, <1>2, <1>3
<1> QED BY <1>4, <1>5, <1>6 DEF seqs

LEMMA ProjectionBack ==
  ASSUME NEW target, NEW h, IsSeq(h), \A i \in DOMAIN h : Formed(h[i]),
         ProjectionVerdict(target, h) = "Ok",
         \A i \in DOMAIN h : h[i].role = "Assistant" => MetadataOnce(target, h[i])
  PROVE  Back(PartsOf(MessagesToRig(target, h))) = KeptParts(target, h)
<1> DEFINE parts == UNION {Range(h[i].content) : i \in DOMAIN h}
           Can == [part \in parts |-> Canonical(part)]
           seqs == [i \in DOMAIN h |-> MessageToRig(target, h[i])]
           M == FlattenSeq(seqs)
           said == [i \in DOMAIN h |-> Through(Can, Forwarded(target, h[i].content))]
           back == [i \in DOMAIN seqs |-> Back(PartsOf(seqs[i]))]
<1>1. \A i \in DOMAIN h : \A part \in Range(h[i].content) : Can[part] = Canonical(part)
  OBVIOUS
<1> HIDE DEF parts, Can
<1>2. /\ IsSeqs(seqs) /\ Len(seqs) = Len(h)
      /\ \A i \in 1..Len(h) : \A message \in Range(seqs[i]) : IsWire(message)
      /\ \A i \in 1..Len(h) :
           Back(PartsOf(seqs[i])) = Through(Can, Forwarded(target, h[i].content))
  BY <1>1, ProjectionIs
<1>3. KeptParts(target, h) = FlattenSeq(ForwardedParts(Can, target, h))
  BY <1>1, KeptIs
<1>10. said = ForwardedParts(Can, target, h)
  BY DEF ForwardedParts
<1>4. MessagesToRig(target, h) = PairResults(M)
  BY DEF MessagesToRig
<1>5. DOMAIN h = 1..Len(h) /\ DOMAIN seqs = DOMAIN h
  BY SeqIs
<1>6. back = said
  BY <1>2, <1>5
<1> HIDE DEF seqs, back, said
<1>7. /\ IsSeq(M) /\ \A message \in Range(M) : IsWire(message)
  <2>1. IsSeq(M) /\ Range(M) = UNION {Range(seqs[i]) : i \in 1..Len(seqs)}
    BY <1>2, FlattenFacts
  <2> QED BY <1>2, <2>1
<1>8. Back(PartsOf(M)) = FlattenSeq(back)
  BY <1>2, BackFlat DEF back
<1>9. Back(PartsOf(PairResults(M))) = Back(PartsOf(M))
  <2> HIDE DEF M
  <2> QED BY <1>7, PairedBack
<1> QED BY <1>3, <1>4, <1>6, <1>8, <1>9, <1>10

\* How the history grows: by what is said, answered, or results of calls.
Grows ==
  /\ session' = session
  /\ \/ history' = history
     \/ \E message \in Here.messages : history' = Append(history, message) /\ Unanswered = {}
     \/ /\ call # Nil /\ Unanswered = {}
        /\ \E raw \in Here.answers :
             history' = Append(history, Message("Assistant",
                                          ResponseContent(call.bridge.provider, raw)))
     \/ \E at \in Unanswered : \E value, isError : history' = Append(history, Result(at, value, isError))

LEMMA HistoryGrows ==
  ASSUME FlowInv, [Next]_vars
  PROVE  Grows
<1>1. ASSUME NEW config, Build(config) PROVE Grows
  BY <1>1 DEF Build, Grows
<1>2. ASSUME NEW message \in Here.messages, Say(message) PROVE Grows
  BY <1>2 DEF Say, HostFree, Grows
<1>3. ASSUME NEW config, NEW asked, Send(config, asked) PROVE Grows
  BY <1>3 DEF Send, Grows
<1>4. ASSUME NEW raw \in Here.answers, Respond(raw) PROVE Grows
  <2> DEFINE message == Message("Assistant", ResponseContent(call.bridge.provider, raw))
  <2>1. /\ session' = session /\ call # Nil
        /\ history' = history \/ history' = Append(history, message)
    BY <1>4 DEF Respond
  <2>2. Unanswered = {}
    BY <2>1 DEF FlowInv
  <2> QED BY <2>1, <2>2 DEF Grows
<1>5. ASSUME NEW error, Fail(error) PROVE Grows
  BY <1>5 DEF Fail, Grows
<1>6. CASE Cancel
  BY <1>6 DEF Cancel, Grows
<1>7. ASSUME NEW at, StartTool(at) PROVE Grows
  BY <1>7 DEF StartTool, Grows
<1>8. ASSUME NEW at \in Unanswered, NEW isError, UnknownTool(at, isError)
      PROVE  Grows
  BY <1>8 DEF UnknownTool, Grows
<1>9. ASSUME NEW execution \in running, FinishTool(execution) PROVE Grows
  <2>1. execution.at \in Unanswered
    BY DEF FlowInv, Executing
  <2> QED BY <1>9, <2>1 DEF FinishTool, Grows
<1>10. ASSUME NEW execution \in running, NEW error, NEW isError,
              FailTool(execution, error, isError)
       PROVE  Grows
  <2>1. execution.at \in Unanswered
    BY DEF FlowInv, Executing
  <2> QED BY <1>10, <2>1 DEF FailTool, Grows
<1>11. ASSUME NEW tool, RegisterTool(tool) \/ RefuseTool(tool) PROVE Grows
  BY <1>11 DEF RegisterTool, RefuseTool, Grows
<1>12. ASSUME NEW name, UnregisterTool(name) PROVE Grows
  BY <1>12 DEF UnregisterTool, Grows
<1>13. CASE UNCHANGED vars
  BY <1>13 DEF vars, Grows
<1> QED BY <1>1, <1>2, <1>3, <1>4, <1>5, <1>6, <1>7, <1>8, <1>9, <1>10, <1>11, <1>12, <1>13 DEF Next

\* What was not said has its metadata at its calls, and the report of a call is
\* about its conversation.
SourceInv ==
  /\ \A i \in DOMAIN history :
       history[i].role = "Assistant" =>
         history[i] \in Here.messages \/ Attached(history[i].content)
  /\ call # Nil => call.report = Facts(call.bridge.provider, call.request.messages)

LEMMA SourceInit == Init => SourceInv
<1> SUFFICES ASSUME Init PROVE SourceInv
  OBVIOUS
<1>1. DOMAIN history = {}
  BY EmptyIsSeq, SeqIs DEF Init
<1> QED BY <1>1 DEF Init, SourceInv

\* A call in flight stays as it is, ends, or has just been sent.
Stays ==
  \/ call' = call \/ call' = Nil
  \/ \E config \in bridges, asked \in Here.requests :
       call' = [bridge |-> config, request |-> RequestOf(asked),
                wire |-> Wire(config, RequestOf(asked)),
                report |-> Facts(config.provider, history)]

LEMMA CallStays ==
  ASSUME [Next]_vars
  PROVE  Stays
<1>1. ASSUME NEW config \in bridges, NEW asked \in Here.requests, Send(config, asked) PROVE Stays
  <2>1. CASE answer' = "Ok"
    BY <1>1, <2>1 DEF Send, Stays
  <2>2. CASE answer' # "Ok"
    BY <1>1, <2>2 DEF Send, Stays
  <2> QED BY <2>1, <2>2
<1>2. ASSUME NEW config, Build(config) PROVE Stays
  BY <1>2 DEF Build, Stays
<1>3. ASSUME NEW message, Say(message) PROVE Stays
  BY <1>3 DEF Say, Stays
<1>4. ASSUME NEW raw, Respond(raw) PROVE Stays
  BY <1>4 DEF Respond, Stays
<1>5. ASSUME NEW error, Fail(error) PROVE Stays
  BY <1>5 DEF Fail, Stays
<1>6. CASE Cancel
  BY <1>6 DEF Cancel, Stays
<1>7. ASSUME NEW at, StartTool(at) PROVE Stays
  BY <1>7 DEF StartTool, Stays
<1>8. ASSUME NEW at, NEW isError, UnknownTool(at, isError) PROVE Stays
  BY <1>8 DEF UnknownTool, Stays
<1>9. ASSUME NEW execution, FinishTool(execution) PROVE Stays
  BY <1>9 DEF FinishTool, Stays
<1>10. ASSUME NEW execution, NEW error, NEW isError, FailTool(execution, error, isError)
       PROVE  Stays
  BY <1>10 DEF FailTool, Stays
<1>11. ASSUME NEW tool, RegisterTool(tool) \/ RefuseTool(tool) PROVE Stays
  BY <1>11 DEF RegisterTool, RefuseTool, Stays
<1>12. ASSUME NEW name, UnregisterTool(name) PROVE Stays
  BY <1>12 DEF UnregisterTool, Stays
<1>13. CASE UNCHANGED vars
  BY <1>13 DEF vars, Stays
<1> QED BY <1>1, <1>2, <1>3, <1>4, <1>5, <1>6, <1>7, <1>8, <1>9, <1>10, <1>11, <1>12, <1>13 DEF Next

LEMMA SourceStep == FlowInv /\ SourceInv /\ [Next]_vars => SourceInv'
<1> SUFFICES ASSUME FlowInv, SourceInv, [Next]_vars PROVE SourceInv'
  OBVIOUS
<1>1. session' = session /\ Here' = Here
  BY HistoryGrows DEF Here, Grows
<1> DEFINE Sourced(message) ==
             message.role = "Assistant" => message \in Here.messages \/ Attached(message.content)
<1>2. \A i \in DOMAIN history : Sourced(history[i])
  BY DEF SourceInv
<1>3. ASSUME NEW message, Sourced(message), history' = Append(history, message)
      PROVE  \A i \in DOMAIN history' : Sourced(history'[i])
  <2> HIDE DEF Sourced
  <2>1. IsSeq(history)
    BY DEF FlowInv, HistoryInv
  <2>2. /\ IsSeq(history') /\ Len(history') = Len(history) + 1 /\ Len(history) \in Nat
        /\ \A i \in 1..Len(history) : history'[i] = history[i]
        /\ history'[Len(history) + 1] = message
    <3>1. Len(history) \in Nat
      BY <2>1, SeqIs
    <3> DEFINE more == Append(history, message)
    <3>2. more = Joined(history, <<message>>)
      BY <2>1, AppendFacts
    <3>3. history' = more
      BY <1>3
    <3> HIDE DEF more
    <3>4. /\ IsSeq(more) /\ Len(more) = Len(history) + 1
          /\ \A i \in 1..Len(history) : more[i] = history[i]
          /\ more[Len(history) + 1] = message
      BY <2>1, <3>2, LongerFacts
    <3> QED BY <3>1, <3>3, <3>4
  <2>3. DOMAIN history' = 1..Len(history) + 1 /\ DOMAIN history = 1..Len(history)
    BY <2>1, <2>2, SeqIs
  <2>4. \A i \in 1..Len(history) + 1 : i \in 1..Len(history) \/ i = Len(history) + 1
    BY <2>2
  <2> QED BY <1>2, <1>3, <2>2, <2>3, <2>4
<1>4. \A i \in DOMAIN history' : Sourced(history'[i])
  <2>1. CASE history' = history
    BY <1>2, <2>1
  <2>2. ASSUME NEW message \in Here.messages, history' = Append(history, message)
        PROVE  \A i \in DOMAIN history' : Sourced(history'[i])
    BY <1>3, <2>2
  <2>3. ASSUME NEW raw \in Here.answers, NEW provider,
               history' = Append(history, Message("Assistant", ResponseContent(provider, raw)))
        PROVE  \A i \in DOMAIN history' : Sourced(history'[i])
    <3> DEFINE message == Message("Assistant", ResponseContent(provider, raw))
    <3>1. Attached(message.content)
      <4>1. message.content = ResponseContent(provider, raw)
        BY DEF Message
      <4> QED BY <4>1, RespondedIsFormed DEF FlowInv, HistoryInv
    <3> HIDE DEF message
    <3>2. Sourced(message)
      BY <3>1
    <3>3. history' = Append(history, message)
      BY <2>3 DEF message
    <3> QED BY <1>3, <3>2, <3>3
  <2>4. ASSUME NEW at, NEW value, NEW isError,
               history' = Append(history, Result(at, value, isError))
        PROVE  \A i \in DOMAIN history' : Sourced(history'[i])
    <3> DEFINE message == Result(at, value, isError)
    <3>1. message.role = "Tool"
      BY DEF Result, Message
    <3> HIDE DEF message
    <3>2. Sourced(message)
      BY <3>1
    <3> QED BY <1>3, <2>4, <3>2 DEF message
  <2> HIDE DEF Sourced
  <2> QED BY <2>1, <2>2, <2>3, <2>4, HistoryGrows DEF Grows
<1>5. call' # Nil => call'.report = Facts(call'.bridge.provider, call'.request.messages)
  <2>1. ASSUME NEW config, NEW asked,
               call' = [bridge |-> config, request |-> RequestOf(asked),
                        wire |-> Wire(config, RequestOf(asked)),
                        report |-> Facts(config.provider, history)]
        PROVE  call'.report = Facts(call'.bridge.provider, call'.request.messages)
    <3>1. RequestOf(asked).messages = history
      BY DEF RequestOf
    <3>2. /\ call'.request = RequestOf(asked) /\ call'.bridge = config
          /\ call'.report = Facts(config.provider, history)
      BY <2>1
    <3> QED BY <3>1, <3>2
  <2> QED BY <2>1, CallStays DEF SourceInv, Stays
<1> QED BY <1>1, <1>4, <1>5 DEF SourceInv

LEMMA AcceptedProjection ==
  ASSUME NEW config, NEW request, BridgeVerdict(config, request) = "Ok",
         IsSeq(request.messages), \A i \in DOMAIN request.messages : Formed(request.messages[i])
  PROVE  /\ ProjectionVerdict(config.provider, request.messages) = "Ok"
         /\ Wire(config, request).messages = MessagesToRig(config.provider, request.messages)
<1> DEFINE o == Merge(config.defaults, request.options)
           provider == config.provider
           caps == CapabilitiesOf(provider, config.model)
           seen == View(request, o)
           c1 == PrepareVerdict(seen)
           c2 == RequestVerdict(caps, seen)
           c3 == ControlsVerdict(provider, config.model, o, request.choice)
           c4 == MapVerdict(provider, request, o)
           m1 == CASE provider = "anthropic" -> Requires(AnthropicMessages(request.messages))
                   [] provider = "ollama" -> Requires(OllamaMessages(request.messages))
                   [] OTHER -> "Ok"
           m2 == ProjectionVerdict(provider, request.messages)
           m3 == StructuredVerdict(request.format)
           m4 == Requires(request.extensions = {})
           m5 == CASE provider = "anthropic" -> AnthropicOptionsVerdict(o)
                   [] provider = "ollama" -> OllamaChoiceVerdict(request.choice)
                   [] OTHER -> "Ok"
           m6 == FormatVerdict(provider, PlainFormat(request.format))
<1>1. FirstError(<<c1, c2, c3, c4>>) = "Ok"
  BY DEF BridgeVerdict
<1>2. c4 = FirstError(<<m1, m2, m3, m4, m5, m6>>)
  BY DEF MapVerdict
<1>3. Wire(config, request).messages = MessagesToRig(provider, request.messages)
  <2> DEFINE mapped == Mapped(provider, request, o)
             controls == Controls(provider, o)
  <2>1. mapped.messages = MessagesToRig(provider, request.messages)
    BY DEF Mapped
  <2>2. Wire(config, request) = Apply(mapped, controls)
    BY DEF Wire
  <2>3. mapped = [messages |-> mapped.messages, tools |-> mapped.tools, choice |-> mapped.choice,
                  temperature |-> mapped.temperature, max |-> mapped.max,
                  schema |-> mapped.schema, params |-> mapped.params]
    BY DEF Mapped
  <2> HIDE DEF mapped, controls
  <2>4. Apply(mapped, controls).messages = mapped.messages
    BY <2>3 DEF Apply
  <2> QED BY <2>1, <2>2, <2>4
<1> HIDE DEF c1, c2, c3, c4, m1, m2, m3, m4, m5, m6
<1>4. c4 = "Ok"
  <2> DEFINE vs == <<c1, c2, c3, c4>>
             V == {c1, c2, c3, c4}
  <2>1. vs \in Seq(V) /\ DOMAIN vs = 1..4 /\ vs[4] = c4
    OBVIOUS
  <2>2. FirstError(vs) = "Ok"
    BY <1>1
  <2> HIDE DEF vs, V
  <2> QED BY <2>1, <2>2, EveryCheckPasses
<1>5. m2 = "Ok"
  <2> DEFINE vs == <<m1, m2, m3, m4, m5, m6>>
             V == {m1, m2, m3, m4, m5, m6}
  <2>1. vs \in Seq(V) /\ DOMAIN vs = 1..6 /\ vs[2] = m2
    OBVIOUS
  <2>2. FirstError(vs) = "Ok"
    BY <1>2, <1>4
  <2> HIDE DEF vs, V
  <2> QED BY <2>1, <2>2, EveryCheckPasses
<1> QED BY <1>3, <1>5 DEF m2

\* Everything said so far was accepted, each part of its metadata once.
Accepted(target) ==
  /\ IsSeq(history) /\ \A i \in DOMAIN history : Formed(history[i])
  /\ ProjectionVerdict(target, history) = "Ok"
  /\ \A i \in DOMAIN history : history[i].role = "Assistant" => MetadataOnce(target, history[i])

LEMMA AcceptedCall ==
  ASSUME FlowInv, WireInv, SourceInv, call # Nil, SaidOnce(call.bridge.provider)
  PROVE  /\ Accepted(call.bridge.provider)
         /\ call.wire.messages = MessagesToRig(call.bridge.provider, history)
<1> DEFINE target == call.bridge.provider
<1>1. call.request.messages = history
  BY DEF FlowInv
<1>2. IsSeq(history) /\ \A i \in DOMAIN history : Formed(history[i])
  BY DEF FlowInv, HistoryInv
<1>3. /\ BridgeVerdict(call.bridge, call.request) = "Ok"
      /\ call.wire = Wire(call.bridge, call.request)
  BY <1>1 DEF WireInv
<1>4. /\ ProjectionVerdict(target, history) = "Ok"
      /\ call.wire.messages = MessagesToRig(target, history)
  <2> DEFINE config == call.bridge
             request == call.request
  <2>1. /\ BridgeVerdict(config, request) = "Ok" /\ request.messages = history
        /\ call.wire = Wire(config, request) /\ target = config.provider
    BY <1>1, <1>3
  <2> HIDE DEF config, request, target
  <2>2. /\ ProjectionVerdict(config.provider, request.messages) = "Ok"
        /\ Wire(config, request).messages = MessagesToRig(config.provider, request.messages)
    BY <1>2, <2>1, AcceptedProjection
  <2> QED BY <2>1, <2>2
<1>5. ASSUME NEW i \in DOMAIN history, history[i].role = "Assistant"
      PROVE  MetadataOnce(target, history[i])
  <2> DEFINE message == history[i]
  <2>1. Formed(message) /\ message.role = "Assistant"
        /\ (message \in Here.messages \/ Attached(message.content))
    BY <1>2, <1>5 DEF SourceInv
  <2> HIDE DEF message
  <2>2. MetadataOnce(target, message)
    BY <2>1, AttachedOnce DEF SaidOnce
  <2> QED BY <2>2 DEF message
<1> QED BY <1>2, <1>4, <1>5 DEF Accepted

LEMMA NothingDropped ==
  ASSUME FlowInv, WireInv, SourceInv
  PROVE  ReportComplete
<1> SUFFICES ASSUME call # Nil, SaidOnce(call.bridge.provider)
             PROVE  LET places == Locations(history)
                        kept == Only(places, Range(places) \ Range(call.report))
                        sent == PartsOf(call.wire.messages)
                    IN  FlattenSeq([k \in DOMAIN sent |-> Recovered(sent[k])])
                          = [k \in DOMAIN kept |-> Canonical(PartAt(history, kept[k]))]
  BY DEF ReportComplete
<1> DEFINE target == call.bridge.provider
           sent == PartsOf(call.wire.messages)
<1>1. call.report = Facts(target, history)
  BY DEF FlowInv, SourceInv
<1>2. Accepted(target) /\ call.wire.messages = MessagesToRig(target, history)
  BY AcceptedCall
<1>3. FlattenSeq([k \in DOMAIN sent |-> Recovered(sent[k])])
        = Back(PartsOf(MessagesToRig(target, history)))
  BY <1>2 DEF Back
<1> HIDE DEF target
<1>4. Back(PartsOf(MessagesToRig(target, history))) = KeptParts(target, history)
  BY <1>2, ProjectionBack DEF Accepted
<1> QED BY <1>1, <1>3, <1>4 DEF target, KeptParts

\* Nothing of a conversation is dropped in silence: translated back, what a call
\* sends is the history, in its order, without what the report names, whoever
\* answered before, whatever was said, and in whichever order tools answered.
THEOREM ReportsAreComplete == Spec => []ReportComplete
<1>1. Init => FlowInv /\ WireInv /\ SourceInv
  BY FlowInit, WireInit, SourceInit
<1>2. FlowInv /\ WireInv /\ SourceInv /\ [Next]_vars => (FlowInv /\ WireInv /\ SourceInv)'
  BY FlowStep, WireStep, SourceStep
<1>3. FlowInv /\ WireInv /\ SourceInv => ReportComplete
  BY NothingDropped
<1> QED BY <1>1, <1>2, <1>3, PTL DEF Spec

\* Where what is selected was.
LEMMA OnlyPieces ==
  ASSUME NEW s, NEW S, IsSeq(s)
  PROVE  \E sel : /\ IsSeqs(sel) /\ Len(sel) = Len(s) /\ Only(s, S) = FlattenSeq(sel)
                  /\ DOMAIN sel = 1..Len(s)
                  /\ \A k \in 1..Len(s) : sel[k] = IF s[k] \in S THEN <<s[k]>> ELSE <<>>
<1> DEFINE sel == [k \in DOMAIN s |-> IF s[k] \in S THEN <<s[k]>> ELSE <<>>]
<1>1. Len(s) \in Nat /\ DOMAIN s = 1..Len(s)
  BY SeqIs
<1>2. sel = [k \in 1..Len(s) |-> sel[k]] /\ \A k \in 1..Len(s) : IsSeq(sel[k])
  BY <1>1, EmptyIsSeq, OneIsSeq
<1>3. DOMAIN sel = 1..Len(s) /\ \A k \in 1..Len(s) : sel[k] = IF s[k] \in S THEN <<s[k]>> ELSE <<>>
  BY <1>1
<1>4. Only(s, S) = FlattenSeq(sel)
  BY DEF Only
<1> HIDE DEF sel
<1>5. IsSeq(sel) /\ Len(sel) = Len(s)
  BY <1>1, <1>2, FunctionIsSeq
<1>6. IsSeqs(sel)
  BY <1>2, <1>5 DEF IsSeqs
<1> QED BY <1>3, <1>4, <1>5, <1>6

LEMMA OnlyTwice ==
  ASSUME NEW s, NEW S, NEW U, IsSeq(s)
  PROVE  Only(Only(s, S), U) = Only(s, S \cap U)
<1>1. PICK one : /\ IsSeqs(one) /\ Len(one) = Len(s) /\ Only(s, S) = FlattenSeq(one)
                 /\ DOMAIN one = 1..Len(s)
                 /\ \A k \in 1..Len(s) : one[k] = IF s[k] \in S THEN <<s[k]>> ELSE <<>>
  BY OnlyPieces
<1> DEFINE chosen == [k \in DOMAIN one |-> Only(one[k], U)]
           both == [k \in DOMAIN s |-> IF s[k] \in S \cap U THEN <<s[k]>> ELSE <<>>]
<1>2. Only(FlattenSeq(one), U) = FlattenSeq(chosen)
  BY <1>1, OnlyFlat
<1>3. ASSUME NEW k \in 1..Len(s)
      PROVE  Only(one[k], U) = IF s[k] \in S \cap U THEN <<s[k]>> ELSE <<>>
  <2>1. CASE s[k] \in S
    <3>1. one[k] = <<s[k]>>
      BY <1>1, <2>1
    <3> QED BY <2>1, <3>1, OnlyOne
  <2>2. CASE s[k] \notin S
    <3>1. one[k] = <<>>
      BY <1>1, <2>2
    <3> QED BY <2>2, <3>1, OnlyNone
  <2> QED BY <2>1, <2>2
<1>4. chosen = both
  <2>1. DOMAIN s = 1..Len(s)
    BY SeqIs
  <2> QED BY <1>1, <1>3, <2>1
<1>5. Only(s, S \cap U) = FlattenSeq(both)
  BY DEF Only
<1> HIDE DEF chosen, both
<1> QED BY <1>1, <1>2, <1>4, <1>5

LEMMA NothingOnly ==
  ASSUME NEW s, NEW S, IsSeq(s), Range(s) \cap S = {}
  PROVE  Only(s, S) = <<>>
<1> DEFINE t == Only(s, S)
<1>1. IsSeq(t) /\ Range(t) = {}
  BY OnlyFacts
<1> HIDE DEF t
<1>2. Len(t) \in Nat /\ DOMAIN t = 1..Len(t)
  BY <1>1, SeqIs
<1>3. Len(t) = 0
  <2>1. \A k \in DOMAIN t : t[k] \in Range(t)
    BY DEF Range
  <2>2. 1 \notin 1..Len(t)
    BY <1>1, <1>2, <2>1
  <2> QED BY <1>2, <2>2
<1>4. t = <<>>
  <2>1. \A k \in 1..Len(t) : t[k] = <<>>[k]
    BY <1>3
  <2> QED BY <1>1, <1>3, <2>1, EmptyIsSeq, SameSeq
<1> QED BY <1>4 DEF t

Places(e, t, s) ==
  \A x \in 1..Len(t) : /\ e[x] \in 1..Len(s) /\ t[x] = s[e[x]]
                       /\ \A y \in 1..Len(t) : e[x] = e[y] => x = y

LEMMA OnlyPlaces ==
  ASSUME NEW s, NEW S, IsSeq(s)
  PROVE  \E e : Places(e, Only(s, S), s)
<1> DEFINE n == Len(s)
<1>1. PICK sel : /\ IsSeqs(sel) /\ Len(sel) = n /\ Only(s, S) = FlattenSeq(sel)
                 /\ \A k \in 1..n : sel[k] = IF s[k] \in S THEN <<s[k]>> ELSE <<>>
  BY OnlyPieces
<1>2. PICK f : FlatSteps(f, sel)
  BY <1>1, FlattenIs
<1>3. n \in Nat
  BY SeqIs
<1>4. /\ f[0] = <<>> /\ FlattenSeq(sel) = f[n]
      /\ \A k \in 1..n : f[k] = Joined(f[k - 1], sel[k])
      /\ \A k \in 0..n : IsSeq(f[k])
  BY <1>1, <1>2 DEF FlatSteps
<1> DEFINE Placed(e, k) ==
             \A x \in 1..Len(f[k]) : /\ e[x] \in 1..k /\ f[k][x] = s[e[x]]
                                     /\ \A y \in 1..Len(f[k]) : e[x] = e[y] => x = y
           A == {k \in 0..n : \E e : Placed(e, k)}
<1>5. 0 \in A
  <2>1. \A e : Placed(e, 0)
    BY <1>4, EmptyIsSeq
  <2> QED BY <1>3, <2>1
<1>6. ASSUME NEW k \in 1..n, k - 1 \in A PROVE k \in A
  <2>1. k \in 0..n /\ k - 1 \in 0..n
    BY <1>3
  <2>2. IsSeq(f[k - 1]) /\ f[k] = Joined(f[k - 1], sel[k])
    BY <1>4, <2>1
  <2>3. PICK e : Placed(e, k - 1)
    BY <1>6
  <2>4. CASE s[k] \in S
    <3> DEFINE m == Len(f[k - 1])
               d == [x \in 1..m + 1 |-> IF x = m + 1 THEN k ELSE e[x]]
    <3>1. sel[k] = <<s[k]>>
      BY <1>1, <2>4
    <3>2. /\ Len(f[k]) = m + 1 /\ f[k][m + 1] = s[k] /\ m \in Nat
          /\ \A x \in 1..m : f[k][x] = f[k - 1][x]
      BY <2>2, <3>1, LongerFacts, SeqIs
    <3>3. \A x \in 1..m : /\ e[x] \in 1..k - 1 /\ f[k - 1][x] = s[e[x]]
                          /\ \A y \in 1..m : e[x] = e[y] => x = y
      BY <2>3
    <3> HIDE DEF m
    <3>4. \A x \in 1..m + 1 : x = m + 1 \/ x \in 1..m
      BY <3>2
    <3>5. Placed(d, k)
      <4> SUFFICES ASSUME NEW x \in 1..m + 1
                   PROVE  /\ d[x] \in 1..k /\ f[k][x] = s[d[x]]
                          /\ \A y \in 1..m + 1 : d[x] = d[y] => x = y
        BY <3>2
      <4>1. CASE x = m + 1
        <5>1. d[x] = k
          BY <4>1
        <5>2. ASSUME NEW y \in 1..m + 1, y # m + 1 PROVE d[y] # k
          <6>1. y \in 1..m /\ d[y] = e[y]
            BY <3>4, <5>2
          <6> QED BY <3>3, <6>1
        <5> QED BY <3>2, <4>1, <5>1, <5>2
      <4>2. CASE x # m + 1
        <5>1. x \in 1..m /\ d[x] = e[x]
          BY <3>4, <4>2
        <5>2. e[x] \in 1..k - 1 /\ f[k][x] = s[e[x]]
          BY <3>2, <3>3, <5>1
        <5>3. e[x] \in 1..k /\ e[x] # k
          BY <5>2
        <5>4. ASSUME NEW y \in 1..m + 1, d[x] = d[y] PROVE x = y
          <6>1. y # m + 1
            BY <5>1, <5>3, <5>4
          <6>2. y \in 1..m /\ d[y] = e[y]
            BY <3>4, <6>1
          <6> QED BY <3>3, <5>1, <5>4, <6>2
        <5> QED BY <5>1, <5>2, <5>3, <5>4
      <4> QED BY <4>1, <4>2
    <3> HIDE DEF d, Placed
    <3> QED BY <2>1, <3>5
  <2>5. CASE s[k] \notin S
    <3>1. sel[k] = <<>>
      BY <1>1, <2>5
    <3>2. f[k] = f[k - 1]
      BY <2>2, <3>1, ConcatEmpty
    <3>3. Placed(e, k)
      <4>1. \A x : x \in 1..k - 1 => x \in 1..k
        OBVIOUS
      <4> QED BY <2>3, <3>2, <4>1
    <3> HIDE DEF Placed
    <3> QED BY <2>1, <3>3
  <2> QED BY <2>4, <2>5
<1>7. n \in A
  <2>1. n \in 0..n
    BY <1>3
  <2> HIDE DEF A, n
  <2> QED BY <1>3, <1>5, <1>6, <2>1, CountUp
<1>8. PICK e : Placed(e, n)
  BY <1>7
<1>9. Only(s, S) = f[n]
  BY <1>1, <1>4
<1>10. Places(e, Only(s, S), s)
  BY <1>8, <1>9 DEF Places
<1> QED BY <1>10

\* Every element of a flattening is in one of what it flattens, with all that
\* went before in front of it.
Lands(f, seqs, all) ==
  \A j \in 1..Len(all) : \E i \in 1..Len(seqs) : \E y \in 1..Len(seqs[i]) :
    /\ j = Len(f[i - 1]) + y /\ all[j] = seqs[i][y]
    /\ SubSeq(all, 1, Len(f[i - 1])) = f[i - 1]

LEMMA FlattenPlaces ==
  ASSUME NEW seqs, IsSeqs(seqs), NEW f, FlatSteps(f, seqs)
  PROVE  Lands(f, seqs, FlattenSeq(seqs))
<1> DEFINE n == Len(seqs)
           all == FlattenSeq(seqs)
<1>1. n \in Nat
  BY SeqIs DEF IsSeqs
<1>2. /\ f[0] = <<>> /\ all = f[n]
      /\ \A k \in 1..n : f[k] = Joined(f[k - 1], seqs[k]) /\ IsSeq(seqs[k])
      /\ \A k \in 0..n : IsSeq(f[k])
  BY DEF FlatSteps, IsSeqs
<1> DEFINE Starts(i, k) == Len(f[i]) <= Len(f[k]) /\ \A x \in 1..Len(f[i]) : f[k][x] = f[i][x]
           At(j, k) == \E i \in 1..k : \E y \in 1..Len(seqs[i]) :
                         j = Len(f[i - 1]) + y /\ f[k][j] = seqs[i][y]
           A == {k \in 0..n : /\ \A i \in 0..k : Starts(i, k)
                              /\ \A j \in 1..Len(f[k]) : At(j, k)}
<1>3. 0 \in A
  <2>1. \A i \in 0..0 : i = 0
    OBVIOUS
  <2> QED BY <1>1, <1>2, <2>1, EmptyIsSeq
<1>4. ASSUME NEW k \in 1..n, k - 1 \in A PROVE k \in A
  <2> DEFINE m == Len(f[k - 1])
             s == seqs[k]
  <2>1. k \in 0..n /\ k - 1 \in 0..n /\ k \in 1..k
    BY <1>1
  <2>2. /\ IsSeq(s) /\ IsSeq(f[k - 1]) /\ f[k] = Joined(f[k - 1], s)
    BY <1>2, <2>1
  <2>3. /\ Len(f[k]) = m + Len(s) /\ m \in Nat /\ Len(s) \in Nat
        /\ \A x \in 1..m : f[k][x] = f[k - 1][x]
        /\ \A x \in 1..Len(s) : f[k][m + x] = s[x]
    <3> DEFINE p == f[k - 1]
    <3>1. IsSeq(p) /\ IsSeq(s) /\ f[k] = Joined(p, s)
      BY <2>2
    <3> HIDE DEF p, s
    <3>2. Len(p) \in Nat /\ Len(s) \in Nat
      BY <3>1, SeqIs
    <3>3. /\ Len(f[k]) = Len(p) + Len(s)
          /\ \A x \in 1..Len(p) : f[k][x] = p[x]
          /\ \A x \in 1..Len(s) : f[k][Len(p) + x] = s[x]
      BY <3>1, ConcatFacts
    <3> QED BY <3>2, <3>3 DEF p
  <2>4. /\ \A i \in 0..k - 1 : Starts(i, k - 1)
        /\ \A j \in 1..m : At(j, k - 1)
    BY <1>4
  <2>5. ASSUME NEW i \in 0..k PROVE Starts(i, k)
    <3>1. CASE i = k
      <4>1. Len(f[k]) \in Nat
        <5> HIDE DEF m, s
        <5> QED BY <2>3
      <4> QED BY <3>1, <4>1
    <3>2. CASE i # k
      <4>1. i \in 0..k - 1
        BY <1>1, <3>2
      <4>2. IsSeq(f[i])
        BY <1>1, <1>2, <4>1
      <4>3. Len(f[i]) \in Nat
        BY <4>2, SeqIs
      <4>4. Len(f[i]) <= m /\ \A x \in 1..Len(f[i]) : f[k - 1][x] = f[i][x]
        BY <2>4, <4>1
      <4>5. \A x \in 1..Len(f[i]) : x \in 1..m
        BY <2>3, <4>3, <4>4
      <4> HIDE DEF m, s
      <4> QED BY <2>3, <4>3, <4>4, <4>5
    <3> QED BY <3>1, <3>2
  <2>6. ASSUME NEW j \in 1..Len(f[k]) PROVE At(j, k)
    <3>1. CASE j \in 1..m
      <4>1. PICK i \in 1..k - 1 : \E y \in 1..Len(seqs[i]) :
              j = Len(f[i - 1]) + y /\ f[k - 1][j] = seqs[i][y]
        BY <2>4, <3>1
      <4>2. i \in 1..k /\ f[k][j] = f[k - 1][j]
        BY <2>3, <3>1, <4>1
      <4> QED BY <4>1, <4>2
    <3>2. CASE j \notin 1..m
      <4> DEFINE y == j - m
      <4>1. y \in 1..Len(s) /\ j = m + y
        <5> HIDE DEF m, s
        <5>1. j \in 1..m + Len(s)
          BY <2>3
        <5> QED BY <2>3, <3>2, <5>1
      <4> HIDE DEF y
      <4>2. f[k][j] = s[y]
        BY <2>3, <4>1
      <4> QED BY <2>1, <4>1, <4>2
    <3> QED BY <3>1, <3>2
  <2> HIDE DEF Starts, At
  <2> QED BY <2>1, <2>5, <2>6
<1>5. n \in A
  <2>1. n \in 0..n
    BY <1>1
  <2> HIDE DEF A, n
  <2> QED BY <1>1, <1>3, <1>4, <2>1, CountUp
<1>6. ASSUME NEW j \in 1..Len(all)
      PROVE  \E i \in 1..n : \E y \in 1..Len(seqs[i]) :
               /\ j = Len(f[i - 1]) + y /\ all[j] = seqs[i][y]
               /\ SubSeq(all, 1, Len(f[i - 1])) = f[i - 1]
  <2>1. PICK i \in 1..n : \E y \in 1..Len(seqs[i]) :
          j = Len(f[i - 1]) + y /\ all[j] = seqs[i][y]
    <3>1. \A x \in 1..Len(f[n]) : At(x, n)
      BY <1>5
    <3>2. all = f[n]
      BY <1>2
    <3>3. At(j, n)
      BY <1>6, <3>1, <3>2
    <3> HIDE DEF all, n
    <3> QED BY <3>2, <3>3
  <2>2. i - 1 \in 0..n
    BY <1>1
  <2>3. Starts(i - 1, n) /\ IsSeq(f[i - 1]) /\ IsSeq(all)
    BY <1>1, <1>2, <1>5, <2>2
  <2> DEFINE p == f[i - 1]
             m == Len(p)
             T == Range(all)
  <2>4. m \in Nat /\ Len(all) \in Nat /\ m <= Len(all) /\ \A x \in 1..m : all[x] = p[x]
    BY <1>2, <2>3, SeqIs
  <2>5. all \in Seq(T) /\ m \in 0..Len(all) /\ IsSeq(p) /\ m = Len(p)
    BY <2>3, <2>4 DEF IsSeq
  <2> HIDE DEF T, m, p, all
  <2>6. /\ SubSeq(all, 1, m) \in Seq(T) /\ Len(SubSeq(all, 1, m)) = m
        /\ \A x \in 1..m : SubSeq(all, 1, m)[x] = all[x]
    BY <2>5, PrefixFacts
  <2>7. IsSeq(SubSeq(all, 1, m))
    BY <2>6, TypedIsSeq
  <2>8. \A x \in 1..m : SubSeq(all, 1, m)[x] = p[x]
    BY <2>4, <2>6
  <2>9. SubSeq(all, 1, m) = p
    BY <2>5, <2>6, <2>7, <2>8, SameSeq
  <2> QED BY <2>1, <2>9 DEF m, p
<1> QED BY <1>6 DEF Lands

IdCalls(S, id) == {x \in S : x.type = "ToolCall" /\ x.call.id = id}

MetaAfter(c, p) == IF p < Len(c) /\ IsMetadata(c[p + 1]) THEN c[p + 1].value ELSE Nil

\* The calls with an id in a replay, when one part has it: that call, with the
\* metadata that follows it.
LEMMA ReplayCall ==
  ASSUME NEW keeps, NEW c, IsSeq(c), Replay(keeps, c).verdict = "Ok",
         \A part \in Range(c) : FormedPart(part) /\ (IsData(part) => part.data \in ReplayKinds),
         \A k \in 2..Len(c) : ~(IsMetadata(c[k - 1]) /\ IsMetadata(c[k])),
         NEW p \in 1..Len(c), c[p].kind = "ToolCall",
         \A k \in 1..Len(c) : k # p /\ c[k].kind = "ToolCall" => c[k].call.id # c[p].call.id
  PROVE  IdCalls(Range(Replay(keeps, c).rig), c[p].call.id) = {RigCall(c[p].call, MetaAfter(c, p))}
<1> DEFINE n == Len(c)
           id == c[p].call.id
           Is(x) == x.type = "ToolCall" /\ x.call.id = id
           In(s) == {x \in Range(s) : Is(x)}
           Meta(k) == IF p < k /\ IsMetadata(c[p + 1]) THEN c[p + 1].value ELSE Nil
           F(k) == IF k < p THEN {} ELSE {RigCall(c[p].call, Meta(k))}
<1>1. n \in Nat /\ DOMAIN c = 1..n /\ p \in 1..n /\ \A k \in 1..n : c[k] \in Range(c)
  BY SeqIs DEF Range
<1>2. PICK acc : /\ acc[0] = NoReplay
                 /\ \A k \in 1..n : acc[k] = ReplayPart(keeps, acc[k - 1], c[k])
                 /\ Replay(keeps, c) = acc[n]
  BY ReplayIs
<1>3. ~IsMetadata(c[p])
  BY DEF IsMetadata, IsData
<1> HIDE DEF n
<1>4. ASSUME NEW s, IsSeq(s), NEW x
      PROVE  In(Joined(s, <<x>>)) = In(s) \cup (IF Is(x) THEN {x} ELSE {})
  <2>1. Range(Joined(s, <<x>>)) = Range(s) \cup {x}
    BY <1>4, LongerFacts
  <2> HIDE DEF Is
  <2> QED BY <2>1
\* The last of the replay so far, when the last part was no metadata.
<1> DEFINE Ends(k) ==
             \E s, x : /\ IsSeq(s) /\ (\A y \in Range(s) : IsRigPart(y)) /\ IsRigPart(x)
                       /\ x.type = "ToolCall" => x = RigCall(c[k].call, Nil)
                       /\ x.type = "ToolCall" <=> c[k].kind = "ToolCall"
                       /\ acc[k].rig = Joined(s, <<x>>)
                       /\ In(s) = F(k - 1)
           Holds(k) ==
             /\ IsReplay(acc[k])
             /\ acc[k].verdict = "Ok" =>
                  /\ In(acc[k].rig) = F(k)
                  /\ k = 0 => acc[k].rig = <<>>
                  /\ k > 0 => IsMetadata(c[k]) \/ Ends(k)
           A == {k \in 0..n : Holds(k)}
<1>5. 0 \in A
  <2>1. IsReplay(acc[0]) /\ acc[0].rig = <<>>
    BY <1>2, EmptyIsSeq DEF IsReplay, NoReplay, ReplayVerdicts
  <2>2. In(<<>>) = {}
    BY EmptyIsSeq
  <2>3. F(0) = {}
    BY <1>1
  <2> QED BY <1>1, <2>1, <2>2, <2>3
<1>6. ASSUME NEW k \in 1..n, k - 1 \in A PROVE k \in A
  <2>1. k \in 0..n /\ k - 1 \in 0..n /\ k > 0
    BY <1>1
  <2> DEFINE r == acc[k - 1]
             part == c[k]
             q == acc[k]
  <2>2. /\ q = ReplayPart(keeps, r, part) /\ FormedPart(part)
        /\ IsData(part) => part.data \in ReplayKinds
    BY <1>1, <1>2
  <2>3. Holds(k - 1)
    BY <1>6
  <2>4. IsReplay(r) /\ IsReplay(q)
    BY <2>2, <2>3, ReplayPartFacts
  <2>5. ASSUME q.verdict = "Ok", ~IsMetadata(part)
        PROVE  In(q.rig) = F(k) /\ Ends(k)
    <3>1. PICK x : /\ IsRigPart(x) /\ q.rig = Joined(r.rig, <<x>>)
                   /\ x.type = "ToolCall" => x = RigCall(part.call, Nil)
                   /\ x.type = "ToolCall" <=> part.kind = "ToolCall"
      <4>1. /\ ReplayPart(keeps, r, part).verdict = "Ok" /\ IsReplay(r) /\ FormedPart(part)
            /\ IsData(part) => part.data \in ReplayKinds
            /\ ~IsMetadata(part)
        BY <2>2, <2>4, <2>5
      <4> HIDE DEF r, part, q
      <4>2. \E x : /\ IsRigPart(x) /\ ReplayPart(keeps, r, part).rig = Joined(r.rig, <<x>>)
                   /\ x.type = "ToolCall" => x = RigCall(part.call, Nil)
                   /\ x.type = "ToolCall" <=> part.kind = "ToolCall"
        BY <4>1, ReplayOne
      <4> QED BY <2>2, <4>2
    <3>2. r.verdict = "Ok"
      BY <2>2, <2>4, <2>5, ReplayOne
    <3>3. In(r.rig) = F(k - 1)
      BY <2>3, <3>2
    <3>4. IsSeq(r.rig) /\ \A y \in Range(r.rig) : IsRigPart(y)
      BY <2>4 DEF IsReplay
    <3>5. In(q.rig) = F(k - 1) \cup (IF Is(x) THEN {x} ELSE {})
      <4> HIDE DEF In, Is, F
      <4> QED BY <1>4, <3>1, <3>3, <3>4
    <3>6. CASE k = p
      <4>1. Is(x) /\ x = RigCall(c[p].call, Nil)
        BY <3>1, <3>6 DEF RigCall
      <4>2. F(k - 1) = {} /\ F(k) = {x}
        BY <1>1, <3>6, <4>1
      <4> HIDE DEF Is, F, In
      <4> QED BY <3>1, <3>3, <3>4, <3>5, <4>1, <4>2
    <3>7. CASE k # p
      <4>1. ~Is(x)
        BY <1>1, <3>1, <3>7 DEF RigCall, n
      <4>2. F(k) = F(k - 1)
        <5>1. CASE k < p
          BY <1>1, <5>1
        <5>2. CASE k > p
          <6>1. ~(k < p) /\ ~(k - 1 < p) /\ p < k
            BY <1>1, <5>2
          <6>2. Meta(k) = Meta(k - 1)
            <7>1. CASE p < k - 1
              BY <6>1, <7>1
            <7>2. CASE ~(p < k - 1)
              <8>1. p + 1 = k
                BY <1>1, <6>1, <7>2
              <8> QED BY <2>5, <7>2, <8>1
            <7> QED BY <7>1, <7>2
          <6> HIDE DEF Meta
          <6> QED BY <6>1, <6>2
        <5> QED BY <1>1, <3>7, <5>1, <5>2
      <4> HIDE DEF Is, F, In
      <4> QED BY <3>1, <3>3, <3>4, <3>5, <4>1, <4>2
    <3> QED BY <3>6, <3>7
  <2>6. ASSUME q.verdict = "Ok", IsMetadata(part)
        PROVE  In(q.rig) = F(k)
    <3>1. r.verdict = "Ok" /\ q = ReplayMetadata(r, part.value)
      BY <2>2, <2>6 DEF ReplayPart, ReplayData, IsMetadata, IsData
    <3>2. part.value # Nil
      BY <2>2, <2>6 DEF FormedPart, IsPart, IsMetadata, IsData
    <3>3. k - 1 # 0
      <4>1. SUFFICES ASSUME k - 1 = 0 PROVE FALSE
        OBVIOUS
      <4>2. r.rig = <<>>
        BY <2>3, <3>1, <4>1
      <4>3. Len(r.rig) > 0
        BY <2>4, <2>6, <3>1, MetadataFacts
      <4> QED BY <4>2, <4>3, EmptyIsSeq
    <3>4. k \in 2..n /\ k - 1 \in 1..n
      BY <1>1, <3>3
    <3>5. ~IsMetadata(c[k - 1])
      BY <2>6, <3>4 DEF n
    <3>6. Ends(k - 1)
      <4>1. k - 1 > 0
        BY <3>4
      <4> HIDE DEF Ends, In, F
      <4> QED BY <2>3, <3>1, <3>5, <4>1
    <3>7. PICK s, x : /\ IsSeq(s) /\ (\A y \in Range(s) : IsRigPart(y)) /\ IsRigPart(x)
                      /\ x.type = "ToolCall" => x = RigCall(c[k - 1].call, Nil)
                      /\ x.type = "ToolCall" <=> c[k - 1].kind = "ToolCall"
                      /\ r.rig = Joined(s, <<x>>)
                      /\ In(s) = F(k - 1 - 1)
      <4> HIDE DEF In, F
      <4> QED BY <3>6
    <3> DEFINE meta == part.value
               y == RigCall(x.call, meta)
    <3>8. x.type = "ToolCall" /\ q.rig = Joined(s, <<y>>)
      <4>1. meta # Nil /\ q = ReplayMetadata(r, meta) /\ ReplayMetadata(r, meta).verdict = "Ok"
        BY <2>6, <3>1, <3>2
      <4>2. x.type = "ToolCall" => x.meta = Nil
        BY <3>7 DEF RigCall
      <4>3. /\ IsReplay(r) /\ IsSeq(s) /\ (\A z \in Range(s) : IsRigPart(z)) /\ IsRigPart(x)
            /\ r.rig = Joined(s, <<x>>) /\ r.verdict = "Ok"
        BY <2>4, <3>1, <3>7
      <4> HIDE DEF r, part, q, meta, In, F
      <4>4. x.type = "ToolCall" /\ ReplayMetadata(r, meta).rig = Joined(s, <<RigCall(x.call, meta)>>)
        <5>1. meta # Nil /\ ReplayMetadata(r, meta).verdict = "Ok"
          BY <4>1
        <5>2. x.type = "ToolCall"
          BY <4>2, <4>3, <5>1, ReplayAttaches
        <5>3. ReplayMetadata(r, meta).rig = Joined(s, <<RigCall(x.call, meta)>>)
          <6>1. ReplayMetadata(r, meta).rig = Joined(s, <<RigCall(x.call, meta)>>)
                /\ Back(ReplayMetadata(r, meta).rig)
                     = Joined(Back(r.rig), <<DataContent("tool_call_metadata", meta)>>)
            BY <4>2, <4>3, <5>1, ReplayAttaches
          <6> QED BY <6>1
        <5> QED BY <5>2, <5>3
      <4> QED BY <4>1, <4>4
    <3>9. c[k - 1].kind = "ToolCall" /\ x.call = c[k - 1].call /\ y = RigCall(c[k - 1].call, meta)
      <4> HIDE DEF In, F
      <4> QED BY <3>7, <3>8 DEF RigCall
    <3>10. In(q.rig) = F(k - 2) \cup (IF Is(y) THEN {y} ELSE {})
      <4>1. k - 1 - 1 = k - 2
        BY <1>1
      <4> HIDE DEF In, Is, F, y
      <4> QED BY <1>4, <3>7, <3>8, <4>1
    <3>11. Is(y) <=> c[k - 1].call.id = id
      BY <3>9 DEF RigCall
    <3>12. k # p
      BY <1>3, <2>6
    <3>13. CASE k - 1 = p
      <4>1. p < k /\ p + 1 = k /\ k - 2 < p /\ ~(k < p)
        BY <1>1, <3>13
      <4>2. Meta(k) = meta
        BY <2>6, <4>1
      <4> HIDE DEF Meta
      <4>3. F(k - 2) = {} /\ F(k) = {y}
        BY <3>9, <3>13, <4>1, <4>2
      <4>4. Is(y)
        BY <3>11, <3>13
      <4> HIDE DEF Is, F, In
      <4> QED BY <3>10, <4>3, <4>4
    <3>14. CASE k - 1 # p
      <4>1. ~Is(y)
        <5>1. c[k - 1].call.id # id
          BY <3>4, <3>9, <3>14 DEF n
        <5> HIDE DEF Is
        <5> QED BY <3>11, <5>1
      <4>2. F(k - 2) = F(k)
        <5>1. CASE k < p
          BY <1>1, <5>1
        <5>2. CASE k > p
          <6>1. ~(k < p) /\ ~(k - 2 < p) /\ p < k
            BY <1>1, <3>14, <5>2
          <6>2. Meta(k) = Meta(k - 2)
            <7>1. CASE p < k - 2
              BY <6>1, <7>1
            <7>2. CASE ~(p < k - 2)
              <8>1. p + 1 = k - 1
                BY <1>1, <3>14, <6>1, <7>2
              <8> QED BY <3>5, <7>2, <8>1
            <7> QED BY <7>1, <7>2
          <6> HIDE DEF Meta
          <6> QED BY <6>1, <6>2
        <5> QED BY <1>1, <3>12, <5>1, <5>2
      <4> HIDE DEF Is, F, In
      <4> QED BY <3>10, <4>1, <4>2
    <3> QED BY <3>13, <3>14
  <2> HIDE DEF Ends, In, F
  <2>7. Holds(k)
    BY <2>1, <2>4, <2>5, <2>6
  <2> HIDE DEF Holds
  <2> QED BY <2>1, <2>7
<1>7. n \in A
  <2>1. n \in 0..n
    BY <1>1
  <2> HIDE DEF A
  <2> QED BY <1>1, <1>5, <1>6, <2>1, CountUp
<1>8. In(acc[n].rig) = F(n)
  <2> HIDE DEF Ends, In, F
  <2> QED BY <1>2, <1>7
<1>9. F(n) = {RigCall(c[p].call, Meta(n))}
  BY <1>1
<1> QED BY <1>2, <1>8, <1>9 DEF n, IdCalls, MetaAfter

\* The calls with an id, message by message: from what messages say.
LEMMA CallsAre ==
  ASSUME NEW ms, IsSeq(ms), \A j \in 1..Len(ms) : IsSeq(ms[j].content), NEW id, NEW K,
         \A x \in Range(PartsOf(ms)) : x \in K <=> x.type = "ToolCall" /\ x.call.id = id
  PROVE  CallsNamed(ms, id) = Only(PartsOf(ms), K) /\ IsSeq(PartsOf(ms))
<1> DEFINE C == [m \in Range(ms) |-> m.content]
           parts == Through(C, ms)
           all == PartsOf(ms)
           T == {x \in Range(all) : x.type = "ToolCall"}
           chosen == [k \in DOMAIN parts |-> Only(parts[k], T)]
           found == [j \in DOMAIN ms |-> CallsOf(ms[j])]
           calls == FlattenSeq(found)
           U == {part \in Range(calls) : part.call.id = id}
<1>1. DOMAIN ms = 1..Len(ms) /\ \A j \in 1..Len(ms) : ms[j] \in Range(ms)
  BY SeqIs DEF Range
<1>2. \A m \in Range(ms) : C[m] = m.content
  OBVIOUS
<1> HIDE DEF C
<1>3. /\ IsSeqs(parts) /\ all = FlattenSeq(parts) /\ IsSeq(all)
      /\ Range(all) = UNION {Range(ms[j].content) : j \in 1..Len(ms)}
  BY <1>2, PartsAre
<1>4. DOMAIN parts = DOMAIN ms /\ \A j \in DOMAIN ms : parts[j] = ms[j].content
  <2>1. DOMAIN parts = DOMAIN ms /\ \A j \in DOMAIN ms : parts[j] = C[ms[j]]
    BY DEF Through
  <2> HIDE DEF parts
  <2> QED BY <1>1, <1>2, <2>1
<1> HIDE DEF parts
<1>5. Only(all, T) = FlattenSeq(chosen)
  <2> HIDE DEF T
  <2> QED BY <1>3, OnlyFlat
<1>6. ASSUME NEW j \in DOMAIN ms PROVE Only(parts[j], T) = CallsOf(ms[j])
  <2> DEFINE content == ms[j].content
             V == {part \in Range(content) : part.type = "ToolCall"}
  <2>1. IsSeq(content) /\ Range(content) \subseteq Range(all)
    BY <1>1, <1>3
  <2>2. T \cap Range(content) = V \cap Range(content)
    BY <2>1
  <2>3. CallsOf(ms[j]) = Only(content, V)
    BY DEF CallsOf
  <2> HIDE DEF T, V, content
  <2>4. Only(content, T) = Only(content, V)
    BY <2>1, <2>2, OnlySame
  <2> QED BY <1>4, <2>3, <2>4 DEF content
<1>7. chosen = found
  BY <1>4, <1>6
<1>8. calls = Only(all, T)
  BY <1>5, <1>7
<1> HIDE DEF chosen, found
<1>9. CallsNamed(ms, id) = Only(calls, U)
  BY DEF CallsNamed, found
<1> HIDE DEF calls
<1>10. IsSeq(calls) /\ Range(calls) = Range(all) \cap T
  <2> HIDE DEF T, all
  <2> QED BY <1>3, <1>8, OnlyFacts
<1>11. U \cap Range(calls) = K \cap Range(calls)
  BY <1>10
<1>12. Only(calls, U) = Only(calls, K)
  <2> HIDE DEF U
  <2> QED BY <1>10, <1>11, OnlySame
<1>13. Only(calls, K) = Only(all, T \cap K)
  <2> HIDE DEF T, all
  <2> QED BY <1>3, <1>8, OnlyTwice
<1>14. (T \cap K) \cap Range(all) = K \cap Range(all)
  OBVIOUS
<1>15. Only(all, T \cap K) = Only(all, K)
  <2> DEFINE TK == T \cap K
  <2>1. TK \cap Range(all) = K \cap Range(all)
    BY <1>14
  <2> HIDE DEF TK, T, all
  <2>2. Only(all, TK) = Only(all, K)
    BY <1>3, <2>1, OnlySame
  <2> QED BY <2>2 DEF TK
<1> QED BY <1>3, <1>9, <1>12, <1>13, <1>15

LEMMA PartsConcat ==
  ASSUME NEW s, NEW t, IsSeq(s), IsSeq(t), \A m \in Range(s) \cup Range(t) : IsSeq(m.content)
  PROVE  PartsOf(Joined(s, t)) = Joined(PartsOf(s), PartsOf(t))
<1> DEFINE both == Joined(s, t)
           C == [m \in Range(s) \cup Range(t) |-> m.content]
<1>1. IsSeq(both) /\ Range(both) = Range(s) \cup Range(t)
  BY ConcatFacts
<1>2. \A m \in Range(s) \cup Range(t) : C[m] = m.content
  OBVIOUS
<1> HIDE DEF C, both
<1>3. ASSUME NEW u, IsSeq(u), Range(u) \subseteq Range(s) \cup Range(t)
      PROVE  IsSeqs(Through(C, u)) /\ PartsOf(u) = FlattenSeq(Through(C, u))
  <2>1. \A j \in 1..Len(u) : IsSeq(u[j].content)
    <3>1. \A j \in 1..Len(u) : u[j] \in Range(u)
      BY <1>3, SeqIs DEF Range
    <3> QED BY <1>3, <3>1
  <2>2. \A m \in Range(u) : C[m] = m.content
    BY <1>2, <1>3
  <2> QED BY <1>3, <2>1, <2>2, PartsAre
<1>4. Through(C, both) = Joined(Through(C, s), Through(C, t))
  BY ThroughConcat DEF both
<1>5. /\ IsSeqs(Through(C, s)) /\ PartsOf(s) = FlattenSeq(Through(C, s))
      /\ IsSeqs(Through(C, t)) /\ PartsOf(t) = FlattenSeq(Through(C, t))
      /\ PartsOf(both) = FlattenSeq(Through(C, both))
  BY <1>1, <1>3
<1>6. FlattenSeq(Joined(Through(C, s), Through(C, t)))
        = Joined(FlattenSeq(Through(C, s)), FlattenSeq(Through(C, t)))
  BY <1>5, FlattenConcat
<1> QED BY <1>4, <1>5, <1>6 DEF both

LEMMA CallsConcat ==
  ASSUME NEW s, NEW t, IsSeq(s), IsSeq(t), \A m \in Range(s) \cup Range(t) : IsSeq(m.content),
         NEW id
  PROVE  /\ CallsNamed(Joined(s, t), id) = Joined(CallsNamed(s, id), CallsNamed(t, id))
         /\ IsSeq(CallsNamed(s, id)) /\ IsSeq(CallsNamed(t, id))
<1> DEFINE both == Joined(s, t)
           all == Range(PartsOf(both))
           K == {x \in all : x.type = "ToolCall" /\ x.call.id = id}
<1>1. IsSeq(both) /\ Range(both) = Range(s) \cup Range(t)
  BY ConcatFacts
<1>2. PartsOf(both) = Joined(PartsOf(s), PartsOf(t))
  BY PartsConcat
<1>3. ASSUME NEW u, IsSeq(u), Range(u) \subseteq Range(s) \cup Range(t)
      PROVE  IsSeq(PartsOf(u)) /\ \A j \in 1..Len(u) : IsSeq(u[j].content)
  <2> DEFINE C == [m \in Range(u) |-> m.content]
  <2>1. \A m \in Range(u) : C[m] = m.content
    OBVIOUS
  <2>2. \A j \in 1..Len(u) : IsSeq(u[j].content)
    <3>1. \A j \in 1..Len(u) : u[j] \in Range(u)
      BY <1>3, SeqIs DEF Range
    <3> QED BY <1>3, <3>1
  <2> HIDE DEF C
  <2> QED BY <1>3, <2>1, <2>2, PartsAre
<1>4. IsSeq(PartsOf(s)) /\ IsSeq(PartsOf(t))
  BY <1>3
<1>5. all = Range(PartsOf(s)) \cup Range(PartsOf(t))
  BY <1>2, <1>4, ConcatFacts
<1>6. \A x \in all : x \in K <=> x.type = "ToolCall" /\ x.call.id = id
  OBVIOUS
<1> HIDE DEF K, both
<1>7. ASSUME NEW u, IsSeq(u), Range(u) \subseteq Range(s) \cup Range(t), Range(PartsOf(u)) \subseteq all
      PROVE  CallsNamed(u, id) = Only(PartsOf(u), K)
  <2>1. \A x \in Range(PartsOf(u)) : x \in K <=> x.type = "ToolCall" /\ x.call.id = id
    BY <1>6, <1>7
  <2> QED BY <1>3, <1>7, <2>1, CallsAre
<1>8. /\ CallsNamed(s, id) = Only(PartsOf(s), K) /\ CallsNamed(t, id) = Only(PartsOf(t), K)
      /\ CallsNamed(both, id) = Only(PartsOf(both), K)
  BY <1>1, <1>5, <1>7
<1>9. Only(Joined(PartsOf(s), PartsOf(t)), K) = Joined(Only(PartsOf(s), K), Only(PartsOf(t), K))
  BY <1>4, OnlyConcat
<1> QED BY <1>2, <1>4, <1>8, <1>9, OnlyFacts DEF both

\* Which they are.
LEMMA CallsRange ==
  ASSUME NEW ms, IsSeq(ms), \A j \in 1..Len(ms) : IsSeq(ms[j].content), NEW id
  PROVE  /\ IsSeq(CallsNamed(ms, id))
         /\ Range(CallsNamed(ms, id)) = IdCalls(UNION {Range(ms[j].content) : j \in 1..Len(ms)}, id)
<1> DEFINE C == [m \in Range(ms) |-> m.content]
           all == PartsOf(ms)
           K == {x \in Range(all) : x.type = "ToolCall" /\ x.call.id = id}
<1>1. \A m \in Range(ms) : C[m] = m.content
  OBVIOUS
<1> HIDE DEF C
<1>2. IsSeq(all) /\ Range(all) = UNION {Range(ms[j].content) : j \in 1..Len(ms)}
  BY <1>1, PartsAre
<1>3. \A x \in Range(all) : x \in K <=> x.type = "ToolCall" /\ x.call.id = id
  OBVIOUS
<1>4. Range(all) \cap K = K
  OBVIOUS
<1> HIDE DEF K
<1>5. CallsNamed(ms, id) = Only(all, K)
  BY <1>3, CallsAre
<1>6. IsSeq(CallsNamed(ms, id)) /\ Range(CallsNamed(ms, id)) = K
  <2> HIDE DEF all
  <2> QED BY <1>2, <1>4, <1>5, OnlyFacts
<1> QED BY <1>2, <1>6 DEF K, IdCalls

\* What a message that is accepted becomes.
LEMMA OneMessageFacts ==
  ASSUME NEW role, NEW content
  PROVE  /\ IsSeq(OneMessage(role, content)) /\ Len(OneMessage(role, content)) \in 0..1
         /\ content # <<>> => Range(OneMessage(role, content)) = {Message(role, content)}
         /\ Range(OneMessage(role, content)) \subseteq {Message(role, content)}
<1>1. CASE content = <<>>
  BY <1>1, EmptyIsSeq DEF OneMessage
<1>2. CASE content # <<>>
  <2> DEFINE one == Message(role, content)
  <2>1. OneMessage(role, content) = <<one>>
    BY <1>2 DEF OneMessage
  <2> HIDE DEF one
  <2> QED BY <2>1, OneIsSeq DEF one
<1> QED BY <1>1, <1>2

LEMMA AssistantParts ==
  ASSUME NEW target, NEW m, Formed(m), MessageVerdict(target, m) = "Ok", m.role = "Assistant"
  PROVE  LET rig == MessageToRig(target, m)
             replay == Replay(Keeps(target), Forwarded(target, m.content))
         IN  /\ replay.verdict = "Ok" /\ IsReplay(replay)
             /\ IsSeq(rig)
             /\ UNION {Range(rig[j].content) : j \in 1..Len(rig)} = Range(replay.rig)
<1> DEFINE parts == Forwarded(target, m.content)
           rig == MessageToRig(target, m)
           replay == Replay(Keeps(target), parts)
<1>1. IsSeq(parts) /\ \A part \in Range(parts) : FormedPart(part)
  BY ForwardedFacts
<1>2. replay.verdict = "Ok" /\ rig = OneMessage("Assistant", replay.rig)
  BY DEF MessageVerdict, MessageToRig
<1>3. IsReplay(replay)
  BY <1>1, ReplayTyped
<1> HIDE DEF replay, rig
<1>4. IsSeq(rig) /\ Len(rig) \in 0..1
  BY <1>2, OneMessageFacts
<1>5. UNION {Range(rig[j].content) : j \in 1..Len(rig)} = Range(replay.rig)
  <2>1. DOMAIN rig = 1..Len(rig)
    BY <1>4, SeqIs
  <2>2. CASE replay.rig = <<>>
    <3>1. rig = <<>>
      BY <1>2, <2>2 DEF OneMessage
    <3> QED BY <2>2, <3>1, EmptyIsSeq
  <2>3. CASE replay.rig # <<>>
    <3>1. rig = <<Message("Assistant", replay.rig)>>
      BY <1>2, <2>3 DEF OneMessage
    <3>2. Len(rig) = 1 /\ rig[1].content = replay.rig
      BY <3>1, OneIsSeq DEF Message
    <3>3. 1..Len(rig) = {1}
      BY <3>2
    <3> QED BY <3>2, <3>3
  <2> QED BY <2>2, <2>3
<1> QED BY <1>2, <1>3, <1>4, <1>5 DEF replay, rig

LEMMA OtherParts ==
  ASSUME NEW target, NEW m, Formed(m), MessageVerdict(target, m) = "Ok", m.role # "Assistant"
  PROVE  LET rig == MessageToRig(target, m)
         IN  /\ \A j \in DOMAIN rig : \A x \in Range(rig[j].content) :
                  \E part \in Range(m.content) :
                    part.kind \in {"Text", "ToolResult"} /\ x = RigPart(part)
             /\ m.role = "Tool" => Len(rig) \in 0..1
<1> DEFINE parts == Forwarded(target, m.content)
           rig == MessageToRig(target, m)
           all == [k \in DOMAIN parts |-> RigPart(parts[k])]
<1>1. /\ IsSeq(parts) /\ \A part \in Range(parts) : part \in Range(m.content)
      /\ \A part \in Range(parts) : part.kind \in {"Text", "ToolResult"}
  BY ForwardedFacts, ForwardedKinds
<1>2. ASSUME NEW k \in DOMAIN parts
      PROVE  \E part \in Range(m.content) :
               part.kind \in {"Text", "ToolResult"} /\ all[k] = RigPart(part)
  <2>1. parts[k] \in Range(parts) /\ all[k] = RigPart(parts[k])
    BY DEF Range
  <2> QED BY <1>1, <2>1
<1>3. \A x \in Range(all) :
        \E part \in Range(m.content) : part.kind \in {"Text", "ToolResult"} /\ x = RigPart(part)
  BY <1>2 DEF Range
<1>4. DOMAIN all = DOMAIN parts
  OBVIOUS
<1>5. /\ m.role = "System" => rig = [k \in DOMAIN all |-> Message("System", <<all[k]>>)]
      /\ m.role # "System" => rig = OneMessage("User", all)
  BY DEF MessageToRig
<1> HIDE DEF rig, all, parts
<1>6. CASE m.role = "System"
  <2>1. ASSUME NEW j \in DOMAIN rig, NEW x \in Range(rig[j].content)
        PROVE  \E part \in Range(m.content) :
                 part.kind \in {"Text", "ToolResult"} /\ x = RigPart(part)
    <3>1. j \in DOMAIN all /\ rig[j] = Message("System", <<all[j]>>)
      BY <1>5, <1>6
    <3>2. rig[j].content = <<all[j]>>
      BY <3>1 DEF Message
    <3>3. x = all[j]
      BY <2>1, <3>2, OneIsSeq
    <3> QED BY <1>3, <3>1, <3>3 DEF Range
  <2> QED BY <1>6, <2>1 DEF rig
<1>7. CASE m.role # "System"
  <2>1. /\ Len(rig) \in 0..1 /\ Range(rig) \subseteq {Message("User", all)}
    BY <1>5, <1>7, OneMessageFacts
  <2>2. \A j \in DOMAIN rig : rig[j].content = all
    <3>1. \A j \in DOMAIN rig : rig[j] \in Range(rig)
      BY DEF Range
    <3> QED BY <2>1, <3>1 DEF Message
  <2>3. \A j \in DOMAIN rig : \A x \in Range(rig[j].content) :
          \E part \in Range(m.content) : part.kind \in {"Text", "ToolResult"} /\ x = RigPart(part)
    BY <1>3, <2>2
  <2> QED BY <2>1, <2>3 DEF rig
<1> QED BY <1>6, <1>7

\* Where the call is among what is forwarded of its message, and its metadata.
LEMMA CallPlace ==
  ASSUME NEW target, NEW at, Formed(history[at[1]]), at[2] \in DOMAIN history[at[1]].content,
         PartAt(history, at).kind = "ToolCall", Alone(at)
  PROVE  LET parts == Forwarded(target, history[at[1]].content)
             said == PartAt(history, at)
         IN  \E p \in 1..Len(parts) :
               /\ parts[p] = said
               /\ \A k \in 1..Len(parts) :
                    k # p /\ parts[k].kind = "ToolCall" => parts[k].call.id # said.call.id
               /\ MetadataAt(target, at) = MetaAfter(parts, p)
<1> DEFINE content == history[at[1]].content
           S == {part \in Range(content) : ~NotForwarded(target, part)}
           parts == Only(content, S)
           said == PartAt(history, at)
           n == Len(parts)
<1>1. IsSeq(content) /\ DOMAIN content = 1..Len(content)
  BY SeqIs DEF Formed
<1>2. said = content[at[2]] /\ said \in Range(content) /\ ~NotForwarded(target, said)
  BY DEF PartAt, Range, NotForwarded, IsData
<1>3. parts = Forwarded(target, content)
  BY DEF Forwarded
<1>4. PICK e : \A x \in 1..n : /\ e[x] \in 1..Len(content) /\ parts[x] = content[e[x]]
                               /\ \A y \in 1..n : e[x] = e[y] => x = y
  <2> HIDE DEF content, S
  <2>1. IsSeq(content)
    BY <1>1
  <2>2. \E e : Places(e, Only(content, S), content)
    BY <2>1, OnlyPlaces
  <2> QED BY <2>2 DEF Places
<1>5. IsSeq(parts) /\ said \in Range(parts)
  <2>1. said \in S
    BY <1>2
  <2> HIDE DEF content, S, said
  <2> QED BY <1>1, <1>2, <2>1, OnlyFacts
<1>6. n \in Nat /\ DOMAIN parts = 1..n
  BY <1>5, SeqIs
<1> HIDE DEF parts
<1>7. PICK p \in 1..n : parts[p] = said
  BY <1>5, <1>6 DEF Range
<1>8. \A k \in DOMAIN content :
        k # at[2] /\ content[k].kind = "ToolCall" => content[k].call.id # said.call.id
  BY DEF Alone
<1>9. ASSUME NEW k \in 1..n, k # p, parts[k].kind = "ToolCall"
      PROVE  parts[k].call.id # said.call.id
  <2>1. e[k] # e[p]
    BY <1>4, <1>9
  <2>2. /\ e[k] \in DOMAIN content /\ parts[k] = content[e[k]]
        /\ e[p] \in DOMAIN content /\ parts[p] = content[e[p]]
    BY <1>1, <1>4
  <2> HIDE DEF content, said
  <2>3. CASE e[p] = at[2]
    BY <1>8, <1>9, <2>1, <2>2, <2>3
  <2>4. CASE e[p] # at[2]
    <3>1. content[e[p]].call.id # said.call.id
      BY <1>7, <1>8, <2>2, <2>4 DEF said
    <3> QED BY <1>7, <2>2, <3>1
  <2> QED BY <2>3, <2>4
<1> DEFINE after == {k \in 2..n : parts[k - 1] = said /\ IsMetadata(parts[k])}
<1>10. MetadataAt(target, at) = IF after = {} THEN Nil ELSE parts[CHOOSE k \in after : TRUE].value
  BY <1>3 DEF MetadataAt
<1>11. \A k \in 2..n : parts[k - 1] = said => k = p + 1
  <2>1. ASSUME NEW k \in 2..n, parts[k - 1] = said, k # p + 1 PROVE FALSE
    <3>1. k - 1 \in 1..n /\ k - 1 # p
      BY <1>6, <2>1
    <3>2. parts[k - 1].call.id # said.call.id
      BY <1>9, <2>1, <3>1 DEF said
    <3> QED BY <2>1, <3>2
  <2> QED BY <2>1
<1>12. CASE p < n /\ IsMetadata(parts[p + 1])
  <2>1. p + 1 \in 2..n /\ p + 1 - 1 = p
    BY <1>6, <1>12
  <2>2. p + 1 \in after
    BY <1>7, <1>12, <2>1
  <2>3. after = {p + 1}
    BY <1>11, <2>2
  <2> HIDE DEF after
  <2>4. MetadataAt(target, at) = parts[p + 1].value
    BY <1>10, <2>3
  <2> QED BY <1>3, <1>7, <1>9, <1>12, <2>4 DEF MetaAfter
<1>13. CASE ~(p < n /\ IsMetadata(parts[p + 1]))
  <2>1. after = {}
    BY <1>6, <1>11, <1>13
  <2> HIDE DEF after
  <2>2. MetadataAt(target, at) = Nil
    BY <1>10, <2>1
  <2> QED BY <1>3, <1>7, <1>9, <1>13, <2>2 DEF MetaAfter
<1> QED BY <1>12, <1>13

LEMMA EmptyRange ==
  ASSUME NEW s, IsSeq(s), Range(s) = {}
  PROVE  s = <<>>
<1>1. Len(s) \in Nat /\ DOMAIN s = 1..Len(s)
  BY SeqIs
<1>2. Len(s) = 0
  <2>1. \A k \in DOMAIN s : s[k] \in Range(s)
    BY DEF Range
  <2>2. 1 \notin 1..Len(s)
    BY <1>1, <2>1
  <2> QED BY <1>1, <2>2
<1>3. \A k \in 1..Len(s) : s[k] = <<>>[k]
  BY <1>2
<1> QED BY <1>2, <1>3, EmptyIsSeq, SameSeq

\* Of the messages an answered call becomes, the one call with its id is that call.
LEMMA CallSaid ==
  ASSUME NEW target, NEW at, Formed(history[at[1]]), at[2] \in DOMAIN history[at[1]].content,
         PartAt(history, at).kind = "ToolCall", Alone(at),
         MessageVerdict(target, history[at[1]]) = "Ok",
         history[at[1]].role = "Assistant" => MetadataOnce(target, history[at[1]]),
         LET rig == MessageToRig(target, history[at[1]])
         IN  IsSeq(rig) /\ \A j \in 1..Len(rig) : IsSeq(rig[j].content)
  PROVE  LET said == PartAt(history, at).call
             calls == CallsNamed(MessageToRig(target, history[at[1]]), said.id)
         IN  IsSeq(calls) /\ Range(calls) = {RigCall(said, MetadataAt(target, at))}
<1> DEFINE m == history[at[1]]
           parts == Forwarded(target, m.content)
           rig == MessageToRig(target, m)
           replay == Replay(Keeps(target), parts)
           said == PartAt(history, at)
           id == said.call.id
<1>1. PICK p \in 1..Len(parts) :
        /\ parts[p] = said
        /\ \A k \in 1..Len(parts) : k # p /\ parts[k].kind = "ToolCall" => parts[k].call.id # id
        /\ MetadataAt(target, at) = MetaAfter(parts, p)
  <2>1. \E p \in 1..Len(parts) :
          /\ parts[p] = said
          /\ \A k \in 1..Len(parts) :
               k # p /\ parts[k].kind = "ToolCall" => parts[k].call.id # said.call.id
          /\ MetadataAt(target, at) = MetaAfter(parts, p)
    BY CallPlace
  <2> QED BY <2>1
<1>2. /\ IsSeq(parts)
      /\ \A part \in Range(parts) :
           FormedPart(part) /\ ~NotForwarded(target, part) /\ (IsData(part) => part.data \in ReplayKinds)
  <2>1. /\ IsSeq(parts)
        /\ \A part \in Range(parts) : FormedPart(part) /\ ~NotForwarded(target, part)
    BY ForwardedFacts
  <2> HIDE DEF parts
  <2> QED BY <2>1 DEF NotForwarded
<1>3. said.kind = "ToolCall" /\ said \in Range(parts)
  BY <1>1, <1>2, SeqIs DEF Range
<1>4. m.role = "Assistant"
  <2>1. ASSUME m.role # "Assistant" PROVE FALSE
    <3>1. said.kind \in {"Text", "ToolResult"}
      <4> HIDE DEF said
      <4> QED BY <1>3, <2>1, ForwardedKinds
    <3> QED BY <1>3, <3>1
  <2> QED BY <2>1
<1>5. /\ replay.verdict = "Ok"
      /\ UNION {Range(rig[j].content) : j \in 1..Len(rig)} = Range(replay.rig)
  BY <1>4, AssistantParts
<1>6. \A k \in 2..Len(parts) : ~(IsMetadata(parts[k - 1]) /\ IsMetadata(parts[k]))
  BY <1>4 DEF MetadataOnce
<1>7. IsSeq(rig) /\ \A j \in 1..Len(rig) : IsSeq(rig[j].content)
  OBVIOUS
<1> HIDE DEF m, rig, parts
<1>8. IdCalls(Range(replay.rig), id) = {RigCall(said.call, MetadataAt(target, at))}
  <2> DEFINE keeps == Keeps(target)
  <2>1. parts[p].kind = "ToolCall" /\ parts[p].call = said.call
    BY <1>1, <1>3
  <2>2. \A k \in 1..Len(parts) : k # p /\ parts[k].kind = "ToolCall" =>
          parts[k].call.id # parts[p].call.id
    BY <1>1
  <2>3. Replay(keeps, parts).verdict = "Ok"
    BY <1>5
  <2>4. \A part \in Range(parts) : FormedPart(part) /\ (IsData(part) => part.data \in ReplayKinds)
    BY <1>2
  <2> HIDE DEF keeps, said
  <2>5. IdCalls(Range(Replay(keeps, parts).rig), parts[p].call.id)
          = {RigCall(parts[p].call, MetaAfter(parts, p))}
    BY <1>2, <1>6, <2>1, <2>2, <2>3, <2>4, ReplayCall, ZenonT(60)
  <2> QED BY <1>1, <2>1, <2>5 DEF keeps
<1>9. /\ IsSeq(CallsNamed(rig, id))
      /\ Range(CallsNamed(rig, id))
           = IdCalls(UNION {Range(rig[j].content) : j \in 1..Len(rig)}, id)
  <2> HIDE DEF id
  <2> QED BY <1>7, CallsRange
<1> QED BY <1>5, <1>8, <1>9 DEF rig, m

\* Who answers or asks makes no calls.
LEMMA NoCallSaid ==
  ASSUME NEW target, NEW m, Formed(m), MessageVerdict(target, m) = "Ok", m.role # "Assistant",
         NEW id,
         LET rig == MessageToRig(target, m)
         IN  IsSeq(rig) /\ \A j \in 1..Len(rig) : IsSeq(rig[j].content)
  PROVE  CallsNamed(MessageToRig(target, m), id) = <<>>
<1> DEFINE rig == MessageToRig(target, m)
           calls == CallsNamed(rig, id)
<1>1. \A j \in DOMAIN rig : \A x \in Range(rig[j].content) :
        \E part \in Range(m.content) : part.kind \in {"Text", "ToolResult"} /\ x = RigPart(part)
  BY OtherParts
<1>2. IsSeq(rig) /\ \A j \in 1..Len(rig) : IsSeq(rig[j].content)
  OBVIOUS
<1> HIDE DEF rig
<1>3. DOMAIN rig = 1..Len(rig)
  BY <1>2, SeqIs
<1>4. /\ IsSeq(calls)
      /\ Range(calls) = IdCalls(UNION {Range(rig[j].content) : j \in 1..Len(rig)}, id)
  BY <1>2, CallsRange
<1>5. \A part : part.kind \in {"Text", "ToolResult"} => RigPart(part).type # "ToolCall"
  BY DEF RigPart, RigText, RigResult
<1>6. Range(calls) = {}
  <2>1. \A j \in 1..Len(rig) : \A x \in Range(rig[j].content) : x.type # "ToolCall"
    BY <1>1, <1>3, <1>5
  <2> HIDE DEF calls
  <2> QED BY <1>4, <2>1 DEF IdCalls
<1> HIDE DEF calls
<1>7. calls = <<>>
  BY <1>4, <1>6, EmptyRange
<1> QED BY <1>7 DEF calls, rig

\* What the host says when a tool has ended.
IsAnswer(m) == m.role = "Tool" /\ Len(m.content) = 1 /\ m.content[1].kind = "ToolResult"

Projected(target) == [i \in DOMAIN history |-> MessageToRig(target, history[i])]

LEMMA ProjectedFacts ==
  ASSUME NEW target, Accepted(target)
  PROVE  /\ IsSeqs(Projected(target)) /\ Len(Projected(target)) = Len(history)
         /\ \A i \in 1..Len(history) :
              /\ Projected(target)[i] = MessageToRig(target, history[i])
              /\ \A m \in Range(Projected(target)[i]) : IsWire(m)
              /\ \A j \in 1..Len(Projected(target)[i]) : IsSeq(Projected(target)[i][j].content)
<1> DEFINE seqs == [i \in DOMAIN history |-> MessageToRig(target, history[i])]
           said == UNION {Range(history[i].content) : i \in DOMAIN history}
           Can == [part \in said |-> Canonical(part)]
<1>1. \A i \in DOMAIN history : \A part \in Range(history[i].content) : Can[part] = Canonical(part)
  <2>1. \A i \in DOMAIN history : Range(history[i].content) \subseteq said
    OBVIOUS
  <2> HIDE DEF said
  <2> QED BY <2>1
<1>2. DOMAIN history = 1..Len(history)
  BY SeqIs DEF Accepted
<1>3. Projected(target) = seqs /\ \A i \in 1..Len(history) : seqs[i] = MessageToRig(target, history[i])
  BY <1>2 DEF Projected
<1> HIDE DEF Can
<1>4. /\ IsSeqs(seqs) /\ Len(seqs) = Len(history)
      /\ \A i \in 1..Len(history) : \A message \in Range(seqs[i]) : IsWire(message)
  BY <1>1, ProjectionIs DEF Accepted
<1> HIDE DEF seqs
<1>5. \A i \in 1..Len(history) : \A j \in 1..Len(seqs[i]) : IsSeq(seqs[i][j].content)
  <2> SUFFICES ASSUME NEW i \in 1..Len(history), NEW j \in 1..Len(seqs[i])
               PROVE  IsSeq(seqs[i][j].content)
    OBVIOUS
  <2>1. IsSeq(seqs[i])
    BY <1>4 DEF IsSeqs
  <2>2. seqs[i][j] \in Range(seqs[i])
    BY <2>1, SeqIs DEF Range
  <2> QED BY <1>4, <2>2 DEF IsWire
<1> QED BY <1>3, <1>4, <1>5

\* The calls with an id, along the conversation.
LEMMA CallsAlong ==
  ASSUME NEW target, Accepted(target), NEW f, FlatSteps(f, Projected(target)), NEW id,
         NEW i \in 1..Len(history)
  PROVE  /\ CallsNamed(f[i], id)
              = Joined(CallsNamed(f[i - 1], id), CallsNamed(MessageToRig(target, history[i]), id))
         /\ IsSeq(CallsNamed(f[i - 1], id))
         /\ IsSeq(CallsNamed(MessageToRig(target, history[i]), id))
<1> DEFINE seqs == Projected(target)
           n == Len(history)
<1>1. n \in Nat
  BY SeqIs DEF Accepted
<1>2. /\ IsSeqs(seqs) /\ Len(seqs) = n
      /\ \A k \in 1..n : /\ seqs[k] = MessageToRig(target, history[k])
                         /\ \A m \in Range(seqs[k]) : IsWire(m)
  BY ProjectedFacts
<1> HIDE DEF seqs
<1>3. /\ f[0] = <<>>
      /\ \A k \in 1..n : f[k] = Joined(f[k - 1], seqs[k]) /\ IsSeq(seqs[k])
      /\ \A k \in 0..n : IsSeq(f[k])
  BY <1>2 DEF FlatSteps, IsSeqs, seqs
<1> DEFINE A == {k \in 0..n : \A m \in Range(f[k]) : IsWire(m)}
<1>4. 0 \in A
  BY <1>1, <1>3, EmptyIsSeq
<1>5. ASSUME NEW k \in 1..n, k - 1 \in A PROVE k \in A
  <2>1. k \in 0..n /\ k - 1 \in 0..n
    BY <1>1
  <2>2. Range(f[k]) = Range(f[k - 1]) \cup Range(seqs[k])
    BY <1>3, <2>1, ConcatFacts
  <2> QED BY <1>2, <1>5, <2>1, <2>2
<1>6. \A k \in 0..n : k \in A
  <2> HIDE DEF A, n
  <2> QED BY <1>1, <1>4, <1>5, CountUp
<1>7. i - 1 \in 0..n /\ i \in 1..n
  BY <1>1
<1> DEFINE s == f[i - 1]
           t == seqs[i]
<1>8. /\ IsSeq(s) /\ IsSeq(t) /\ f[i] = Joined(s, t) /\ t = MessageToRig(target, history[i])
      /\ \A m \in Range(s) \cup Range(t) : IsSeq(m.content)
  <2>1. \A m \in Range(s) \cup Range(t) : IsWire(m)
    BY <1>2, <1>6, <1>7
  <2> QED BY <1>2, <1>3, <1>7, <2>1 DEF IsWire
<1> HIDE DEF s, t
<1>9. /\ CallsNamed(Joined(s, t), id) = Joined(CallsNamed(s, id), CallsNamed(t, id))
      /\ IsSeq(CallsNamed(s, id)) /\ IsSeq(CallsNamed(t, id))
  BY <1>8, CallsConcat
<1> QED BY <1>8, <1>9 DEF s

\* While only results follow, the last call with the id of an answered call is
\* that call, as it was projected.
LEMMA CallSent ==
  ASSUME NEW target, Accepted(target), NEW f, FlatSteps(f, Projected(target)),
         NEW at, at[1] \in DOMAIN history, at[2] \in DOMAIN history[at[1]].content,
         PartAt(history, at).kind = "ToolCall", Alone(at),
         NEW i \in at[1] + 1..Len(history), \A j \in at[1] + 1..i : IsAnswer(history[j])
  PROVE  LET said == PartAt(history, at).call
             calls == CallsNamed(f[i - 1], said.id)
         IN  calls # <<>> /\ Last(calls) = RigCall(said, MetadataAt(target, at))
<1> DEFINE n == Len(history)
           a == at[1]
           said == PartAt(history, at).call
           id == said.id
           D(k) == CallsNamed(f[k], id)
           own == CallsNamed(MessageToRig(target, history[a]), id)
           c == RigCall(said, MetadataAt(target, at))
<1>1. n \in Nat /\ DOMAIN history = 1..n /\ a \in 1..n
  BY SeqIs DEF Accepted
<1>2. \A k \in 1..n : Formed(history[k]) /\ MessageVerdict(target, history[k]) = "Ok"
  <2>1. \A k \in DOMAIN history : MessageVerdict(target, history[k]) = "Ok"
    BY ProjectionAccepted DEF Accepted
  <2> QED BY <1>1, <2>1 DEF Accepted
<1>3. \A k \in 1..n : LET rig == MessageToRig(target, history[k])
                      IN  IsSeq(rig) /\ \A j \in 1..Len(rig) : IsSeq(rig[j].content)
  BY ProjectedFacts DEF IsSeqs
<1>4. IsSeq(own) /\ Range(own) = {c}
  <2>1. history[a].role = "Assistant" => MetadataOnce(target, history[a])
    BY <1>1 DEF Accepted
  <2>2. Formed(history[a]) /\ MessageVerdict(target, history[a]) = "Ok"
    BY <1>1, <1>2
  <2>3. LET rig == MessageToRig(target, history[a])
        IN  IsSeq(rig) /\ \A j \in 1..Len(rig) : IsSeq(rig[j].content)
    BY <1>1, <1>3
  <2> QED BY <2>1, <2>2, <2>3, CallSaid
<1>5. ASSUME NEW k \in a + 1..i - 1 PROVE D(k) = D(k - 1)
  <2>1. k \in 1..n /\ k \in a + 1..i
    BY <1>1
  <2>2. IsAnswer(history[k])
    BY <2>1
  <2> DEFINE m == history[k]
             none == CallsNamed(MessageToRig(target, m), id)
  <2>3. /\ Formed(m) /\ MessageVerdict(target, m) = "Ok" /\ m.role # "Assistant"
        /\ LET rig == MessageToRig(target, m)
           IN  IsSeq(rig) /\ \A j \in 1..Len(rig) : IsSeq(rig[j].content)
    BY <1>2, <1>3, <2>1, <2>2 DEF IsAnswer
  <2>4. none = <<>>
    <3> HIDE DEF m, id
    <3> QED BY <2>3, NoCallSaid
  <2>5. D(k) = Joined(D(k - 1), none) /\ IsSeq(D(k - 1))
    <3> HIDE DEF id, n
    <3> QED BY <2>1, CallsAlong DEF n
  <2> HIDE DEF D, none
  <2> QED BY <2>4, <2>5, ConcatEmpty
<1> HIDE DEF D
<1> DEFINE A == {k \in 0..i - 1 - a : D(a + k) = D(a)}
<1>6. i \in Nat /\ a \in Nat /\ i - 1 - a \in Nat
  BY <1>1
<1>7. D(i - 1) = D(a)
  <2>1. 0 \in A
    BY <1>6
  <2>2. ASSUME NEW k \in 1..i - 1 - a, k - 1 \in A PROVE k \in A
    <3>1. a + k \in a + 1..i - 1 /\ a + k - 1 = a + (k - 1) /\ k \in 0..i - 1 - a
      BY <1>6
    <3>2. D(a + k) = D(a + (k - 1))
      BY <1>5, <3>1
    <3> QED BY <2>2, <3>1, <3>2
  <2>3. i - 1 - a \in 0..i - 1 - a /\ a + (i - 1 - a) = i - 1
    BY <1>6
  <2> DEFINE last == i - 1 - a
  <2>4. last \in Nat /\ last \in 0..last /\ a + last = i - 1
    BY <1>6, <2>3
  <2>5. 0 \in A /\ \A k \in 1..last : k - 1 \in A => k \in A
    BY <2>1, <2>2
  <2>6. last \in A
    <3> HIDE DEF A, last
    <3> QED BY <2>4, <2>5, CountUp
  <2>7. D(a + last) = D(a)
    BY <2>6
  <2> HIDE DEF last
  <2> QED BY <2>4, <2>7
<1>8. D(a) = Joined(D(a - 1), own) /\ IsSeq(D(a - 1))
  <2> HIDE DEF id, n, a
  <2> QED BY <1>1, CallsAlong DEF n, D
<1> HIDE DEF own, c
<1>9. D(a) # <<>> /\ Last(D(a)) = c
  <2> DEFINE before == D(a - 1)
             all == Joined(before, own)
  <2>1. Len(own) \in Nat /\ DOMAIN own = 1..Len(own) /\ Len(before) \in Nat
    BY <1>4, <1>8, SeqIs
  <2>2. own # <<>>
    BY <1>4, EmptyIsSeq
  <2>3. Len(own) > 0
    <3>1. Len(own) # 0
      <4>1. ASSUME Len(own) = 0 PROVE FALSE
        <5>1. DOMAIN own = {}
          BY <2>1, <4>1
        <5>2. Range(own) = {}
          BY <5>1 DEF Range
        <5> QED BY <1>4, <5>2
      <4> QED BY <4>1
    <3> QED BY <2>1, <3>1
  <2>4. own[Len(own)] = c
    <3>1. Len(own) \in DOMAIN own
      BY <2>1, <2>3
    <3>2. own[Len(own)] \in Range(own)
      BY <3>1 DEF Range
    <3> QED BY <1>4, <3>2
  <2> HIDE DEF before
  <2>5. /\ Len(all) = Len(before) + Len(own)
        /\ all[Len(before) + Len(own)] = own[Len(own)]
    <3>1. IsSeq(before)
      BY <1>8 DEF before
    <3>2. /\ Len(all) = Len(before) + Len(own)
          /\ \A k \in 1..Len(own) : all[Len(before) + k] = own[k]
      BY <1>4, <3>1, ConcatFacts
    <3>3. Len(own) \in 1..Len(own)
      BY <2>1, <2>3
    <3> QED BY <3>2, <3>3
  <2>6. D(a) = all
    BY <1>8 DEF before
  <2> HIDE DEF all
  <2>7. all[Len(all)] = c /\ Len(all) # 0
    BY <2>1, <2>3, <2>4, <2>5
  <2>8. all # <<>>
    BY <2>7, EmptyIsSeq
  <2> QED BY <2>6, <2>7, <2>8 DEF Last
<1> QED BY <1>7, <1>9 DEF D, c

\* A call, and nothing but results from there to a message.
FollowsCall(h, at, id, i) ==
  \E a \in 1..i - 1 : \E b \in DOMAIN h[a].content :
    /\ at = <<a, b>>
    /\ h[a].content[b].kind = "ToolCall" /\ h[a].content[b].call.id = id
    /\ \A j \in a + 1..i : IsAnswer(h[j])

\* A result of the host is a message of its own, has the id of the call it
\* answers, and between them are only results: so it is for the calls that wait.
AnswersInv ==
  /\ \A i \in DOMAIN history : \A k \in DOMAIN history[i].content :
       LET part == history[i].content[k]
       IN  part.kind = "ToolResult" /\ part.answers # Nil =>
             IsAnswer(history[i]) /\ FollowsCall(history, part.answers, part.call, i)
  /\ \A at \in Unanswered : \A j \in at[1] + 1..Len(history) : IsAnswer(history[j])

LEMMA AnswersInit == Init => AnswersInv
<1> SUFFICES ASSUME Init PROVE AnswersInv
  OBVIOUS
<1>1. DOMAIN history = {}
  BY EmptyIsSeq, SeqIs DEF Init
<1>2. HistoryInv
  BY FlowInit DEF FlowInv
<1>3. Unanswered = {}
  BY <1>1, <1>2, UnansweredFacts
<1> QED BY <1>1, <1>3 DEF AnswersInv

\* What a message more leaves as it is.
LEMMA AnswersKept ==
  ASSUME HistoryInv, AnswersInv, NEW message, Formed(message),
         history' = Append(history, message), session' = session
  PROVE  \A i \in DOMAIN history : \A k \in DOMAIN history'[i].content :
           LET part == history'[i].content[k]
           IN  part.kind = "ToolResult" /\ part.answers # Nil =>
                 IsAnswer(history'[i]) /\ FollowsCall(history', part.answers, part.call, i)
<1> DEFINE n == Len(history)
<1>1. /\ n \in Nat /\ DOMAIN history = 1..n
      /\ \A i \in DOMAIN history : i \in DOMAIN history' /\ history'[i] = history[i]
  BY HistoryMore
<1> HIDE DEF n
<1> SUFFICES ASSUME NEW i \in DOMAIN history, NEW k \in DOMAIN history'[i].content,
                    history'[i].content[k].kind = "ToolResult",
                    history'[i].content[k].answers # Nil
             PROVE  /\ IsAnswer(history'[i])
                    /\ FollowsCall(history', history'[i].content[k].answers,
                                   history'[i].content[k].call, i)
  OBVIOUS
<1> DEFINE part == history[i].content[k]
<1>2. /\ k \in DOMAIN history[i].content /\ part = history'[i].content[k]
      /\ part.kind = "ToolResult" /\ part.answers # Nil
  BY <1>1
<1>3. IsAnswer(history[i]) /\ FollowsCall(history, part.answers, part.call, i)
  BY <1>2 DEF AnswersInv
<1>4. FollowsCall(history', part.answers, part.call, i)
  <2> DEFINE Follows(a, b) ==
               /\ part.answers = <<a, b>>
               /\ history[a].content[b].kind = "ToolCall"
               /\ history[a].content[b].call.id = part.call
               /\ \A j \in a + 1..i : IsAnswer(history[j])
  <2>1. PICK a \in 1..i - 1 : \E b \in DOMAIN history[a].content : Follows(a, b)
    BY <1>3 DEF FollowsCall
  <2>2. PICK b \in DOMAIN history[a].content : Follows(a, b)
    BY <2>1
  <2> HIDE DEF part
  <2>3. a \in DOMAIN history /\ \A j \in a + 1..i : j \in DOMAIN history
    BY <1>1
  <2>4. history'[a] = history[a] /\ \A j \in a + 1..i : IsAnswer(history'[j])
    BY <1>1, <2>2, <2>3
  <2> QED BY <2>2, <2>4 DEF FollowsCall
<1> QED BY <1>1, <1>2, <1>3, <1>4

LEMMA AnswersStep ==
  ASSUME FlowInv, AnswersInv, [Next]_vars
  PROVE  AnswersInv'
<1> DEFINE n == Len(history)
<1>1. Grows
  BY HistoryGrows
<1>2. HistoryInv
  BY DEF FlowInv
<1>3. CASE history' = history
  BY <1>3 DEF AnswersInv, Unanswered
<1>4. ASSUME NEW message, Formed(message), history' = Append(history, message),
             session' = session, Unanswered = {},
             \A part \in Range(message.content) : part.kind = "ToolResult" => part.answers = Nil
      PROVE  AnswersInv'
  <2>1. /\ HistoryInv' /\ n \in Nat /\ Len(history') = n + 1
        /\ \A i \in DOMAIN history : i \in DOMAIN history' /\ history'[i] = history[i]
        /\ history'[n + 1] = message
        /\ DOMAIN history = 1..n /\ DOMAIN history' = 1..n + 1
    BY <1>2, <1>4, HistoryMore
  <2>2. \A i \in DOMAIN history : \A k \in DOMAIN history'[i].content :
          LET part == history'[i].content[k]
          IN  part.kind = "ToolResult" /\ part.answers # Nil =>
                IsAnswer(history'[i]) /\ FollowsCall(history', part.answers, part.call, i)
    BY <1>2, <1>4, AnswersKept
  <2> HIDE DEF n
  <2>3. \A k \in DOMAIN history'[n + 1].content :
          history'[n + 1].content[k].kind = "ToolResult" =>
            history'[n + 1].content[k].answers = Nil
    BY <1>4, <2>1 DEF Range
  <2>4. ASSUME NEW x \in Unanswered' PROVE x[1] = n + 1
    <3>1. /\ \E i \in DOMAIN history' : \E k \in DOMAIN history'[i].content : x = <<i, k>>
          /\ PartAt(history', x).kind = "ToolCall"
          /\ \A i \in DOMAIN history' : \A k \in DOMAIN history'[i].content :
               history'[i].content[k].kind = "ToolResult" => history'[i].content[k].answers # x
      BY <2>1, <2>4, UnansweredLater
    <3>2. PICK i \in DOMAIN history' : \E k \in DOMAIN history'[i].content : x = <<i, k>>
      BY <3>1
    <3>3. PICK k \in DOMAIN history'[i].content : x = <<i, k>>
      BY <3>2
    <3>4. ASSUME i \in DOMAIN history PROVE FALSE
      <4>1. k \in DOMAIN history[i].content /\ PartAt(history, x).kind = "ToolCall"
        BY <2>1, <3>1, <3>3, <3>4 DEF PartAt
      <4>2. \A j \in DOMAIN history : \A l \in DOMAIN history[j].content :
              history[j].content[l].kind = "ToolResult" => history[j].content[l].answers # x
        BY <2>1, <3>1
      <4>3. x \in Unanswered
        BY <1>2, <3>3, <3>4, <4>1, <4>2, UnansweredFacts
      <4> QED BY <1>4, <4>3
    <3> QED BY <2>1, <3>3, <3>4
  <2>5. \A at \in Unanswered' : at[1] + 1..Len(history') = {}
    BY <2>1, <2>4
  <2>6. \A at \in Unanswered' : \A j \in at[1] + 1..Len(history') : IsAnswer(history'[j])
    BY <2>5
  <2>7. \A i \in DOMAIN history' : i \in DOMAIN history \/ i = n + 1
    BY <2>1
  <2> QED BY <2>2, <2>3, <2>6, <2>7 DEF AnswersInv
<1>5. ASSUME NEW at \in Unanswered, NEW value, NEW isError, session' = session,
             history' = Append(history, Result(at, value, isError))
      PROVE  AnswersInv'
  <2> DEFINE message == Result(at, value, isError)
             part == message.content[1]
  <2>1. HistoryInv' /\ Unanswered' = Unanswered \ {at}
    BY <1>2, <1>5, ResultAnswers
  <2>2. /\ message = Message("Tool", message.content) /\ message.content = <<part>>
        /\ part = ResultPart(PartAt(history, at).call.id, value, isError, at)
    BY DEF Result, Message
  <2>3. /\ part.kind = "ToolResult" /\ part.answers = at /\ part.call = PartAt(history, at).call.id
        /\ IsAnswer(message) /\ DOMAIN message.content = {1}
    BY <2>2 DEF ResultPart, Message, IsAnswer
  <2>4. Formed(message)
    <3>1. FormedPart(part)
      BY <2>2 DEF FormedPart, ResultPart
    <3> HIDE DEF part, message
    <3> QED BY <2>2, <3>1, OneIsSeq DEF Formed, Message, Roles
  <2>5. /\ n \in Nat /\ Len(history') = n + 1
        /\ \A i \in DOMAIN history : i \in DOMAIN history' /\ history'[i] = history[i]
        /\ history'[n + 1] = message
        /\ DOMAIN history = 1..n /\ DOMAIN history' = 1..n + 1
    <3>1. history' = Append(history, message)
      BY <1>5
    <3> HIDE DEF message
    <3> QED BY <1>2, <1>5, <2>4, <3>1, HistoryMore
  <2>6. \A i \in DOMAIN history : \A k \in DOMAIN history'[i].content :
          LET p == history'[i].content[k]
          IN  p.kind = "ToolResult" /\ p.answers # Nil =>
                IsAnswer(history'[i]) /\ FollowsCall(history', p.answers, p.call, i)
    <3>1. history' = Append(history, message)
      BY <1>5
    <3> HIDE DEF message
    <3> QED BY <1>2, <1>5, <2>4, <3>1, AnswersKept
  <2> HIDE DEF message, n
  <2>7. \A x \in Unanswered : \A j \in x[1] + 1..n + 1 : IsAnswer(history'[j])
    <3> SUFFICES ASSUME NEW x \in Unanswered, NEW j \in x[1] + 1..n + 1 PROVE IsAnswer(history'[j])
      OBVIOUS
    <3>1. x[1] \in 1..n
      BY <1>2, <2>5, UnansweredFacts
    <3>2. CASE j = n + 1
      BY <2>3, <2>5, <3>2
    <3>3. CASE j # n + 1
      <4>1. j \in x[1] + 1..n /\ j \in DOMAIN history
        BY <2>5, <3>1, <3>3
      <4>2. IsAnswer(history[j])
        BY <4>1 DEF AnswersInv, n
      <4> QED BY <2>5, <4>1, <4>2
    <3> QED BY <3>2, <3>3
  <2>8. FollowsCall(history', at, part.call, n + 1)
    <3>1. PICK a \in DOMAIN history : \E b \in DOMAIN history[a].content : at = <<a, b>>
      BY <1>2, UnansweredFacts
    <3>2. PICK b \in DOMAIN history[a].content : at = <<a, b>>
      BY <3>1
    <3>3. PartAt(history, at) = history[a].content[b] /\ PartAt(history, at).kind = "ToolCall"
      BY <1>2, <3>2, UnansweredFacts DEF PartAt
    <3>4. a \in 1..(n + 1) - 1 /\ history'[a] = history[a] /\ at[1] = a
      BY <2>5, <3>2
    <3>5. \A j \in a + 1..n + 1 : IsAnswer(history'[j])
      BY <2>7, <3>4
    <3> QED BY <2>3, <3>2, <3>3, <3>4, <3>5 DEF FollowsCall
  <2>9. \A i \in DOMAIN history' : i \in DOMAIN history \/ i = n + 1
    BY <2>5
  <2>10. \A k \in DOMAIN history'[n + 1].content :
           /\ IsAnswer(history'[n + 1])
           /\ FollowsCall(history', history'[n + 1].content[k].answers,
                          history'[n + 1].content[k].call, n + 1)
    BY <2>3, <2>5, <2>8
  <2> QED BY <2>1, <2>5, <2>6, <2>7, <2>9, <2>10 DEF AnswersInv
<1>6. ASSUME NEW message \in Here.messages, history' = Append(history, message),
             session' = session, Unanswered = {}
      PROVE  AnswersInv'
  <2>1. IsMessage(message)
    BY <1>2, <1>6, MessagesAssumption DEF Here, HistoryInv
  <2>2. \A part \in Range(message.content) : part.kind = "ToolResult" => part.answers = Nil
    BY <2>1 DEF IsMessage, IsPart, TextContent, ToolContent, ResultPart
  <2> QED BY <1>4, <1>6, <2>1, <2>2, SaidIsFormed
<1>7. ASSUME NEW raw \in Here.answers, session' = session, Unanswered = {},
             history' = Append(history, Message("Assistant",
                                          ResponseContent(call.bridge.provider, raw)))
      PROVE  AnswersInv'
  <2> DEFINE content == ResponseContent(call.bridge.provider, raw)
             message == Message("Assistant", content)
  <2>1. Formed(message) /\ \A part \in Range(content) : part.kind # "ToolResult"
    BY <1>2, <1>7, RespondedIsFormed DEF HistoryInv
  <2>2. message.content = content /\ history' = Append(history, message)
    BY <1>7 DEF Message
  <2> HIDE DEF content, message
  <2> QED BY <1>4, <1>7, <2>1, <2>2
<1> QED BY <1>1, <1>3, <1>5, <1>6, <1>7 DEF Grows

\* Where a part on the wire is from: the part it was before results were paired,
\* in the y-th message that the i-th of the history became.
WireFrom(target, f, part, q, i, y) ==
  LET rig == MessageToRig(target, history[i])
  IN  /\ i \in 1..Len(history) /\ y \in 1..Len(rig)
      /\ q \in Range(rig[y].content) /\ IsWirePart(q)
      /\ LET j == Len(f[i - 1]) + y
             all == FlattenSeq(Projected(target))
         IN  /\ part = Paired(all, j, q)
             /\ SubSeq(all, 1, Len(f[i - 1])) = f[i - 1]
             /\ Len(f[i - 1]) \in Nat

LEMMA WirePlaces ==
  ASSUME NEW target, Accepted(target), NEW f, FlatSteps(f, Projected(target)),
         NEW part \in Range(PartsOf(MessagesToRig(target, history)))
  PROVE  \E q, i, y : WireFrom(target, f, part, q, i, y)
<1> DEFINE seqs == Projected(target)
           all == FlattenSeq(seqs)
           W == PairResults(all)
<1>1. MessagesToRig(target, history) = W
  BY DEF MessagesToRig, Projected
<1>2. /\ IsSeqs(seqs) /\ Len(seqs) = Len(history)
      /\ \A i \in 1..Len(history) : /\ seqs[i] = MessageToRig(target, history[i])
                                    /\ \A m \in Range(seqs[i]) : IsWire(m)
  BY ProjectedFacts
<1>3. IsSeq(all) /\ \A m \in Range(all) : IsWire(m)
  <2> HIDE DEF seqs
  <2>1. IsSeq(all) /\ Range(all) = UNION {Range(seqs[i]) : i \in 1..Len(seqs)}
    BY <1>2, FlattenFacts
  <2> HIDE DEF all
  <2> QED BY <1>2, <2>1
<1>4. Lands(f, seqs, all)
  <2>1. FlatSteps(f, seqs)
    OBVIOUS
  <2> HIDE DEF seqs
  <2> QED BY <1>2, <2>1, FlattenPlaces
<1>5. \A i \in 1..Len(history) : Len(f[i - 1]) \in Nat
  <2>1. \A k \in 0..Len(seqs) : IsSeq(f[k])
    BY DEF FlatSteps
  <2>2. Len(history) \in Nat
    BY SeqIs DEF Accepted
  <2> HIDE DEF seqs
  <2>3. \A i \in 1..Len(history) : IsSeq(f[i - 1])
    BY <1>2, <2>1, <2>2
  <2> QED BY <2>3, SeqIs
<1> HIDE DEF seqs, all
<1>6. /\ IsSeq(W) /\ Len(W) = Len(all)
      /\ \A j \in 1..Len(all) :
           /\ IsSeq(all[j].content) /\ IsSeq(W[j].content)
           /\ Len(W[j].content) = Len(all[j].content)
           /\ \A k \in 1..Len(all[j].content) :
                /\ IsWirePart(all[j].content[k])
                /\ W[j].content[k] = Paired(all, j, all[j].content[k])
  BY <1>3, PairedFacts
<1> HIDE DEF W
<1>7. Range(PartsOf(W)) = UNION {Range(W[j].content) : j \in 1..Len(W)}
  <2> DEFINE C == [m \in Range(W) |-> m.content]
  <2>1. \A m \in Range(W) : C[m] = m.content
    OBVIOUS
  <2>2. \A j \in 1..Len(W) : IsSeq(W[j].content)
    BY <1>6
  <2> HIDE DEF C
  <2> QED BY <1>6, <2>1, <2>2, PartsAre
<1>8. PICK j \in 1..Len(all) : part \in Range(W[j].content)
  BY <1>1, <1>6, <1>7
<1>9. PICK k \in 1..Len(all[j].content) : part = W[j].content[k]
  <2>1. DOMAIN W[j].content = 1..Len(all[j].content)
    BY <1>6, SeqIs
  <2> QED BY <1>8, <2>1 DEF Range
<1> DEFINE q == all[j].content[k]
<1>10. /\ part = Paired(all, j, q) /\ IsWirePart(q) /\ q \in Range(all[j].content)
  <2>1. k \in DOMAIN all[j].content
    BY <1>6, SeqIs
  <2> QED BY <1>6, <1>9, <2>1 DEF Range
<1>11. PICK i \in 1..Len(seqs) : \E y \in 1..Len(seqs[i]) :
        /\ j = Len(f[i - 1]) + y /\ all[j] = seqs[i][y]
        /\ SubSeq(all, 1, Len(f[i - 1])) = f[i - 1]
  BY <1>4 DEF Lands
<1>12. PICK y \in 1..Len(seqs[i]) :
        /\ j = Len(f[i - 1]) + y /\ all[j] = seqs[i][y]
        /\ SubSeq(all, 1, Len(f[i - 1])) = f[i - 1]
  BY <1>11
<1> HIDE DEF q
<1>13. /\ i \in 1..Len(history) /\ seqs[i] = MessageToRig(target, history[i])
       /\ Len(f[i - 1]) \in Nat
  BY <1>2, <1>5
<1>14. WireFrom(target, f, part, q, i, y)
  BY <1>10, <1>12, <1>13 DEF WireFrom, all, seqs, q
<1> QED BY <1>14

\* A result on the wire, with what it says of its call.
LEMMA ResultFrom ==
  ASSUME NEW target, Accepted(target), HistoryInv, AnswersInv,
         NEW f, FlatSteps(f, Projected(target)),
         NEW part, NEW q, NEW i, NEW y, WireFrom(target, f, part, q, i, y),
         part.type = "ToolResult", part.answers # Nil, Alone(part.answers)
  PROVE  LET said == PartAt(history, part.answers).call
         IN  part.name = said.name /\ part.identity = IdentityAt(target, part.answers)
<1> DEFINE rig == MessageToRig(target, history[i])
           all == FlattenSeq(Projected(target))
           j == Len(f[i - 1]) + y
           at == part.answers
           said == PartAt(history, at).call
<1>1. /\ i \in 1..Len(history) /\ y \in 1..Len(rig)
      /\ q \in Range(rig[y].content) /\ IsWirePart(q) /\ part = Paired(all, j, q)
      /\ SubSeq(all, 1, Len(f[i - 1])) = f[i - 1] /\ Len(f[i - 1]) \in Nat
  BY DEF WireFrom
<1>2. q.type = "ToolResult" /\ part.answers = q.answers
  <2> HIDE DEF all, j
  <2> QED BY <1>1, PairedPart
<1>3. Formed(history[i]) /\ MessageVerdict(target, history[i]) = "Ok"
  <2>1. DOMAIN history = 1..Len(history)
    BY SeqIs DEF Accepted
  <2>2. \A k \in DOMAIN history : MessageVerdict(target, history[k]) = "Ok"
    BY ProjectionAccepted DEF Accepted
  <2> QED BY <1>1, <2>1, <2>2 DEF Accepted
<1>4. IsSeq(rig) /\ DOMAIN rig = 1..Len(rig)
  <2>1. Projected(target)[i] = rig /\ IsSeq(Projected(target)[i])
    BY <1>1, ProjectedFacts DEF IsSeqs
  <2> QED BY <2>1, SeqIs
<1>5. history[i].role # "Assistant"
  <2> SUFFICES ASSUME history[i].role = "Assistant" PROVE FALSE
    OBVIOUS
  <2> DEFINE m == history[i]
             replay == Replay(Keeps(target), Forwarded(target, m.content))
  <2>1. /\ IsReplay(replay)
        /\ UNION {Range(rig[l].content) : l \in 1..Len(rig)} = Range(replay.rig)
    BY <1>3, AssistantParts
  <2>2. q \in Range(replay.rig)
    <3> HIDE DEF replay, rig
    <3> QED BY <1>1, <2>1
  <2>3. IsRigPart(q)
    <3> HIDE DEF replay
    <3> QED BY <2>1, <2>2 DEF IsReplay
  <2> QED BY <1>2, <2>3 DEF IsRigPart
<1>6. PICK p \in Range(history[i].content) :
        p.kind \in {"Text", "ToolResult"} /\ q = RigPart(p)
  <2> DEFINE m == history[i]
  <2>1. \A l \in DOMAIN rig : \A x \in Range(rig[l].content) :
          \E p \in Range(m.content) : p.kind \in {"Text", "ToolResult"} /\ x = RigPart(p)
    BY <1>3, <1>5, OtherParts
  <2> QED BY <1>1, <1>4, <2>1
<1>7. /\ p.kind = "ToolResult" /\ q = RigResult(p) /\ q.answers = p.answers /\ q.call = p.call
  <2>1. p.kind = "ToolResult"
    BY <1>2, <1>6 DEF RigPart, RigText
  <2> QED BY <1>6, <2>1 DEF RigPart, RigResult
<1>8. PICK k \in DOMAIN history[i].content : p = history[i].content[k]
  BY DEF Range
<1>9. IsAnswer(history[i]) /\ FollowsCall(history, at, q.call, i)
  <2>1. i \in DOMAIN history
    BY <1>1, SeqIs DEF HistoryInv
  <2>2. p.kind = "ToolResult" /\ p.answers # Nil /\ at = p.answers /\ q.call = p.call
    BY <1>2, <1>7
  <2> HIDE DEF at
  <2> QED BY <1>8, <2>1, <2>2 DEF AnswersInv
<1>10. y = 1
  <2>1. history[i].role = "Tool"
    BY <1>9 DEF IsAnswer
  <2>2. Len(rig) \in 0..1
    BY <1>3, <2>1, OtherParts
  <2> QED BY <1>1, <2>2
<1>11. SubSeq(all, 1, j - 1) = f[i - 1]
  <2>1. j - 1 = Len(f[i - 1])
    BY <1>1, <1>10
  <2> HIDE DEF j, all
  <2> QED BY <1>1, <2>1
<1>12. /\ at[1] \in DOMAIN history /\ at[2] \in DOMAIN history[at[1]].content
       /\ PartAt(history, at).kind = "ToolCall" /\ said.id = q.call
       /\ i \in at[1] + 1..Len(history) /\ \A l \in at[1] + 1..i : IsAnswer(history[l])
  <2> HIDE DEF at
  <2> DEFINE Follows(a, b) == /\ at = <<a, b>>
                              /\ history[a].content[b].kind = "ToolCall"
                              /\ history[a].content[b].call.id = q.call
                              /\ \A l \in a + 1..i : IsAnswer(history[l])
  <2>1. PICK a \in 1..i - 1 : \E b \in DOMAIN history[a].content : Follows(a, b)
    BY <1>9 DEF FollowsCall
  <2>2. PICK b \in DOMAIN history[a].content : Follows(a, b)
    BY <2>1
  <2>3. at[1] = a /\ at[2] = b /\ PartAt(history, at) = history[a].content[b]
    BY <2>2 DEF PartAt
  <2>4. DOMAIN history = 1..Len(history) /\ Len(history) \in Nat
    BY SeqIs DEF HistoryInv
  <2>5. a \in 1..Len(history) /\ i \in a + 1..Len(history)
    BY <1>1, <2>4
  <2> QED BY <2>2, <2>3, <2>4, <2>5
<1> DEFINE calls == CallsNamed(f[i - 1], q.call)
           c == RigCall(said, MetadataAt(target, at))
<1>13. calls # <<>> /\ Last(calls) = c
  <2>1. LET s == PartAt(history, at).call
            cs == CallsNamed(f[i - 1], s.id)
        IN  cs # <<>> /\ Last(cs) = RigCall(s, MetadataAt(target, at))
    <3>1. Alone(at)
      OBVIOUS
    <3> HIDE DEF at
    <3> QED BY <1>12, <3>1, CallSent
  <2> QED BY <1>12, <2>1
<1>14. part = [q EXCEPT !.name = Last(calls).call.name, !.identity = Identity(Last(calls))]
  <2> HIDE DEF j, all
  <2> QED BY <1>1, <1>2, <1>11, <1>13 DEF Paired
<1>15. part.name = Last(calls).call.name /\ part.identity = Identity(Last(calls))
  <2>1. DOMAIN q = {"type", "call", "name", "identity", "value", "answers"}
    BY <1>7 DEF RigResult
  <2> HIDE DEF calls, all, j
  <2> QED BY <1>14, <2>1
<1>16. c.call = said /\ c.meta = MetadataAt(target, at)
  BY DEF RigCall
<1>17. Identity(c) = IdentityAt(target, at)
  <2> HIDE DEF c
  <2> QED BY <1>16 DEF Identity, IdentityAt
<1> HIDE DEF c, calls
<1> QED BY <1>13, <1>15, <1>16, <1>17

LEMMA ResultsName ==
  ASSUME FlowInv, WireInv, SourceInv, AnswersInv
  PROVE  ResultsNameTheirCalls
<1> SUFFICES ASSUME call # Nil, SaidOnce(call.bridge.provider),
                    NEW part \in Range(PartsOf(call.wire.messages)),
                    part.type = "ToolResult", part.answers # Nil, Alone(part.answers)
             PROVE  /\ part.name = PartAt(history, part.answers).call.name
                    /\ part.identity = IdentityAt(call.bridge.provider, part.answers)
  BY DEF ResultsNameTheirCalls
<1> DEFINE target == call.bridge.provider
<1>1. Accepted(target) /\ call.wire.messages = MessagesToRig(target, history)
  BY AcceptedCall
<1> HIDE DEF target
<1>2. PICK f : FlatSteps(f, Projected(target))
  BY <1>1, ProjectedFacts, FlattenIs
<1>3. \E q, i, y : WireFrom(target, f, part, q, i, y)
  BY <1>1, <1>2, WirePlaces
<1>4. PICK q, i, y : WireFrom(target, f, part, q, i, y)
  BY <1>3
<1>5. HistoryInv
  BY DEF FlowInv
<1> QED BY <1>1, <1>2, <1>4, <1>5, ResultFrom DEF target

\* The result the host gave for a call arrives as a result of that call: with its
\* name and with the identity the provider knows it by, whatever ids the calls of
\* other messages have, in whichever order tools end and whoever is asked next.
THEOREM ResultsKeepTheirCalls == Spec => []ResultsNameTheirCalls
<1>1. Init => FlowInv /\ WireInv /\ SourceInv /\ AnswersInv
  BY FlowInit, WireInit, SourceInit, AnswersInit
<1>2. FlowInv /\ WireInv /\ SourceInv /\ AnswersInv /\ [Next]_vars
        => (FlowInv /\ WireInv /\ SourceInv /\ AnswersInv)'
  BY FlowStep, WireStep, SourceStep, AnswersStep
<1>3. FlowInv /\ WireInv /\ SourceInv /\ AnswersInv => ResultsNameTheirCalls
  BY ResultsName
<1> QED BY <1>1, <1>2, <1>3, PTL DEF Spec

-----------------------------------------------------------------------------
(* No dead end.                                                            *)

\* Every bridge passed the checks of its configuration.
BuiltInv == \A config \in bridges : BuildVerdict(config) = "Ok"

LEMMA BuiltInit == Init => BuiltInv
  BY DEF Init, BuiltInv

LEMMA BuiltStep == BuiltInv /\ [Next]_vars => BuiltInv'
<1> SUFFICES ASSUME BuiltInv, [Next]_vars PROVE BuiltInv'
  OBVIOUS
<1>1. CASE UNCHANGED bridges
  BY <1>1 DEF BuiltInv
<1>2. ASSUME NEW config, Build(config) PROVE BuiltInv'
  BY <1>2 DEF Build, BuiltInv
<1>3. ASSUME NEW message, Say(message) PROVE BuiltInv'
  BY <1>1, <1>3 DEF Say
<1>4. ASSUME NEW config, NEW asked, Send(config, asked) PROVE BuiltInv'
  BY <1>1, <1>4 DEF Send
<1>5. ASSUME NEW raw, Respond(raw) PROVE BuiltInv'
  BY <1>1, <1>5 DEF Respond
<1>6. ASSUME NEW error, Fail(error) PROVE BuiltInv'
  BY <1>1, <1>6 DEF Fail
<1>7. CASE Cancel
  BY <1>1, <1>7 DEF Cancel
<1>8. ASSUME NEW at, StartTool(at) PROVE BuiltInv'
  BY <1>1, <1>8 DEF StartTool
<1>9. ASSUME NEW at, NEW isError, UnknownTool(at, isError) PROVE BuiltInv'
  BY <1>1, <1>9 DEF UnknownTool
<1>10. ASSUME NEW execution, FinishTool(execution) PROVE BuiltInv'
  BY <1>1, <1>10 DEF FinishTool
<1>11. ASSUME NEW execution, NEW error, NEW isError, FailTool(execution, error, isError)
       PROVE  BuiltInv'
  BY <1>1, <1>11 DEF FailTool
<1>12. ASSUME NEW tool, RegisterTool(tool) \/ RefuseTool(tool) PROVE BuiltInv'
  BY <1>1, <1>12 DEF RegisterTool, RefuseTool
<1>13. ASSUME NEW name, UnregisterTool(name) PROVE BuiltInv'
  BY <1>1, <1>13 DEF UnregisterTool
<1>14. CASE UNCHANGED vars
  BY <1>1, <1>14 DEF vars
<1> QED BY <1>2, <1>3, <1>4, <1>5, <1>6, <1>7, <1>8, <1>9, <1>10, <1>11, <1>12, <1>13,
           <1>14 DEF Next

\* What a configuration that was taken passed.
LEMMA BuiltPassed ==
  ASSUME NEW config, BuildVerdict(config) = "Ok"
  PROVE  /\ config.provider = "anthropic" => config.defaults.seed = Nil
         /\ CapabilitiesVerdict(CapabilitiesOf(config.provider, config.model)) = "Ok"
         /\ ControlsVerdict(config.provider, config.model, config.defaults, Nil) = "Ok"
<1> DEFINE vs == <<ResolveVerdict(config), DriverVerdict(config), NewVerdict(config)>>
           V == {vs[i] : i \in 1..3}
<1>1. vs \in Seq(V) /\ DOMAIN vs = 1..3
  OBVIOUS
<1>2. FirstError(vs) = "Ok"
  BY DEF BuildVerdict
<1>3. vs[2] = "Ok" /\ vs[3] = "Ok"
  <2> HIDE DEF vs, V
  <2> QED BY <1>1, <1>2, EveryCheckPasses
<1>4. config.provider = "anthropic" => config.defaults.seed = Nil
  BY <1>3 DEF DriverVerdict, Configured, Asserts, AnthropicConfig, OpenAiLike
<1> DEFINE able == CapabilitiesVerdict(CapabilitiesOf(config.provider, config.model))
           sound == ControlsVerdict(config.provider, config.model, config.defaults, Nil)
           ws == <<able, Configured(sound = "Ok")>>
           W == {ws[i] : i \in 1..2}
<1>5. FirstError(ws) = "Ok"
  BY <1>3 DEF NewVerdict
<1> HIDE DEF able, sound
<1>6. ws \in Seq(W) /\ DOMAIN ws = 1..2
  OBVIOUS
<1>7. ws[1] = "Ok" /\ ws[2] = "Ok"
  <2> HIDE DEF ws, W
  <2> QED BY <1>5, <1>6, EveryCheckPasses
<1>8. able = "Ok" /\ sound = "Ok"
  BY <1>7 DEF Configured, Asserts
<1> QED BY <1>4, <1>8 DEF able, sound

\* A chain of checks that all pass.
LEMMA AllPass ==
  ASSUME NEW vs \in Seq({"Ok"})
  PROVE  FirstError(vs) = "Ok"
  BY FirstErrorFacts DEF Passed

\* Where nothing is asked for the defaults stand.
LEMMA DefaultsStand ==
  ASSUME NEW defaults \in Options
  PROVE  Merge(defaults, NoOptions) = defaults
<1>1. /\ DOMAIN NoOptions = {"temperature", "max", "stop", "seed", "thinking", "effort"}
      /\ \A f \in DOMAIN NoOptions : f # "stop" => NoOptions[f] = Nil
      /\ NoOptions.stop = <<>>
  BY DEF NoOptions
<1>2. defaults = [f \in DOMAIN NoOptions |-> defaults[f]]
  BY <1>1 DEF Options
<1>3. Merge(defaults, NoOptions) = [f \in DOMAIN NoOptions |-> defaults[f]]
  <2>1. \A f \in DOMAIN NoOptions :
          (IF f = "stop" THEN (IF NoOptions.stop = <<>> THEN defaults.stop ELSE NoOptions.stop)
           ELSE Or(NoOptions[f], defaults[f])) = defaults[f]
    BY <1>1 DEF Or
  <2> HIDE DEF NoOptions
  <2> QED BY <2>1 DEF Merge
<1> QED BY <1>2, <1>3

\* A plain request asks for nothing but what the defaults ask for.
LEMMA PlainIsAble ==
  ASSUME NEW config, BuildVerdict(config) = "Ok",
         \A i \in DOMAIN history : history[i].role # "Developer"
  PROVE  LET seen == View(PlainRequest, config.defaults)
         IN  /\ PrepareVerdict(seen) = "Ok"
             /\ RequestVerdict(CapabilitiesOf(config.provider, config.model), seen) = "Ok"
<1> DEFINE o == config.defaults
           seen == View(PlainRequest, o)
           caps == CapabilitiesOf(config.provider, config.model)
<1>1. /\ seen.thinking = Or(Mode(o), "default") /\ seen.effort = Or(Effort(o), "default")
      /\ seen.choice = "unset" /\ seen.format = "text"
      /\ seen.roles \subseteq {"system_message"}
  <2>1. PlainRequest.choice = Nil /\ PlainRequest.format = Nil /\ PlainRequest.messages = history
    BY DEF PlainRequest, RequestOf
  <2>2. ~Speaks(PlainRequest.messages, "Developer")
    BY <2>1 DEF Speaks
  <2> QED BY <2>1, <2>2 DEF View
<1>2. /\ CapabilitiesVerdict(caps) = "Ok"
      /\ {Mode(o), Effort(o)} \ {Nil} \subseteq Reasoning(config.provider, config.model)
  BY BuiltPassed, ControlsAccepted
<1>3. /\ Reasoning(config.provider, config.model) \subseteq caps
      /\ "tool_calling" \in caps /\ "system_message" \in caps
  BY DEF CapabilitiesOf
<1> HIDE DEF seen, caps, o
<1>4. {seen.thinking, seen.effort} \ {"default"} \subseteq caps
  BY <1>1, <1>2, <1>3 DEF Or
<1> DEFINE c1 == CapabilitiesVerdict(caps)
           c2 == Needs(caps, {seen.thinking, seen.effort} \ {"default"})
           c3 == IF UsesTools(seen) THEN Needs(caps, {"tool_calling"}) ELSE "Ok"
           c4 == ChoiceVerdict(seen)
           c5 == Needs(caps, {seen.choice} \ {"unset"})
           c6 == Needs(caps, {seen.format} \ {"text"})
           c7 == Needs(caps, seen.roles)
<1>5. c1 = "Ok" /\ c2 = "Ok" /\ c3 = "Ok" /\ c4 = "Ok" /\ c5 = "Ok" /\ c6 = "Ok" /\ c7 = "Ok"
  BY <1>1, <1>2, <1>3, <1>4 DEF Needs, ChoiceVerdict
<1>6. RequestVerdict(caps, seen) = FirstError(<<c1, c2, c3, c4, c5, c6, c7>>)
  BY DEF RequestVerdict
<1>7. RequestVerdict(caps, seen) = "Ok"
  <2> HIDE DEF c1, c2, c3, c4, c5, c6, c7
  <2>1. <<c1, c2, c3, c4, c5, c6, c7>> \in Seq({"Ok"})
    BY <1>5
  <2> QED BY <1>6, <2>1, AllPass
<1>8. PrepareVerdict(seen) = "Ok"
  BY <1>1 DEF PrepareVerdict
<1> QED BY <1>7, <1>8 DEF seen, caps, o

\* The replay of a message succeeds part by part.
LEMMA ReplaySucceeds ==
  ASSUME NEW target, NEW parts, IsSeq(parts),
         \A part \in Range(parts) :
           /\ FormedPart(part) /\ part.kind # "ToolResult"
           /\ IsData(part) =>
                /\ part.data \in ReplayKinds
                /\ part.data = "reasoning" => Replayable(Keeps(target), part.value)
                /\ IsMetadata(part) => WellFormedMetadata(part.value),
         Attached(parts)
  PROVE  Replay(Keeps(target), parts).verdict = "Ok"
<1> DEFINE n == Len(parts)
           keeps == Keeps(target)
<1>1. n \in Nat /\ DOMAIN parts = 1..n
  BY SeqIs
<1>2. PICK acc : /\ acc[0] = NoReplay
                 /\ \A k \in 1..n : acc[k] = ReplayPart(keeps, acc[k - 1], parts[k])
                 /\ Replay(keeps, parts) = acc[n]
  BY ReplayIs
<1> HIDE DEF keeps
<1> DEFINE Ends(k) == acc[k].rig # <<>> /\ Last(acc[k].rig).type = "ToolCall"
           A == {k \in 0..n : /\ IsReplay(acc[k]) /\ acc[k].verdict = "Ok"
                              /\ k > 0 /\ parts[k].kind = "ToolCall" => Ends(k)}
<1>3. 0 \in A
  <2>1. IsReplay(NoReplay) /\ NoReplay.verdict = "Ok"
    BY EmptyIsSeq DEF NoReplay, IsReplay, ReplayVerdicts
  <2> QED BY <1>1, <1>2, <2>1
<1>4. ASSUME NEW k \in 1..n, k - 1 \in A PROVE k \in A
  <2> DEFINE r == acc[k - 1]
             x == parts[k]
             q == acc[k]
  <2>1. /\ k \in 0..n /\ IsReplay(r) /\ r.verdict = "Ok" /\ q = ReplayPart(keeps, r, x)
        /\ k - 1 > 0 /\ parts[k - 1].kind = "ToolCall" => Ends(k - 1)
    BY <1>1, <1>2, <1>4
  <2>2. /\ x \in Range(parts) /\ k \in DOMAIN parts
    BY <1>1 DEF Range
  <2>3. /\ FormedPart(x) /\ x.kind # "ToolResult"
        /\ IsData(x) =>
             /\ x.data \in ReplayKinds
             /\ x.data = "reasoning" => Replayable(Keeps(target), x.value)
             /\ IsMetadata(x) => WellFormedMetadata(x.value)
    BY <2>2
  <2>4. IsReplay(q)
    BY <2>1, <2>3, ReplayPartFacts
  <2>5. IsMetadata(x) => Ends(k - 1)
    <3> SUFFICES ASSUME IsMetadata(x) PROVE Ends(k - 1)
      OBVIOUS
    <3>1. k > 1 /\ parts[k - 1].kind = "ToolCall"
      BY <2>2 DEF Attached, IsMetadata, IsData
    <3>2. k - 1 > 0
      BY <3>1
    <3> QED BY <2>1, <3>1, <3>2
  <2>6. x.kind \in {"Text", "ToolCall", "ProviderData"}
    BY <2>3 DEF FormedPart, IsPart
  <2> HIDE DEF r, x, q
  <2>7. CASE x.kind = "Text"
    <3> DEFINE y == RigText(x.text, FALSE)
    <3>1. IsRigPart(y)
      BY DEF IsRigPart, RigText
    <3>2. q = Pushed(r, y)
      BY <2>1, <2>7 DEF ReplayPart
    <3> HIDE DEF y
    <3>3. q.verdict = "Ok"
      BY <2>1, <3>1, <3>2, PushedFacts
    <3> QED BY <2>1, <2>4, <2>7, <3>3 DEF x, q
  <2>8. CASE x.kind = "ToolCall"
    <3> DEFINE y == RigCall(x.call, Nil)
    <3>1. IsRigPart(y) /\ y.type = "ToolCall"
      BY DEF IsRigPart, RigCall
    <3>2. q = Pushed(r, y)
      BY <2>1, <2>8 DEF ReplayPart
    <3> HIDE DEF y
    <3>3. q.verdict = "Ok" /\ q.rig = Joined(r.rig, <<y>>)
      BY <2>1, <3>1, <3>2, PushedFacts
    <3>4. q.rig # <<>> /\ Last(q.rig) = y
      <4>1. IsSeq(r.rig)
        BY <2>1 DEF IsReplay
      <4>2. /\ IsSeq(q.rig) /\ Len(r.rig) \in Nat /\ Len(q.rig) = Len(r.rig) + 1
            /\ q.rig[Len(r.rig) + 1] = y
        BY <3>3, <4>1, LongerFacts, SeqIs
      <4>3. q.rig # <<>>
        BY <4>2, EmptyIsSeq
      <4> QED BY <4>2, <4>3 DEF Last
    <3> QED BY <2>1, <2>4, <3>1, <3>3, <3>4 DEF x, q
  <2>9. CASE x.kind = "ProviderData" /\ x.data = "reasoning"
    <3> DEFINE y == RigReasoning(x.value)
    <3>1. IsRigPart(y)
      BY DEF IsRigPart, RigReasoning
    <3>2. Replayable(keeps, x.value)
      BY <2>3, <2>9 DEF keeps, IsData
    <3>3. q = Pushed(r, y)
      BY <2>1, <2>9, <3>2 DEF ReplayPart, ReplayData
    <3> HIDE DEF y
    <3>4. q.verdict = "Ok"
      BY <2>1, <3>1, <3>3, PushedFacts
    <3> QED BY <2>1, <2>4, <2>9, <3>4 DEF x, q
  <2>10. CASE x.kind = "ProviderData" /\ x.data = "tool_call_metadata"
    <3>1. IsMetadata(x) /\ WellFormedMetadata(x.value)
      BY <2>3, <2>10 DEF IsMetadata, IsData
    <3>2. r.rig # <<>> /\ Last(r.rig).type = "ToolCall"
      BY <2>5, <3>1 DEF r
    <3>3. q = ReplayMetadata(r, x.value)
      BY <2>1, <2>10 DEF ReplayPart, ReplayData
    <3>4. q = [r EXCEPT !.rig[Len(r.rig)].meta = Renewed(@, x.value)]
      BY <3>1, <3>2, <3>3 DEF ReplayMetadata
    <3>5. r = [verdict |-> r.verdict, rig |-> r.rig]
      BY <2>1 DEF IsReplay
    <3>6. q.verdict = "Ok"
      BY <2>1, <3>4, <3>5
    <3> QED BY <2>1, <2>4, <2>10, <3>6 DEF x, q
  <2>11. x.kind = "ProviderData" => x.data \in {"reasoning", "tool_call_metadata"}
    BY <2>3 DEF IsData, ReplayKinds
  <2> QED BY <2>6, <2>7, <2>8, <2>9, <2>10, <2>11
<1>5. n \in A
  <2>1. n \in 0..n
    BY <1>1
  <2> HIDE DEF A, n
  <2> QED BY <1>1, <1>3, <1>4, <2>1, CountUp
<1> QED BY <1>2, <1>5 DEF keeps

\* What is forwarded of a sound answer, or of what the host says in its place, has
\* its metadata at its calls.
LEMMA SoundAttached ==
  ASSUME NEW provider, HistoryInv, SourceInv, Sound(provider), NEW i \in DOMAIN history,
         history[i].role = "Assistant"
  PROVE  Attached(Forwarded(provider, history[i].content))
<1> DEFINE m == history[i]
           c == m.content
           U == {part \in Range(c) : ~NotForwarded(provider, part)}
<1>1. IsSeq(c)
  BY DEF HistoryInv, Formed
<1>2. \A part \in Range(c) : part.kind = "ToolCall" => part \in U
  BY DEF NotForwarded, IsData
<1>3. AttachedIn(c, U)
  <2> SUFFICES ASSUME NEW k \in DOMAIN c, c[k] \in U, IsMetadata(c[k])
               PROVE  k > 1 /\ c[k - 1].kind = "ToolCall"
    BY DEF AttachedIn
  <2>1. CASE m \in Here.messages
    <3>1. SoundPart(provider, m, k)
      BY DEF Sound
    <3>2. IsData(c[k]) /\ ~NotForwarded(provider, c[k])
      BY DEF IsMetadata
    <3> QED BY <2>1, <3>1, <3>2 DEF SoundPart
  <2>2. CASE Attached(c)
    BY <2>2 DEF Attached, IsMetadata, IsData
  <2> QED BY <2>1, <2>2 DEF SourceInv
<1> HIDE DEF U, c
<1>4. Attached(Only(c, U))
  BY <1>1, <1>2, <1>3, OnlyAttached
<1> QED BY <1>4 DEF Forwarded, U, c

\* A message of a sound history can be projected.
LEMMA SoundMessage ==
  ASSUME NEW provider, HistoryInv, SourceInv, Sound(provider), NEW i \in DOMAIN history
  PROVE  /\ MessageVerdict(provider, history[i]) = "Ok"
         /\ history[i].role # "Developer"
<1> DEFINE m == history[i]
           c == m.content
<1>1. Formed(m) /\ IsSeq(c) /\ m.role \in Roles /\ c # <<>>
  BY DEF HistoryInv, Formed, Sound
<1>2. Len(c) \in Nat /\ DOMAIN c = 1..Len(c) /\ \A k \in DOMAIN c : c[k] \in Range(c)
  BY <1>1, SeqIs DEF Range
<1>3. \A k \in DOMAIN c : SoundPart(provider, m, k)
  BY DEF Sound
<1>4. \A part \in Range(c) : \E k \in DOMAIN c : part = c[k]
  BY DEF Range
<1>5. m.role # "Developer"
  <2> SUFFICES ASSUME m.role = "Developer" PROVE FALSE
    OBVIOUS
  <2>1. PICK k \in DOMAIN c : TRUE
    <3>1. DOMAIN c # {}
      <4> SUFFICES ASSUME DOMAIN c = {} PROVE FALSE
        OBVIOUS
      <4>1. Len(c) = 0
        BY <1>2
      <4>2. c = <<>>
        BY <1>1, <4>1, EmptyIsSeq, SeqIs, SameSeq
      <4> QED BY <1>1, <4>2
    <3> QED BY <3>1
  <2>2. m.content[k].kind \in Spoken(m.role)
    BY <1>3 DEF SoundPart
  <2> QED BY <2>2 DEF Spoken
<1> HIDE DEF c
<1>6. CASE m.role = "Assistant"
  <2> DEFINE parts == Forwarded(provider, c)
  <2>1. /\ IsSeq(parts)
        /\ \A part \in Range(parts) :
             part \in Range(c) /\ FormedPart(part) /\ ~NotForwarded(provider, part)
    BY <1>1, ForwardedFacts DEF c
  <2>2. Attached(parts)
    BY <1>6, SoundAttached DEF c
  <2> HIDE DEF parts
  <2>3. ASSUME NEW part \in Range(parts)
        PROVE  /\ FormedPart(part) /\ part.kind # "ToolResult"
               /\ IsData(part) =>
                    /\ part.data \in ReplayKinds
                    /\ part.data = "reasoning" => Replayable(Keeps(provider), part.value)
                    /\ IsMetadata(part) => WellFormedMetadata(part.value)
    <3>1. FormedPart(part) /\ ~NotForwarded(provider, part)
      BY <2>1
    <3>2. PICK k \in DOMAIN c : part = c[k]
      BY <1>4, <2>1
    <3>3. SoundPart(provider, m, k) /\ part = m.content[k]
      BY <1>3, <3>2 DEF c
    <3>4. part.kind # "ToolResult"
      BY <1>6, <3>3 DEF SoundPart, Spoken
    <3>5. IsData(part) => part.data \in ReplayKinds
      BY <3>1 DEF NotForwarded
    <3>6. IsData(part) =>
            /\ part.data = "reasoning" => Replayable(Keeps(provider), part.value)
            /\ IsMetadata(part) => WellFormedMetadata(part.value)
      BY <3>1, <3>3 DEF SoundPart
    <3> QED BY <3>1, <3>4, <3>5, <3>6
  <2>4. Replay(Keeps(provider), parts).verdict = "Ok"
    BY <2>1, <2>2, <2>3, ReplaySucceeds
  <2> QED BY <1>1, <1>5, <1>6, <2>4 DEF MessageVerdict, parts, c
<1>7. CASE m.role # "Assistant"
  <2> DEFINE verdict(k) == PartVerdict(m.role, provider, c[k])
             verdicts == [k \in DOMAIN c |-> verdict(k)]
  <2>1. ASSUME NEW k \in DOMAIN c PROVE verdict(k) = "Ok"
    <3> DEFINE part == c[k]
    <3>1. SoundPart(provider, m, k) /\ part = m.content[k]
      BY <1>3 DEF c
    <3> HIDE DEF part
    <3>2. part.kind \in Spoken(m.role) /\ (part.kind = "ToolResult" => part.value # Nil)
      BY <3>1 DEF SoundPart
    <3>3. IsData(part) => NotForwarded(provider, part)
      BY <1>7, <3>1 DEF SoundPart
    <3>4. m.role \in {"System", "User", "Tool"}
      BY <1>1, <1>5, <1>7 DEF Roles
    <3>5. part.kind \in {"Text", "ToolResult", "ProviderData"}
      BY <3>2, <3>4 DEF Spoken
    <3>6. part.kind = "Text" => m.role # "Tool"
      BY <3>2 DEF Spoken
    <3>7. part.kind = "ToolResult" => m.role # "System"
      BY <3>2 DEF Spoken
    <3>8. PartVerdict(m.role, provider, part) = "Ok"
      BY <3>2, <3>3, <3>5, <3>6, <3>7 DEF PartVerdict, ResultVerdict, IsData
    <3> QED BY <3>8 DEF part
  <2>2. verdicts \in Seq({"Ok"})
    <3> HIDE DEF verdict
    <3> QED BY <1>2, <2>1
  <2>3. FirstError(verdicts) = "Ok"
    <3> HIDE DEF verdicts
    <3> QED BY <2>2, AllPass
  <2> QED BY <1>1, <1>5, <1>7, <2>3 DEF MessageVerdict, c
<1> QED BY <1>5, <1>6, <1>7

\* So can the whole of it.
LEMMA SoundProjection ==
  ASSUME NEW provider, HistoryInv, SourceInv, Sound(provider)
  PROVE  ProjectionVerdict(provider, history) = "Ok"
<1> DEFINE verdicts == [i \in DOMAIN history |-> MessageVerdict(provider, history[i])]
           none == \A i \in DOMAIN history : Forwarded(provider, history[i].content) = <<>>
           all == <<IF none THEN "InvalidRequest" ELSE "Ok">>
<1>1. /\ IsSeq(history) /\ Len(history) \in Nat /\ DOMAIN history = 1..Len(history)
      /\ \A i \in DOMAIN history : Formed(history[i]) /\ IsSeq(history[i].content)
  BY SeqIs DEF HistoryInv, Formed
<1>2. \A i \in DOMAIN history : MessageVerdict(provider, history[i]) = "Ok"
  BY SoundMessage
<1>3. verdicts \in Seq({"Ok"})
  BY <1>1, <1>2
<1>4. ~none
  <2> DEFINE C == [m \in Range(history) |-> m.content]
  <2>1. \A m \in Range(history) : C[m] = m.content
    OBVIOUS
  <2> HIDE DEF C
  <2>2. Range(PartsOf(history)) = UNION {Range(history[j].content) : j \in 1..Len(history)}
    BY <1>1, <2>1, PartsAre
  <2>3. PICK part \in Range(PartsOf(history)) : ~IsData(part)
    BY DEF Sound
  <2>4. PICK j \in DOMAIN history : part \in Range(history[j].content)
    BY <1>1, <2>2, <2>3
  <2> DEFINE c == history[j].content
             U == {x \in Range(c) : ~NotForwarded(provider, x)}
  <2>5. part \in U
    BY <2>3, <2>4 DEF NotForwarded
  <2>6. IsSeq(c)
    BY <1>1
  <2> HIDE DEF U
  <2>7. part \in Range(Only(c, U))
    BY <2>4, <2>5, <2>6, OnlyFacts
  <2>8. Only(c, U) # <<>>
    BY <2>7, EmptyIsSeq
  <2>9. Forwarded(provider, history[j].content) # <<>>
    BY <2>8 DEF Forwarded, U
  <2> QED BY <2>9
<1>5. all \in Seq({"Ok"})
  <2> HIDE DEF none
  <2> QED BY <1>4
<1>6. ProjectionVerdict(provider, history) = FirstError(verdicts \o all)
  BY DEF ProjectionVerdict
<1>7. verdicts \o all \in Seq({"Ok"})
  <2> HIDE DEF verdicts, all
  <2> QED BY <1>3, <1>5
<1> HIDE DEF verdicts, all
<1> QED BY <1>6, <1>7, AllPass

\* A flattening has all that went before.
LEMMA FlatGrows ==
  ASSUME NEW seqs, IsSeqs(seqs), NEW f, FlatSteps(f, seqs),
         NEW i \in 1..Len(seqs), NEW a \in 1..i - 1
  PROVE  Range(seqs[a]) \subseteq Range(f[i - 1])
<1> DEFINE n == Len(seqs)
           A == {j \in 0..n : \A l \in 1..j : Range(seqs[l]) \subseteq Range(f[j])}
<1>1. /\ n \in Nat /\ \A k \in 1..n : IsSeq(seqs[k]) /\ f[k] = Joined(f[k - 1], seqs[k])
      /\ \A k \in 0..n : IsSeq(f[k])
  BY SeqIs DEF IsSeqs, FlatSteps
<1>2. 0 \in A
  BY <1>1
<1>3. ASSUME NEW j \in 1..n, j - 1 \in A PROVE j \in A
  <2>1. Range(f[j]) = Range(f[j - 1]) \cup Range(seqs[j])
    <3>1. j - 1 \in 0..n
      BY <1>1
    <3> HIDE DEF A, n
    <3> QED BY <1>1, <3>1, ConcatFacts
  <2>2. ASSUME NEW l \in 1..j PROVE Range(seqs[l]) \subseteq Range(f[j])
    <3>1. CASE l = j
      BY <2>1, <3>1
    <3>2. CASE l # j
      <4>1. l \in 1..j - 1
        BY <1>1, <3>2
      <4>2. Range(seqs[l]) \subseteq Range(f[j - 1])
        BY <1>3, <4>1
      <4> QED BY <2>1, <4>2
    <3> QED BY <3>1, <3>2
  <2> QED BY <1>1, <2>2
<1>4. i - 1 \in A
  <2>1. i - 1 \in 0..n
    BY <1>1
  <2> HIDE DEF A, n
  <2> QED BY <1>1, <1>2, <1>3, <2>1, CountUp
<1> QED BY <1>4

\* Where a part of the conversation is: what is before it are the parts of the
\* messages before its own, and some of its own.
PartFrom(h, parts, k, i, y) ==
  /\ i \in DOMAIN h /\ y \in DOMAIN h[i].content /\ parts[k] = h[i].content[y]
  /\ \A a \in 1..i - 1 : \A part \in Range(h[a].content) : \E x \in 1..k - 1 : parts[x] = part

LEMMA PartPlaces ==
  ASSUME NEW h, IsSeq(h), \A i \in DOMAIN h : IsSeq(h[i].content), NEW k \in DOMAIN PartsOf(h)
  PROVE  \E i, y : PartFrom(h, PartsOf(h), k, i, y)
<1> DEFINE C == [m \in Range(h) |-> m.content]
           seqs == Through(C, h)
           parts == PartsOf(h)
<1>1. /\ Len(h) \in Nat /\ DOMAIN h = 1..Len(h)
      /\ \A i \in 1..Len(h) : IsSeq(h[i].content) /\ h[i] \in Range(h)
  BY SeqIs DEF Range
<1>2. \A m \in Range(h) : C[m] = m.content
  OBVIOUS
<1> HIDE DEF C
<1>3. IsSeqs(seqs) /\ parts = FlattenSeq(seqs) /\ IsSeq(parts)
  BY <1>1, <1>2, PartsAre
<1>4. Len(seqs) = Len(h) /\ \A i \in 1..Len(h) : seqs[i] = h[i].content
  <2>1. Len(seqs) = Len(h) /\ \A i \in 1..Len(h) : seqs[i] = C[h[i]]
    BY <1>1, ThroughFacts
  <2> QED BY <1>1, <1>2, <2>1
<1> HIDE DEF seqs, parts
<1>5. PICK f : FlatSteps(f, seqs)
  BY <1>3, FlattenIs
<1>6. Lands(f, seqs, parts)
  BY <1>3, <1>5, FlattenPlaces
<1>7. Len(parts) \in Nat /\ k \in 1..Len(parts)
  BY <1>3, SeqIs DEF parts
<1> DEFINE At(i, y) == /\ k = Len(f[i - 1]) + y /\ parts[k] = seqs[i][y]
                       /\ SubSeq(parts, 1, Len(f[i - 1])) = f[i - 1]
<1>8. PICK i \in 1..Len(seqs) : \E y \in 1..Len(seqs[i]) : At(i, y)
  BY <1>6, <1>7 DEF Lands
<1>9. PICK y \in 1..Len(seqs[i]) : At(i, y)
  BY <1>8
<1> DEFINE p == f[i - 1]
<1>10. IsSeq(p) /\ Len(p) \in Nat /\ DOMAIN p = 1..Len(p)
  <2>1. i - 1 \in 0..Len(seqs)
    BY <1>1, <1>4
  <2> QED BY <1>5, <2>1, SeqIs DEF FlatSteps
<1>11. /\ i \in DOMAIN h /\ y \in DOMAIN h[i].content /\ parts[k] = h[i].content[y]
       /\ k = Len(p) + y /\ y \in Nat /\ y >= 1 /\ SubSeq(parts, 1, Len(p)) = p
  <2>1. i \in 1..Len(h) /\ seqs[i] = h[i].content
    BY <1>4
  <2>2. DOMAIN h[i].content = 1..Len(h[i].content) /\ Len(h[i].content) \in Nat
    BY <1>1, <2>1, SeqIs
  <2> QED BY <1>1, <1>9, <2>1, <2>2
<1>12. \A x \in 1..Len(p) : x \in 1..k - 1 /\ parts[x] = p[x]
  <2>1. Len(p) \in 0..Len(parts) /\ k - 1 \in Nat /\ Len(p) <= k - 1
    BY <1>7, <1>10, <1>11
  <2>2. parts \in Seq(Range(parts))
    BY <1>3 DEF IsSeq
  <2> HIDE DEF p
  <2>3. \A x \in 1..Len(p) : SubSeq(parts, 1, Len(p))[x] = parts[x]
    BY <2>1, <2>2, PrefixFacts
  <2> QED BY <1>10, <1>11, <2>1, <2>3
<1>13. ASSUME NEW a \in 1..i - 1, NEW part \in Range(h[a].content)
       PROVE  \E x \in 1..k - 1 : parts[x] = part
  <2>1. Range(seqs[a]) \subseteq Range(p)
    BY <1>3, <1>5, FlatGrows
  <2>2. a \in 1..Len(h)
    BY <1>1, <1>11
  <2>3. part \in Range(p)
    BY <1>4, <2>1, <2>2
  <2>4. PICK x \in DOMAIN p : part = p[x]
    BY <2>3 DEF Range
  <2> QED BY <1>10, <1>12, <2>4
<1>14. PartFrom(h, parts, k, i, y)
  <2> HIDE DEF p
  <2> QED BY <1>11, <1>13 DEF PartFrom
<1> QED BY <1>14 DEF parts

\* Where all results are the host's, each has its call before it.
LEMMA SoundForOllama ==
  ASSUME HistoryInv, AnswersInv, Sound("ollama")
  PROVE  OllamaMessages(history)
<1> DEFINE parts == PartsOf(history)
           Called(k) == {parts[j].call.id : j \in {j \in 1..k - 1 : parts[j].kind = "ToolCall"}}
<1>1. IsSeq(history) /\ \A i \in DOMAIN history : IsSeq(history[i].content)
  BY DEF HistoryInv, Formed
<1>2. ASSUME NEW k \in DOMAIN parts
      PROVE  /\ parts[k].kind = "ToolCall" => parts[k].call.name # ""
             /\ parts[k].kind = "ToolResult" => parts[k].call \in Called(k)
  <2>0. \E i, y : PartFrom(history, parts, k, i, y)
    BY <1>1, PartPlaces
  <2> HIDE DEF parts
  <2>1. PICK i, y : PartFrom(history, parts, k, i, y)
    BY <2>0
  <2>2. i \in DOMAIN history /\ y \in DOMAIN history[i].content /\ parts[k] = history[i].content[y]
    BY <2>1 DEF PartFrom
  <2>3. SoundPart("ollama", history[i], y)
    BY <2>2 DEF Sound
  <2>4. /\ parts[k].kind = "ToolCall" => parts[k].call.name # ""
        /\ parts[k].kind = "ToolResult" => parts[k].answers # Nil
    BY <2>2, <2>3 DEF SoundPart
  <2>5. ASSUME parts[k].kind = "ToolResult" PROVE parts[k].call \in Called(k)
    <3>1. FollowsCall(history, parts[k].answers, parts[k].call, i)
      BY <2>2, <2>4, <2>5 DEF AnswersInv
    <3>2. PICK a \in 1..i - 1 : \E b \in DOMAIN history[a].content :
            /\ history[a].content[b].kind = "ToolCall"
            /\ history[a].content[b].call.id = parts[k].call
      BY <3>1 DEF FollowsCall
    <3>3. PICK b \in DOMAIN history[a].content :
            /\ history[a].content[b].kind = "ToolCall"
            /\ history[a].content[b].call.id = parts[k].call
      BY <3>2
    <3>4. history[a].content[b] \in Range(history[a].content)
      BY DEF Range
    <3>5. PICK x \in 1..k - 1 : parts[x] = history[a].content[b]
      BY <2>1, <3>4 DEF PartFrom
    <3> QED BY <3>3, <3>5
  <2> QED BY <2>4, <2>5
<1> QED BY <1>2 DEF OllamaMessages

\* So a mapper takes a plain request on it.
LEMMA SoundMapping ==
  ASSUME NEW provider, HistoryInv, SourceInv, AnswersInv, Sound(provider), NEW o,
         provider = "anthropic" => o.seed = Nil /\ o.max # Nil
  PROVE  MapVerdict(provider, PlainRequest, o) = "Ok"
<1> DEFINE c1 == CASE provider = "anthropic" -> Requires(AnthropicMessages(PlainRequest.messages))
                   [] provider = "ollama" -> Requires(OllamaMessages(PlainRequest.messages))
                   [] OTHER -> "Ok"
           c2 == ProjectionVerdict(provider, PlainRequest.messages)
           c3 == StructuredVerdict(PlainRequest.format)
           c4 == Requires(PlainRequest.extensions = {})
           c5 == CASE provider = "anthropic" -> AnthropicOptionsVerdict(o)
                   [] provider = "ollama" -> OllamaChoiceVerdict(PlainRequest.choice)
                   [] OTHER -> "Ok"
           c6 == FormatVerdict(provider, PlainFormat(PlainRequest.format))
<1>1. /\ PlainRequest.messages = history /\ PlainRequest.format = Nil
      /\ PlainRequest.extensions = {} /\ PlainRequest.choice = Nil
  BY DEF PlainRequest, RequestOf
<1>2. c1 = "Ok"
  <2>1. provider = "anthropic" => AnthropicMessages(history)
    BY DEF Sound
  <2>2. provider = "ollama" => OllamaMessages(history)
    BY SoundForOllama
  <2> QED BY <1>1, <2>1, <2>2 DEF Requires, Asserts
<1>3. c2 = "Ok"
  BY <1>1, SoundProjection
<1>4. c3 = "Ok" /\ c4 = "Ok" /\ c6 = "Ok"
  BY <1>1 DEF StructuredVerdict, Supports, Requires, Asserts, FormatVerdict, PlainFormat
<1>5. c5 = "Ok"
  <2>1. ASSUME provider = "anthropic" PROVE AnthropicOptionsVerdict(o) = "Ok"
    <3> DEFINE a1 == Supports(o.seed = Nil)
               a2 == Requires(o.max # Nil)
    <3>1. a1 = "Ok" /\ a2 = "Ok"
      BY <2>1 DEF Supports, Requires, Asserts
    <3>2. AnthropicOptionsVerdict(o) = FirstError(<<a1, a2>>)
      BY DEF AnthropicOptionsVerdict
    <3> HIDE DEF a1, a2
    <3>3. <<a1, a2>> \in Seq({"Ok"})
      BY <3>1
    <3> QED BY <3>2, <3>3, AllPass
  <2>2. OllamaChoiceVerdict(PlainRequest.choice) = "Ok"
    BY <1>1 DEF OllamaChoiceVerdict, Supports, Asserts
  <2> QED BY <2>1, <2>2
<1>6. MapVerdict(provider, PlainRequest, o) = FirstError(<<c1, c2, c3, c4, c5, c6>>)
  BY DEF MapVerdict
<1> HIDE DEF c1, c2, c3, c4, c5, c6
<1>7. <<c1, c2, c3, c4, c5, c6>> \in Seq({"Ok"})
  BY <1>2, <1>3, <1>4, <1>5
<1> QED BY <1>6, <1>7, AllPass

\* And the bridge it is for.
LEMMA SoundIsTaken ==
  ASSUME FlowInv, SourceInv, AnswersInv, BuiltInv, NEW config \in bridges,
         Sound(config.provider), config.provider = "anthropic" => config.defaults.max # Nil
  PROVE  BridgeVerdict(config, PlainRequest) = "Ok"
<1> DEFINE provider == config.provider
           o == Merge(config.defaults, PlainRequest.options)
           caps == CapabilitiesOf(provider, config.model)
           seen == View(PlainRequest, o)
<1>1. HistoryInv /\ BuildVerdict(config) = "Ok"
  BY DEF FlowInv, BuiltInv
<1>2. PlainRequest.options = NoOptions /\ PlainRequest.choice = Nil
  BY DEF PlainRequest, RequestOf
<1>3. o = config.defaults
  <2>1. config.defaults \in Options
    BY OptionsAssumption DEF FlowInv, HistoryInv, Here
  <2> QED BY <1>2, <2>1, DefaultsStand
<1>4. /\ provider = "anthropic" => config.defaults.seed = Nil
      /\ ControlsVerdict(provider, config.model, config.defaults, Nil) = "Ok"
  BY <1>1, BuiltPassed
<1> HIDE DEF o
<1> DEFINE c1 == PrepareVerdict(seen)
           c2 == RequestVerdict(caps, seen)
           c3 == ControlsVerdict(provider, config.model, o, PlainRequest.choice)
           c4 == MapVerdict(provider, PlainRequest, o)
<1>5. c1 = "Ok" /\ c2 = "Ok"
  <2>1. \A i \in DOMAIN history : history[i].role # "Developer"
    BY <1>1, SoundMessage
  <2>2. LET s == View(PlainRequest, config.defaults)
        IN  /\ PrepareVerdict(s) = "Ok"
            /\ RequestVerdict(CapabilitiesOf(config.provider, config.model), s) = "Ok"
    BY <1>1, <2>1, PlainIsAble
  <2> QED BY <1>3, <2>2
<1>6. c3 = "Ok"
  BY <1>2, <1>3, <1>4
<1>7. c4 = "Ok"
  <2>1. provider = "anthropic" => o.seed = Nil /\ o.max # Nil
    BY <1>3, <1>4
  <2> QED BY <1>1, <2>1, SoundMapping
<1>8. BridgeVerdict(config, PlainRequest) = FirstError(<<c1, c2, c3, c4>>)
  BY DEF BridgeVerdict, o
<1> HIDE DEF c1, c2, c3, c4
<1>9. <<c1, c2, c3, c4>> \in Seq({"Ok"})
  BY <1>5, <1>6, <1>7
<1> QED BY <1>8, <1>9, AllPass

\* A conversation goes on: whoever answered so far, whichever tools ran and in
\* whichever order, no bridge that was built refuses a plain request on a history
\* that is sound for its provider.
THEOREM ConversationsGoOn == Spec => []NoDeadEnd
<1>1. Init => FlowInv /\ SourceInv /\ AnswersInv /\ BuiltInv
  BY FlowInit, SourceInit, AnswersInit, BuiltInit
<1>2. FlowInv /\ SourceInv /\ AnswersInv /\ BuiltInv /\ [Next]_vars
        => (FlowInv /\ SourceInv /\ AnswersInv /\ BuiltInv)'
  BY FlowStep, SourceStep, AnswersStep, BuiltStep
<1>3. FlowInv /\ SourceInv /\ AnswersInv /\ BuiltInv => NoDeadEnd
  BY SoundIsTaken DEF NoDeadEnd
<1> QED BY <1>1, <1>2, <1>3, PTL DEF Spec
=============================================================================

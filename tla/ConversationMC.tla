----------------------------- MODULE ConversationMC -----------------------------
(***************************************************************************)
(* Sessions for TLC: each varies one thing, and keeps the rest plain.       *)
(***************************************************************************)
EXTENDS Conversation

MCJson == <<"{}">> :> "conforming" @@ <<"[]">> :> "other"

Hello == <<TextContent(<<"hi">>)>>
Search == [name |-> "search", version |-> 1]
NewSearch == [name |-> "search", version |-> 2]
Weather == [name |-> "weather", version |-> 1]

Config(provider, model, defaults) ==
  [version |-> "armillae.llm/v1alpha1", provider |-> provider, model |-> model,
   timeout |-> 1, endpoint |-> "https://host", credential |-> "secret",
   defaults |-> defaults, options |-> {}]

\* Anthropic wants a maximum.
With(options) == options @@ NoOptions
Capped == [NoOptions EXCEPT !.max = 4096]
Usual(provider, model) ==
  Config(provider, model, IF provider = "anthropic" THEN Capped ELSE NoOptions)

ModelOf(provider) ==
  CASE provider = "moonshot" -> "kimi-k2.5" [] provider = "minimax" -> "MiniMax-M3"
    [] provider = "anthropic" -> "claude-opus-4-6" [] OTHER -> "m"
UsualConfigs == {Usual(provider, ModelOf(provider)) : provider \in ProviderNames}

Plain == [choice |-> Nil, format |-> Nil, options |-> NoOptions, extensions |-> {}]

Raw(from, choice) ==
  [from |-> from, id |-> "r", model |-> "m", role |-> "assistant", complete |-> TRUE,
   finish |-> "stop", choice |-> choice]
SaysHi == Raw(ProviderNames, <<RigText(<<"hi">>, FALSE)>>)

Session ==
  [configs |-> UsualConfigs, bridges |-> 1,
   messages |-> {Message("User", Hello)}, opening |-> 1, length |-> 1,
   requests |-> {Plain}, answers |-> {}, errors |-> {}, tools |-> {}]

-----------------------------------------------------------------------------
\* Every way to ask for reasoning, over a few defaults and models of each
\* provider, with the options and choices that it constrains.
Modes ==
  {Nil} \cup {[mode |-> mode, tokens |-> 0] :
                mode \in {"provider_default", "enabled", "disabled", "adaptive"}}
    \cup {[mode |-> "budget", tokens |-> n] : n \in {512, 2048}}
Models ==
  {<<"openai", "m">>, <<"deepseek", "m">>, <<"moonshot", "kimi-k2.5">>,
   <<"moonshot", "kimi-k3">>, <<"minimax", "MiniMax-M3">>,
   <<"anthropic", "claude-opus-4-6">>, <<"anthropic", "claude-opus-5">>,
   <<"anthropic", "claude-opus-4-5">>, <<"ollama", "m">>, <<"ollama", "gpt-oss">>}
Defaults ==
  {NoOptions, Capped, With([effort |-> "high"]),
   With([thinking |-> [mode |-> "enabled", tokens |-> 0], temperature |-> 1]),
   With([thinking |-> [mode |-> "budget", tokens |-> 2048], max |-> 4096]),
   With([max |-> 0, seed |-> 7, stop |-> <<"end">>])}
Ask(choice, mode, effort, temperature, max) ==
  [Plain EXCEPT !.choice = choice,
                !.options = With([thinking |-> mode, effort |-> effort,
                                  temperature |-> temperature, max |-> max])]
Required == [mode |-> "choice_required", tool |-> "search"]
Asks ==
  {Ask(Nil, mode, effort, Nil, max) :
     mode \in Modes, effort \in {Nil, "none", "low", "max"}, max \in {Nil, 1024}}
  \cup {Ask(choice, mode, "provider_default", temperature, 1024) :
          choice \in {Nil, Required}, mode \in Modes, temperature \in {Nil, 0}}
  \cup {[Plain EXCEPT !.options.seed = 1], [Plain EXCEPT !.options.stop = <<"stop">>],
        [Plain EXCEPT !.extensions = {"openai.x"}]}
OptionSession ==
  [Session EXCEPT !.configs = {Config(m[1], m[2], d) : m \in Models, d \in Defaults},
     !.requests = Asks, !.tools = {Search}]

-----------------------------------------------------------------------------
\* Schemas: plain, native, and with one thing wrong, nested in a property.
Node(path, keywords, types) ==
  [path |-> path, object |-> TRUE, keywords |-> keywords \cup {"type"}, types |-> types,
   union |-> FALSE, properties |-> {}, required |-> <<>>, closed |-> FALSE, local |-> FALSE]
ObjectKeywords == {"properties", "required", "additionalProperties"}
Closed(path, properties, required) ==
  [Node(path, ObjectKeywords, {"object"}) EXCEPT
     !.properties = properties, !.required = required, !.closed = TRUE]
RootOfP == Closed(<<>>, {"p"}, <<"p">>)
InP(node) == {RootOfP, [node EXCEPT !.path = <<"properties">>]}
SomeSchemas ==
  {InP(Node(<<>>, {}, {"integer"})), InP(Node(<<>>, {"minimum"}, {"integer"})),
   InP(Node(<<>>, {"oneOf"}, {"string"})), InP(Node(<<>>, {}, {"array"})),
   InP([Node(<<>>, {}, {"string", "null"}) EXCEPT !.union = TRUE]),
   InP(Closed(<<>>, {"q"}, <<>>)), InP(Closed(<<>>, {"q"}, <<"q">>)),
   InP([Closed(<<>>, {"q"}, <<"q">>) EXCEPT !.closed = FALSE]),
   InP([Node(<<>>, {}, {}) EXCEPT !.object = FALSE, !.keywords = {}]),
   {Node(<<>>, {}, {"string"})}, {[RootOfP EXCEPT !.required = <<"p", "p">>]},
   {[Node(<<>>, {}, {}) EXCEPT !.object = FALSE, !.keywords = {}]}}
SomeFormats ==
  {[kind |-> kind, named |-> named, schema |-> schema, compiles |-> TRUE, strict |-> strict] :
     kind \in Formats, named \in BOOLEAN, schema \in SomeSchemas, strict \in BOOLEAN}
SchemaAnswers == {Raw(ProviderNames, <<RigText(<<text>>, FALSE)>>) : text \in {"{}", "[]"}}
SchemaSession ==
  [Session EXCEPT
     !.requests = {[Plain EXCEPT !.format = format, !.options = With([effort |-> effort])] :
                     format \in SomeFormats, effort \in {Nil, "low"}},
     !.answers = SchemaAnswers \cup {[raw EXCEPT !.finish = "length"] : raw \in SchemaAnswers}]

-----------------------------------------------------------------------------
\* Several bridges, calls with and without metadata, reasoning that is signed,
\* has an id, or is neither.  The host has no tools: every result is an error.
Called(id, name, meta) == RigCall([id |-> id, name |-> name, args |-> "{}"], meta)
Reasoned(id, signed) == RigReasoning([id |-> id, text |-> <<"hm">>, signed |-> signed])
DialogueAnswers ==
  {Raw({"deepseek", "ollama"}, <<Reasoned(Nil, FALSE), RigText(<<"hi">>, FALSE)>>),
   Raw({"deepseek"}, <<Reasoned("t", FALSE), RigText(<<"hi">>, FALSE), RigImage("i")>>),
   Raw({"deepseek"}, <<Reasoned(Nil, FALSE), Called("c1", "search", [call_id |-> "w"])>>),
   Raw({"anthropic"}, <<RigText(<<"hi">>, TRUE)>>),
   Raw({"anthropic"}, <<Reasoned(Nil, TRUE), Called("c2", "search", [signature |-> "s"]),
                        Called("c3", "weather", Nil)>>),
   Raw({"ollama"}, <<Called(Nil, "search", Nil)>>),
   Raw({"ollama"}, <<Called(Nil, "weather", Nil)>>),
   Raw({"ollama"}, <<Called(Nil, "weather", Nil), Called(Nil, "search", Nil)>>)}
DialogueSession ==
  [Session EXCEPT
     !.configs = {Usual(provider, ModelOf(provider)) :
                    provider \in {"ollama", "anthropic", "deepseek"}},
     !.bridges = 2, !.length = 5, !.answers = DialogueAnswers]

\* One tool replaced while a call to it is waiting.
ToolSession ==
  [Session EXCEPT !.configs = {Usual("openai", "m")}, !.length = 3,
     !.answers = {SaysHi, Raw({"openai"}, <<Called("c1", "search", Nil),
                                            Called("c2", "search", Nil)>>)},
     !.tools = {Search, NewSearch}]

-----------------------------------------------------------------------------
\* Messages nobody should send, and some that only look like it.
Own(provider, data, value) == OwnedPart(provider, DataContent(data, value))
OddMessages ==
  {Message("System", Hello), Message("Developer", Hello), Message("User", <<>>),
   Message("Tool", Hello), Message("User", Hello),
   Message("User", Hello \o <<Own("deepseek", "tool_call_metadata", [signature |-> "s"])>>),
   Message("User", <<Own("anthropic", "image", "i")>>),
   Message("System", Hello \o Hello \o <<Own("openai", "image", "i")>>),
   Message("Tool", <<ResultPart("c9", "value", FALSE, Nil)>>),
   Message("Tool", <<ResultPart("c9", Nil, TRUE, Nil)>>),
   Message("Assistant", <<Own("deepseek", "tool_call_metadata", [signature |-> "s"])>>),
   Message("Assistant", <<ToolContent([id |-> "c8", name |-> "", args |-> "{}"]),
                          Own("openai", "tool_call_metadata", [signature |-> ""])>>),
   Message("Assistant", Hello \o <<Own("ollama", "reasoning",
                                       [id |-> Nil, text |-> <<"hm">>, signed |-> FALSE]),
                                   Own("anthropic", "reasoning",
                                       [id |-> Nil, text |-> Nil, signed |-> FALSE])>>),
   Message("Assistant", Hello \o <<Own("anthropic", "reasoning",
                                       [id |-> Nil, text |-> <<>>, signed |-> FALSE])>>)}
OddSession ==
  [Session EXCEPT !.messages = OddMessages, !.opening = 2, !.length = 2]

\* Configurations that are refused for one reason each.
Base == Usual("openai", "m")
SetupSession ==
  [Session EXCEPT !.configs = {[Base EXCEPT !.version = "v2"], [Base EXCEPT !.timeout = 0],
                  [Base EXCEPT !.model = ""], [Base EXCEPT !.endpoint = "refused"],
                  [Base EXCEPT !.credential = "missing"], [Base EXCEPT !.credential = Nil],
                  [Base EXCEPT !.options = {"x"}], [Base EXCEPT !.provider = "other"],
                  [Usual("openai-compatible", "m") EXCEPT !.endpoint = Nil],
                  [Usual("anthropic", "m") EXCEPT !.defaults.seed = 1],
                  [Usual("ollama", "m") EXCEPT !.credential = Nil], Base},
     !.answers = {[SaysHi EXCEPT !.id = ""], [SaysHi EXCEPT !.model = Nil],
                  [SaysHi EXCEPT !.complete = FALSE], [SaysHi EXCEPT !.role = "user"],
                  Raw({"openai", "ollama"}, <<Called(Nil, "search", Nil)>>)}]

\* Chains of causes, in wrappers, short and as long as is looked at.
Cause(layer, kind, status, timeout) ==
  [layer |-> layer, kind |-> kind, status |-> status, timeout |-> timeout, os |-> Nil]
Causes ==
  {Cause("other", "", Nil, FALSE), Cause("reqwest", "Connect", Nil, FALSE),
   Cause("reqwest", "Unknown", Nil, TRUE), Cause("reqwest", "Body", 500, FALSE),
   Cause("io", "TimedOut", Nil, FALSE), Cause("io", "ConnectionReset", Nil, FALSE),
   [Cause("io", "InvalidInput", Nil, FALSE) EXCEPT !.os = 5]}
Wrapped(chain, n) == [k \in 1..n |-> Cause("other", "", Nil, FALSE)] \o chain
Chains ==
  UNION {[1..n -> Causes] : n \in 0..2}
    \cup {Wrapped(<<c>>, n) : c \in Causes, n \in {15, 16}}
RigError(variant, status, http, chain) ==
  [variant |-> variant, status |-> status, http |-> http, chain |-> chain]
SomeErrors ==
  {RigError("HttpError", Nil, "Instance", chain) : chain \in Chains}
    \cup {RigError("HttpError", status, "InvalidStatusCode", <<>>) :
            status \in {401, 403, 404, 408, 429, 500, 504}}
    \cup {RigError("HttpError", Nil, http, <<>>) :
            http \in {"Protocol", "StreamEnded", "InvalidContentType"}}
    \cup {RigError(variant, status, Nil, <<>>) : status \in {Nil, 429},
            variant \in {"ProviderResponse", "ResponseError", "UrlError", "RequestError"}}
ErrorSession == [Session EXCEPT !.configs = {Base}, !.errors = SomeErrors]

MCSessions ==
  [options |-> OptionSession, schemas |-> SchemaSession, dialogue |-> DialogueSession,
   tools |-> ToolSession, odd |-> OddSession, setup |-> SetupSession,
   errors |-> ErrorSession]

\* Two turns with tools through a provider that gives calls no ids.
IdSessions ==
  [ids |-> [Session EXCEPT !.configs = {Usual("ollama", "m")}, !.length = 5,
              !.answers = {Raw({"ollama"}, <<Called(Nil, "search", Nil)>>)}, !.tools = {Search}]]
=============================================================================

------------------------------ MODULE Providers ------------------------------
(***************************************************************************)
(* The seven providers of the Rig adapter (crates/armillae-llm-rig/src/     *)
(* providers): what each can do, per model where reasoning is concerned     *)
(* (reasoning.rs), and what each asks of its configuration.  A model name   *)
(* is represented by the longest prefix of it the code tells apart.         *)
(***************************************************************************)
EXTENDS BridgeCapabilities, CompletionEvents

ProviderNames ==
  {"openai", "openai-compatible", "deepseek", "moonshot", "minimax", "anthropic", "ollama"}

OpenAiLike == {"openai", "openai-compatible"}

\* reasoning::capabilities.
NoManualBudget ==
  {"claude-fable", "claude-mythos", "claude-opus-4-7", "claude-opus-4-8",
   "claude-opus-5", "claude-sonnet-5"}
NotAdaptive ==
  {"claude-opus-4-5", "claude-sonnet-4-5", "claude-haiku-4-5", "claude-sonnet-4-0",
   "claude-opus-4-0"}

AnthropicThinking(model) ==
  {"disabled", "adaptive", "budget"}
    \ ((IF model \in {"claude-fable", "claude-mythos"} THEN {"disabled"} ELSE {})
       \cup (IF model \in NoManualBudget THEN {"budget"} ELSE {})
       \cup (IF model \in NotAdaptive THEN {"adaptive"} ELSE {}))

AnthropicEfforts(model) ==
  CASE model = "claude-opus-4-5" -> {"low", "medium", "high"}
    [] model \in NotAdaptive \ {"claude-opus-4-5"} -> {}
    [] model \in {"claude-opus-4-6", "claude-sonnet-4-6"} -> {"low", "medium", "high", "max"}
    [] OTHER -> {"low", "medium", "high", "xhigh", "max"}

\* kimi-k2.5 stands for kimi-k2.6 too, kimi-k2.7-code for its highspeed twin.
MoonshotReasoning(model) ==
  CASE model = "kimi-k2.5" -> {"enabled", "disabled"}
    [] model = "kimi-k2.7-code" -> {"enabled"}
    [] model = "kimi-k3" -> {"low", "high", "max"}
    [] OTHER -> {}

Reasoning(provider, model) ==
  CASE provider \in OpenAiLike -> {"enabled", "disabled"} \cup Efforts
    [] provider = "deepseek" -> {"enabled", "disabled", "low", "high", "max"}
    [] provider = "moonshot" -> MoonshotReasoning(model)
    [] provider = "minimax" ->
         IF model = "MiniMax-M3" THEN {"enabled", "disabled", "adaptive"} ELSE {}
    [] provider = "anthropic" -> AnthropicThinking(model) \cup AnthropicEfforts(model)
    [] provider = "ollama" ->
         IF model = "gpt-oss" THEN {"low", "medium", "high"}
         ELSE {"enabled", "disabled", "low", "medium", "high", "max"}
    [] OTHER -> {}

\* capabilities() of each driver.
ChoicesOf(provider) ==
  CASE provider \in {"deepseek", "moonshot"} -> {"choice_auto", "choice_none"}
    [] provider = "ollama" -> {}
    [] OTHER -> ChoiceModes

FormatsOf(provider) ==
  CASE provider = "anthropic" -> {"json_schema", "native_strict_schema"}
    [] provider \in {"deepseek", "moonshot"} -> {"json_object", "json_object_schema_validation"}
    [] provider = "minimax" -> Formats \ {"native_strict_schema"}
    [] OTHER -> Formats

CapabilitiesOf(provider, model) ==
  {"streaming", "tool_calling", "parallel_tool_calls", "system_message"}
    \cup ChoicesOf(provider) \cup FormatsOf(provider) \cup Reasoning(provider, model)

-----------------------------------------------------------------------------
Asserts(condition, error) == IF condition THEN "Ok" ELSE error
Configured(condition) == Asserts(condition, "InvalidConfiguration")

\* validate_generation_options.
SoundDefaults(options) ==
  /\ options.temperature = Nil \/ options.temperature >= 0
  /\ options.max # 0
  /\ \A i \in DOMAIN options.stop : options.stop[i] # ""

\* BridgeConfig::validate and resolve_with.  A credential is absent (Nil) or a
\* reference, whose secret the host has, lacks, or has empty; an endpoint is
\* absent, good, or refused by its form or by the host's policy.
ResolveVerdict(config) ==
  FirstError(<<
    Configured(config.version = "armillae.llm/v1alpha1"),
    Configured(config.model # ""),
    Configured(config.timeout > 0),
    Configured(SoundDefaults(config.defaults)),
    Configured(config.endpoint # "refused"),
    Configured(config.credential \in {Nil, "secret"})>>)

\* validate_config of each driver, and validate_named_config.
OpenAiConfig(config) ==
  /\ config.provider = "openai-compatible" => config.endpoint # Nil
  /\ config.credential # Nil /\ config.options = {}

AnthropicConfig(config) ==
  config.defaults.seed = Nil /\ config.credential # Nil /\ config.options = {}

OllamaConfig(config) == config.options = {}

NamedConfig(config) == config.credential # Nil /\ config.options = {}

\* create_bridge; an unknown provider is a wrong configuration too.
DriverVerdict(config) ==
  Configured(
    /\ config.provider \in ProviderNames
    /\ CASE config.provider \in OpenAiLike -> OpenAiConfig(config)
         [] config.provider = "anthropic" -> AnthropicConfig(config)
         [] config.provider = "ollama" -> OllamaConfig(config)
         [] OTHER -> NamedConfig(config))
=============================================================================

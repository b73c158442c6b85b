# A verification project for armillae

TLA+ models of [armillae](../src), the TLC configurations that check them, and
machine-checked proofs (TLAPS) of the properties that should hold for every
size of the system. Paths below are relative to the repository.

## The system

armillae is a set of Rust crates. Two halves are independent of each other:
the *simulation* half (`armillae-simulate`, `armillae-simulate-bevy`) runs an
ECS world behind a small control plane; the *LLM* half (`armillae-core`,
`armillae-llm`, `armillae-llm-rig`, `armillae-tools`) is a provider-neutral
completion protocol with a Rig adapter and a tool runtime.

| component | state it keeps | operations | interacts through |
|---|---|---|---|
| control plane, `armillae-simulate/src/{simulation,error}.rs` | none (trait, statuses, errors) | execute, read/insert/remove clock, advance, stop | implemented by every backend |
| Bevy runtime, `armillae-simulate-bevy/src/runtime.rs` | world, status, clock index, schedules | the above, typed variants, `inspect_world`, `write_world` | calls application clocks, systems and closures, all of which may panic |
| Bevy contexts, `context.rs`, `support.rs` | output sink, failure list, context resources | `set_output`, `push`, `first`, fallback handler | shared with systems running in parallel |
| Bevy builder, `builder.rs`, `validate_modules`, `from_builder` | registered modules, the staging registrar of one registration | register a module (bind clocks, add systems), activate | runs application registration code |
| scripted simulation, `armillae-simulate/src/testing.rs` | status, reply queue, call log | as the control plane | test double for hosts |
| stream assembler, `armillae-llm-rig/src/stream.rs` | open text/reasoning/tool blocks, pending events, flags | one handler per provider item, end of stream | pulls from the provider stream, pushed by the consumer's poll |
| conversion, `convert.rs`, `reasoning.rs`, `request.rs`, `response.rs` | none | projection of a history with its report, request mapping per provider, conversion of responses, classification of errors | every call of the Rig bridge; what one provider answered is history another is sent |
| Rig bridge and drivers, `bridge.rs`, `factory.rs`, `providers/` | configured defaults and capabilities | build, `project`, `complete`, `stream` | the host's history goes in, a message for it comes out |
| mock bridge, `armillae-llm/src/mock.rs` | capabilities, script, recording | complete, stream, take requests | called from several threads; two locks, taken one after the other |
| capabilities, structured output, `armillae-llm/src/{capability,structured}.rs` | none, one flag per gated stream | preflight of a request, validation of a response | every bridge asks them |
| observation, `observability.rs` | one terminal flag per invocation | success, failure, drop | wraps the bridge |
| tool registry, `armillae-tools/src` | tools by name | register, unregister, list, execute | offered to a model in one call, asked for by it in the next |

What is hard: systems of one schedule run in parallel and all write the same
sink and failure list; application code runs in the middle of most operations
and can panic anywhere (every boundary catches the unwind); `write_world` gives
the application the whole world, managed state included; `inspect_world` holds
a shared borrow under which reads and further inspections happen, any of which
may fault the simulation; several errors can be true of one call and one must
be reported; a batch must be all or nothing.  In the LLM half: interleaved
deltas of parallel tool calls, streams that end early, provider metadata that
has to find its call again when a conversation is replayed. A conversation is
a long sequence of calls in which everything one provider answered is sent to
the next one, with ids that may repeat, under options that come from two
places and are said differently to each of seven providers. While a simulation
is built, modules written apart refer to each other's entries, clocks and
systems in any order of registration, and their registration code may fail,
panic or ignore an error half way.

What makes each component correct: a call is refused or answers exactly one
legal outcome, which alone decides the status (control plane); index and world
agree, benign errors leave no trace, internal resources have the scope of a
call, the verdict is independent of arrival order (Bevy runtime); edges and
cycles are computed correctly, a failed registration leaves nothing (builder);
log and queue stay in step (scripted, mock); every emitted event sequence is
well formed and agrees with the final response (assembler); replayed metadata
belongs to its call (replay); one terminal record (observation); names are
unique and listed in order (registry).

## Modules

| module | models | state |
|---|---|---|
| `SimulationProtocol` | statuses, operations, errors and their classification, the status-operation matrix | none |
| `SimulationContract` | what every backend promises (abstract) | `status`, `last`, `open` |
| `BevySimulation` | the Bevy backend, whole running part | 26 variables, below |
| `BevySimulationMC` | values of the constants for TLC | |
| `BevySimulation_proofs` | theorems about `BevySimulation` | |
| `Checks` | a sequence of checks of which the first failure counts | none |
| `BevyBuilder` | registration of modules, their validation together, activation | 7 variables, below |
| `BevyBuilderMC` | values of the constants for TLC | |
| `BevyBuilder_proofs` | theorems about `BevyBuilder` | |
| `ScriptedSimulation` | the scripted test double of `armillae-simulate` | 6 variables, below |
| `ScriptedSimulationMC` | values of the constants for TLC | |
| `ScriptedSimulation_proofs` | theorems about `ScriptedSimulation` | |
| `CompletionEvents` | the events of a streaming response, what an observer keeps of them, which event may follow | none |
| `StreamContract` | what every completion stream promises (abstract) | `outcome`, `event`, `blocks` |
| `Conversion` | content between armillae and Rig: a complete response, and its replay | none |
| `StreamAssembler` | one streaming call of the Rig adapter: assembler, output gate, observation | 8 variables, below |
| `StreamAssemblerMC` | values of the constants for TLC | |
| `StreamAssembler_proofs` | theorems about `StreamAssembler`: types, contract, nothing lost | |
| `StreamResponse_proofs` | theorems about its response: as in one piece, metadata restored | |
| `Projection` | a history as the messages of one provider, with the report of what is left out | none |
| `OutputSchemas` | the two JSON Schema subsets: native strict, and anthropic's | none |
| `Providers` | the seven providers: capabilities per model, what each asks of its configuration | none |
| `RequestMapping` | from a request to what is sent: preflight, mappers, reasoning controls, defaults | none |
| `ErrorClassification` | what a bridge makes of an error of Rig | none |
| `ToolRegistry` | the tool registry and the executions in progress | `registered`, `running` |
| `Conversation` | a host with its bridges, its history and its tools | 10 variables, below |
| `ConversationMC` | values of the constants for TLC | |
| `Conversation_proofs` | theorems about `Conversation` | |
| `SequenceFacts` | lemmas about numbers, folds along them, sequences, their flattening, and chains of checks that the proof modules share | |
| `BridgeCapabilities` | the local preflight: may a bridge with these capabilities be sent this request? | none |
| `MockBridge` | the scripted bridge, its script and its recording | 11 variables, below |
| `MockBridgeMC` | values of the constants for TLC | |
| `MockBridge_proofs` | theorems about `MockBridge` | |

`BevySimulation` INSTANCEs `SimulationContract` and is shown to implement it
(`RefinesContract`), forgetting everything but the status, the operation and
outcome of the last call and the number of open inspections.
`ScriptedSimulation` implements the same contract. In the same way
`StreamAssembler`, which EXTENDS `Conversion` and through it
`CompletionEvents`, INSTANCEs `StreamContract` and implements it,
forgetting everything but what the consumer has received; both runs and a
theorem show it. `MockBridge` EXTENDS
`BridgeCapabilities`; both it and `BevyBuilder` extend `Checks`.
`Conversation` composes the rest: it EXTENDS `RequestMapping` (and through it
`Projection`, `OutputSchemas` and `Providers`), `ErrorClassification` and
`ToolRegistry`. `Conversion` and `BridgeCapabilities` are shared: the stream
assembler and the conversation convert content with the same operators, the
mock bridge and the Rig bridge make the same preflight.

### How BevySimulation corresponds to the code

| variables | code |
|---|---|
| `status` | `Cell<SimulationStatus>` |
| `index`, `comps`, `spawned` | `clock_entities`, the `ClockComponent<C>` of each entity, the entity allocator |
| `handler`, `collector`, `failures` | `FallbackErrorHandler`, the presence of `SystemFailureCollector`, its content |
| `contexts`, `schedules` | `ExecuteContext`/`AdvanceContext<C>` resources, the keys of both schedule maps |
| `call`, `phase`, `api`, `trigger`, `targets`, `prepared`, `applied` | the stack of the operation in progress |
| `sys`, `panics`, `sink`, `deferred` | the executor's state, payloads raised, `ExecuteOutputState`, queued `Commands` |
| `last`, `open` | the result handed to the caller, `inspect_world` closures on the stack |
| `snap`, `outputs`, `tampered` | history variables; no guard reads them |

A call nobody can observe half way is one action: `ReadClock`, `InsertClock`,
`RemoveClock`, `Stop`, a `Refuse`. Each has an `...Unwinds` action for the
points where application code inside it can panic, with the state the code has
reached there (for instance: component spawned, index not yet written). The
others are split where application code runs or systems interleave:

- Advance: `BeginAdvance`, `PrepareTarget` per target (or `RejectTarget`),
  `ApplyTarget` per target, `RunAdvance`, then the schedule;
- Execute: `BeginExecute` (or `RejectExecute`), then the schedule;
- schedule: `StartSystem`, `SetOutput`, `FinishSystem`, `SystemUnwinds`,
  `ApplyDeferred` at sync points, and `FinishSchedule` or `UnwindSchedule`;
- `write_world`: `BeginWrite`, any number of `Native...` steps, `EndWrite` or
  `WriteUnwinds`; `inspect_world`: `BeginInspect`, `EndInspect`.

`Return` is the tail of `write_boundary`/`read_boundary`: it records the
outcome, derives the status and forgets the call. `RestoreResources` is in
every action that enters `write_boundary` (an unbound clock type is
rejected before it).

`&mut self` is `Exclusive`: no other call in progress and no inspection open.
`&self` methods need only that no exclusive call runs.

The application is nondeterministic: clocks, systems and closures do anything
the API allows, limited by the constant `NativeEffects` so that a run can
choose what it is about. `Clock::advance` is addition, rejecting what leaves
the type; the value and step sets have one member for each verdict (accepted,
outside the schema, not encodable, rejected by `validate`).

Abstracted: schema violations (a value is in the schema or not), messages,
identifiers, component data of the application, `TypedClockTransition` values
handed to systems (they are `prepared`), the order of an executor's thread
pool beyond the declared edges. Only `write_world` closures touch the internal
resources; a system with exclusive world access could too, which the model
leaves out because the next call restores them just the same.

### How StreamAssembler corresponds to the code

| variables | code |
|---|---|
| `asm` | `StreamState`: `pending`, `content`, `tools`, `used` (tool ids), `text` and `reasoning` (the open blocks), `next` (content index), `usage`, `stop`, `final`, `finished`, `failed` |
| `handle` | what the consumer holds: the future of `stream()`, the stream, nothing after its end or a drop |
| `gate` | the structured output gate: none (the request asks for no structure), open, or shut once it has passed on a terminal item and dropped the stream under it |
| `record` | the terminal record of `InvocationObservation` |
| `sent`, `outcome`, `event`, `blocks` | history variables: items taken from the provider, what the consumer was told, the last event, the content as the events showed it; only the bound `MaxItems` reads one of them |

The functions of `StreamState` are operators from an assembler to the next
(`PushText`, `CloseReasoning`, `CompleteTool`, ...), composed the way the code
calls them, and `Handle` is `handle_item`. Where a function returns an error,
the error is a predicate on its arguments (`BadDelta`, `BadCall`, together
`Rejects`): an error clears what is pending and sets `failed`, after which
nothing reads the half-changed state, so the model keeps the state before.

| actions | code |
|---|---|
| `Connect`, `ConnectFails` | `RigBridge::stream` resolves |
| `Pull`, `PullBad` | `next_output` takes an item that is handled, or rejected |
| `ProviderFails`, `ProviderEnds`, `ProviderEndsEarly` | the provider's stream yields an error, or ends; `finish_stream` |
| `Deliver`, `DeliverResponse`, `RefuseResponse` | a pending event goes to the consumer, through the gate of `structured.rs` |
| `End`, `Drop` | the poll that answers `None`; the consumer lets go |

The provider is nondeterministic: any item of `Items` at any time, an error or
the end at any time. What is left out, and why:

- `handle_item` passes an empty provider id with every tool call delta, so a
  delta never observes an id: a call gets one, and is announced, at its complete
  item, with the arguments that have come so far;
- fragments of names and arguments are single atoms: an empty fragment changes
  nothing that is visible;
- the gate answers `StreamInterrupted` if the inner stream ends without a
  terminal item; the inner stream here never does;
- text, names and arguments are sequences of atoms, JSON is the constant
  function `Json` from strings to values: two spellings of one value are enough
  for the comparison of accumulated and complete arguments;
- an id `rig-t` or `rig-t-n` is the pair `<<t, n>>`, and a provider may send
  such a pair.

Whether a request is structured is chosen in `Init`.

Replay is to the provider the response came from; `Projection` adds the other
providers, the other roles and the pairing of results.

### How BevyBuilder corresponds to the code

| variables | code |
|---|---|
| `phase` | where the builder is: between registrations, in `register()` of a module, consumed by `activate()` with or without success |
| `modules` | `BevySimulationBuilder.modules`: descriptor, clock bindings and system implementations of each |
| `staged`, `registrar` | the descriptor and the `BevyModuleRegistrar` of the registration in progress |
| `graph` | entries, bound clock types and schedules of the activated simulation |
| `last`, `blamed` | the result of the last registration or activation, the systems an `OrderingCycle` names |

`Describe` is `register_boxed_module` up to the call of `register()`,
`BindClock` and `AddSystem` are the registrar's methods, `RegisterReturns` and
`RegisterFails` the two ways `register()` ends (an error and a panic are
treated alike). Registrar calls come in any order and with any arguments,
declared or not. `Propagates` says whether modules return the errors the
registrar gives them: `true` is what every module of the repository does
(`?`), `false` is what the signature allows. `Activate` is `from_builder`
without the failure of a system's initialization, which is `GraphBuildFails`.
Validation is written in the order of the code, since the first error counts:
`FirstError` of `Checks` is a chain of early returns. `Unresolved` is Kahn's
algorithm on the systems of one trigger; `Waits` is the order `build_schedule`
configures, and the properties compare one with the other.

Abstracted: schemas and API versions are acceptable or not, a version
requirement is the set of versions it matches, an execution plane is one of
four ways to be answered.

### How ScriptedSimulation corresponds to the code

`status`, `replies` and `calls` are the fields of `ScriptState`; `last` is the
result handed to the caller; `script` and `answers` are history variables. A
method holds the lock for its whole length, so a call is one action: `Reject`
(the status refuses, nothing is consumed, the call is recorded), `Mismatch`
(the next reply is for another operation or there is none: it stays, and the
simulation faults), `Serve`, `Stop`. Scripts are lawful: a reply's outcome is
one its operation may return (`ScriptAssumption`). The code does not check
that; a script that makes `read_clock` answer an error of `execute` is a
mistake of the test, not a behaviour of the double.

### How MockBridge corresponds to the code

`caps`, `plan`, `replies` and `requests` are the fields of the bridge (fixed
plan: the same response each time). A call locks the recording (`Record`),
unlocks it, runs the preflight, then locks the script: `Refuse`, `Take`,
`Exhausted` or `Repeat`. Calls of other threads and `TakeRequests` run in
between. `running`, `asked` and `outcome` are the calls in progress and their
results; `script`, `taken`, `replyOf` and `preceded` are history variables. A
bridge is only built with capabilities that validate. What a scripted stream
yields when it is polled is data.

### How Conversation corresponds to the code

The host is the loop of `crates/armillae-llm-rig/examples/manual_tool_flow.rs`
with what the API allows beside it: several bridges on one history, tools that
come and go, calls that fail or are dropped, errors given to the model as
results.

| variables | code |
|---|---|
| `session` | which inputs a behaviour has; a record of sets (`Sessions`), chosen once |
| `bridges` | the bridges built, as the configuration each was built from |
| `history` | the host's `Vec<Message>` |
| `call` | the future of `complete` between the request sent and the answer: bridge, request, what is on the wire, report |
| `answer`, `failure` | the `Result` of the last operation; a failure as Rig reported it and as the host sees it |
| `registered`, `running` | `ToolRegistry.tools`; the futures of `execute` |
| `offered`, `withdrawn` | history variables: the tools as the last request offered them, the names unregistered since |

| actions | code |
|---|---|
| `Build` | `BridgeConfig::resolve_with`, `RigBridgeFactory::create`, `RigBridge::new` |
| `Say` | the host appends a message |
| `Send` | `complete` up to the provider: `OutputValidation::prepare`, `RigBridge::prepare` (preflight, `reasoning::parameters`, `map_request`, `apply`) |
| `Respond`, `Fail`, `Cancel` | the rest of `complete`: `response_from_rig` with the normalizer of the driver, `OutputValidation::validate`, `as_assistant_message`; `normalize_error`; the future dropped |
| `StartTool`, `FinishTool`, `FailTool`, `UnknownTool` | `ToolRegistry::execute` and its errors, the result appended |
| `RegisterTool`, `RefuseTool`, `UnregisterTool` | the methods that take the registry by `&mut`: not while a future of `execute` holds it |

A check that may fail is an operator `...Verdict`, a chain of early returns is
`FirstError` in the order of the code, and what is sent is a record `Wire`: the
messages of Rig, tools, choice, temperature, maximum, the typed schema, and
the additional parameters as a function from names to values. `Merge` is
`merge_generation_options`; `prepare` and `map_request` call it separately in
the code, and so does the model. A schema is the set of its subschemas, each
with the keywords on the path to it: the two checks differ in the keywords
they descend through, which makes "every subschema a check reaches" a set
(`Under`). A result carries a field of history, `answers`, the location of the
call the host executed for it; the code pairs by id only, and only properties
read the field.

What is left out, and why:

- one call to a bridge is in flight at a time: a bridge has no state a call
  changes, so calls of one bridge do not interact;
- `stream` prepares a request as `complete` does (one capability more, which
  every driver has); what follows is `StreamAssembler`. `project` is `prepare`
  without the call;
- a request's tools are their names; their schemas are passed through;
- a tool keeps the name it was registered under, as every tool of `#[tool]`
  and every `Tool` with its constant `NAME` does;
- a result's text or JSON is one value, an empty content list is `Nil`;
- reasoning is one text, signed or not, or no content (`Nil`): an unsigned empty
  text is dropped from a response, and taken back by anthropic, which refuses
  only reasoning with an id or without content (`convert.rs:420`);
- text of a wrong form that `serde` refuses before the code of the crates sees
  it, unknown variants of `#[non_exhaustive]` types;
- finish reasons except "stop" and others, usage, provider metadata.

## Runs

| run | bounds | shows |
|---|---|---|
| `bevy_calls` | clocks: 1 bound and 1 unbound type, 2 instances, values 0..3, steps 1..3, 2 entities, batches of 2, 1 inspection, all native effects; entries: 5 systems on 2 entries (4 of them partly ordered by both kinds of declaration), 2 outputs; either clocks exist or an entry runs | `TypeOK`, `ScheduleScope`, `BenignLeavesNoTrace`, `BatchIsAllOrNothing`, `NoWayBack`, `RefinesContract`, `VerdictIgnoresArrivalOrder` |
| `bevy_advance` | 2 keys, 3 entities, batches of 2, a chain of 3 response systems that despawn through Commands, 2 nested inspections, fairness | `IndexSound`, `DeclaredOrderHolds`, `InspectionsReadOneWorld`, `EveryCallReturns` |
| `bevy_identity` | 2 instances, closures that move components | finds a violation, below |
| `stream_items` | up to 5 items about one subject: text and reasoning (with and without id, empty, signed, a call with metadata, an unknown item), or deltas and complete items of two tools with and without metadata, text that is and is not an object of the schema, two ends; with and without the gate; fairness | `StreamedEqualsWhole`, `TypeOK`, `UniqueIds`, `IndexesPartitioned`, `NothingLost`, `RecordMatchesOutcome`, `MetadataRestoredInTurn`, `RefinesContract`, `EveryStreamEnds` |
| `stream_parallel` | up to 5 items of two calls | finds a violation, below |
| `stream_notes` | one text with metadata | finds a violation, below |
| `builder_modules` | up to 3 modules of 52 descriptors, 2 Rust types, 4 systems | `TypeOK`, `ModulesDisjoint`, `DeclarationsBound`, `ActivatedGraphRuns`, `CycleReportExact`, `ActivationIgnoresOrder` |
| `builder_swallow` | 1 module, `Propagates` false | finds a violation, below |
| `scripted` | scripts of up to 3 replies, up to 4 calls | `ScriptFollowed`, `RefinesContract` |
| `mock` | 2 callers, 2 calls, scripts of up to 2 items, 10 requests, 7 capability sets | `ScriptServedOnce`, `RequestsRecordedOnce`, `OnlySupportedServed` |
| `conversation` | seven kinds of session, below | `TypeOK`, `ReportComplete`, `ResultsNameTheirCalls`, `NoDeadEnd`, `ControlsSurvive`, `StrictSchemaArrives`, `DispatchSound`, `CauseDecides` |
| `conversation_ids` | two turns with a tool through ollama | finds a violation, below |

The bounds are the smallest at which each hazard happens. Two targets let a
batch fail at its second; two instances of one type let an index entry point
at the wrong one; a value outside the schema and one that cannot be encoded
reach every branch of the JSON paths; four systems on one entry contain a
chain, an unordered pair and both declaration forms; two outputs conflict.
The Execute calls of `bevy_calls` have an entry that declares an output, one that does not, and
one that does not exist. In `bevy_calls`
one inspection is open at a time; `bevy_advance` nests two, so that one can end
well around another that faulted. Symmetry is declared on the instance ids and on the callers of
`mock`, which are only compared, and only in runs that check no liveness. Every `bevy_` run has an infinite supply of calls
(refused ones at least), so deadlock is checked in all of them and never happens.

`bevy_advance` has more entities than keys, so a clock is inserted again under
the key of a removed one, and despawned clocks leave index entries behind.

For a stream, the bound is the number of items. Five let two blocks open and
close around a third item before the terminal one, and let one tool get its
name and arguments and complete while another completes in between and the
response ends. A provider id of the generated form is among the ids of
`stream_items`, before and after the id it collides with is generated. Behind
the gate, a response valid under the schema, one with other text, one with a
call and one that did not stop are all reached. A stream ends, so these runs do
not check for deadlock; `EveryStreamEnds` says that the end is the one intended.

For the builder, three modules are the fewest in which visibility that is not
transitive shows (a system whose module depends on one that depends on the
owner of its trigger) and in which three systems of different modules form a
cycle with another behind it. The descriptors are: good modules and ones that
clash in an id, an entry, a clock type, a system or only in the Rust type they
bind; every single way a descriptor is invalid by itself; three modules whose
systems declare every set of the others to precede, and the last every set to
follow, so every edge also comes declared from both sides; and one variant for
every error of `validate_modules`. A builder is consumed by activation, so these
runs do not check for deadlock; nor do `scripted` and `mock`, whose sessions end
with their last call. Two callers with a call each are all the interleavings of
two locks; that a third call finds the script empty is reached by shorter
scripts. `bevy_calls` and `stream_items` each check two kinds of behaviour that
do not meet (`ClocksOrEntries`, `OneSubject`): clock calls are explored without
entries running before a clock exists, tool deltas without reasoning.
`bevy_advance` has systems and clocks together.

`conversation` is seven sessions of one specification, each rich in one thing:

| session | bounds |
|---|---|
| options | 10 models of 6 providers, 6 defaults, 87 ways to ask: every thinking mode with 4 efforts and 2 maxima, or with a temperature and a forced choice; seed, stop, extensions |
| schemas | all providers, 12 schemas nested one level (good for both checks, for one, for none, not an object), every structured and plain format, named or not, with and without effort, conforming and other answers |
| dialogue | 3 providers, 2 bridges, up to 5 messages before a call, answers with reasoning that is signed, has an id or neither, calls with and without metadata or ids; every call answered with an error |
| tools | two tools of one name and two calls waiting, in 3 messages |
| odd | 13 malformed or unusual messages, two of them in front of every provider |
| setup | configurations refused for one reason each, answers refused for one reason each |
| errors | every variant, statuses of every category, all chains of up to 2 of 7 causes, and each cause behind 15 and 16 wrappers |

Five messages are two turns with calls and a question: the fewest in which an
id repeats. Two bridges are a history answered by one and sent to another.
A session ends when its history is as long as it may be, so deadlock is not
checked.

### The properties

- `BenignLeavesNoTrace`: an error that keeps the status leaves the clocks as
  they were when the call was made.
- `BatchIsAllOrNothing`: no write before every target is computed; when the
  response systems start, each target moved by its own step, nothing else did.
- `NoWayBack`: Stopped and Faulted are final for writes, Faulted for all.
- `IndexSound`: the index and the live components correspond one to one.
- `ScheduleScope`: schedules, contexts, handler and collector have the scope
  of the call that uses them.
- `VerdictIgnoresArrivalOrder`: the outcome of a finished schedule is a
  function of what its systems did as a set, with the documented priority.
- `InspectionsReadOneWorld`: under an open inspection no read changes its
  answer, whatever is read, refused, opened or closed in it. `inspect_world`
  takes `&self` and the status is a `Cell`, so a read in a closure can fault the
  simulation: from that step on every read is refused, although the closures
  around it, admitted before, may still answer Ok.
- `DeclaredOrderHolds`: no system starts before all that chains of `before` and
  `after` put ahead of it have ended, and while one is left that has not, some
  system runs or can start. It compares the edges the executor is given
  (`Predecessors`) with the declarations (`Ancestors`).
- `EveryCallReturns`: an admitted call comes to an outcome.
- `RefinesContract`: the backend implements `SimulationContract`.

Of `StreamAssembler`:

- `RefinesContract`: what the consumer sees is a well-formed stream: every
  event is one the blocks seen so far allow, the final response is what the
  events showed, and nothing follows an error or the final response.
- `StreamedEqualsWhole`: from a provider that sends one thing at a time, the
  streamed response is the one it gives in one piece. `OneAtATime` and
  `Repeats` say what that means; they are conditions on the provider.
- `NothingLost`: a delivered response holds all text and one complete call of
  every tool of which anything was sent.
- `IndexesPartitioned`: every content index handed out is in exactly one place.
- `UniqueIds`: provider ids and generated ids of a response never collide.
- `RecordMatchesOutcome`: one terminal record, the one that fits what the
  consumer was told.
- `MetadataRestoredInTurn`: replay puts the metadata of each call back on it,
  if calls came one at a time.
- `EveryStreamEnds`: a call that is polled comes to its end.

Of `BevyBuilder`:

- `ModulesDisjoint`: registered modules differ in everything that must be
  unique, whatever failed before; `DeclarationsBound`: their declarations and
  implementations correspond one to one, if modules return the errors they get.
- `ActivatedGraphRuns`: every system is in the schedule of its trigger, and no
  schedule holds systems that wait for each other.
- `CycleReportExact`: an `OrderingCycle` names exactly the systems of a trigger
  that could never start.
- `ActivationIgnoresOrder`: whether modules can be activated does not depend on
  the order of registration.
- `TypeOK` includes that the checks `from_builder` repeats never fire.

Of `ScriptedSimulation` and `MockBridge`:

- `ScriptFollowed`: the log and the script stay in step; a refused or
  mismatched call takes nothing; after a mismatch everything is refused.
- `RefinesContract`: the double implements `SimulationContract`.
- `ScriptServedOnce`: under concurrent calls no item of the script is lost or
  served twice, and calls that do not overlap get their items in order.
- `RequestsRecordedOnce`: every request is in the recording or was taken from
  it, once, in order of arrival.
- `OnlySupportedServed`: a call that gets to the script uses nothing the bridge
  lacks.

Of `Conversation`:

- `ReportComplete`: what is on the wire, translated back, is the history
  without the parts the report names: nothing is dropped in silence, sent to a
  provider it is not from, sent twice or moved. A host that writes two metadata
  for one call means the second (`SaidOnce`).
- `ResultsNameTheirCalls`: a result on the wire has the name and the provider's
  identity of the call the host executed for it, whatever ids repeat between
  messages. In one message a pairing by id can only mean the last call that has
  it: the property is about calls that are alone with their id there (`Alone`).
- `NoDeadEnd`: a bridge that could be built takes a plain request on every sound
  history, whoever answered before. `Sound` says what a provider cannot be sent
  at all (for anthropic: system messages in the middle, results marked as
  errors; for ollama: calls without a name, results that are not of a call
  before them; for every provider: its own reasoning or metadata in a form it
  does not take back, empty messages). Metadata must follow a call in what the
  host says itself; that it does in what providers answered is part of the claim.
- `ControlsSurvive`: each option is on the wire as the request sets it or else
  as the defaults do, in the provider's own parameter; thinking is on exactly if
  asked for, and a budget is below the maximum.
- `StrictSchemaArrives`: a native strict schema is on the wire once, and no
  mapper refuses one that the native check took.
- `DispatchSound`: the tool that runs for a call is the one last offered under
  its name, unless the host took it out.
- `CauseDecides`: wrappers around the causes of a failure do not change its
  category, and a timeout anywhere in the chain is one, unless there is a status.

### The findings

**Replaced clocks.** `bevy_identity` checks what `.agents/specs/simulate.md:1291` says: replacing a
managed clock component must be detected and fault the simulation. The code
only notices when the indexed entity has no component of the type. If a
closure takes the component of one instance and inserts it on the entity of
another, the next `read_clock` of the other returns the moved value as its own
and the simulation stays Active (`runtime.rs:418-432`; `prepare_target` and
removal share the lookup).

**Metadata of parallel calls.** `stream_parallel` drops the condition of
`MetadataRestoredInTurn`. A call takes its content index at its first delta, its
metadata takes the next free one when the call completes, and replay applies
metadata to the last content before it (`convert.rs:403`). When the items of
two calls interleave, the content is call 1, call 2, metadata of one, metadata
of the other: both go to call 2, the later overwriting the earlier, and call 1
is sent back with none. `.agents/specs/llm-bridge.md:1813` says that tool call
metadata can be restored into the next request.

**Metadata of text.** `stream_notes` checks `StreamedEqualsWhole` for a text
with metadata. The unstreamed response holds a `text_metadata` part after the
text (`convert.rs:568`); the streamed one tells the consumer in an event and
keeps nothing (`stream.rs:141`). `.agents/specs/llm-bridge.md:925` says that
the final response of a stream has the structure of the unstreamed one.

**Clocks bound to nothing.** `builder_swallow` lets modules ignore an error of the
registrar. `bind_clock` notes the clock type before it looks at the Rust type
(`builder.rs:115`) and `finish` counts the noted types, not the bindings made
(`builder.rs:208`): a module that binds two clock types to one Rust type and
drops the error is committed with a clock type that has no Rust type. Activation
builds no schedule for it and drops the systems of its Advance trigger.
`.agents/specs/simulate.md:897` has registration verify that declarations and
implementations correspond one to one, and `:1172` says the same of clock types
and Rust types.

**Ids of two turns.** `conversation_ids`: Ollama gives its calls no ids and the
adapter numbers them from 1 in every response (`providers/ollama.rs:138`), so
a history with two turns of tools holds `ollama-call-1` twice.
`.agents/specs/llm-bridge.md:493` wants an id made up by an adapter to be
unique in the message history (`:1757` of the same document only in the
response). `ResultsNameTheirCalls` shows that results are still paired with
their calls, as long as each turn is answered before the next.

### A limit

A response without content is legal (`stream.rs:859` tests one), and
`as_assistant_message` makes an empty message of it, which `messages_to_rig`
refuses (`convert.rs:154`): a host that appends it cannot send that history
again. An empty tool result ends a conversation the same way
(`convert.rs:527`). No document says which side should give way, so `Sound`
excludes such histories and `NoDeadEnd` is about the others. Two more are of
this kind: no conversion refuses a call without a name or metadata whose
signature is an empty string, but ollama's mapper refuses the first
(`request.rs:379`) and the replay of the provider's own metadata the second
(`convert.rs:438`).

### Fairness

`EveryCallReturns` assumes weak fairness of the steps the adapter itself takes
(it never waits), of the start of each ready system (the executor runs every
system whose predecessors are done), and of the return of each system and
closure. The last is an assumption about the application: a system that loops
forever blocks the call, in the code as in the model. No fairness is assumed
of callers, outputs or panics.

`EveryStreamEnds` assumes that the request is answered, that the consumer
polls a stream it has not dropped, and that the provider, asked for an item,
sends one, fails or ends. The assembler itself waits for nothing else. That
the items are finitely many is the bound `MaxItems`; a provider that sends for
ever keeps a stream open for ever, in the code as well.

## Proofs

`BevySimulation_proofs` proves, for all sets of clocks, entries, systems,
orders and bounds that satisfy the four named ASSUMEs of `BevySimulation`:

| theorem | states |
|---|---|
| `TypeCorrect` | `Spec => []TypeOK` |
| `LifecycleIsFinal` | `Spec => NoWayBack` |
| `SchedulesAreScoped` | `Spec => []ScheduleScope` |
| `IndexIsSound` | `Spec => []IndexSound` |
| `SnapAlwaysKept` | `Spec => []SnapKept` |
| `BenignErrorsLeaveNoTrace` | `Spec => BenignLeavesNoTrace` |
| `AdvanceIsAllOrNothing` | `Spec => BatchIsAllOrNothing` |
| `VerdictsIgnoreArrivalOrder` | `Spec => VerdictIgnoresArrivalOrder` |
| `ImplementsContract` | `Spec => RefinesContract` |
| `InspectionsAreStable` | `Spec => InspectionsReadOneWorld` |
| `DeclaredOrderAlwaysHolds` | `Spec => []DeclaredOrderHolds` |

The assumptions say that the subsets of values and steps are subsets, that
system ids are positive numbers and finitely many, and that the model values
standing for "none" are not real ids. Of the
declared order `OrderAssumption` says that it has no circle, which is what
`validate_cycles` makes sure of (`CyclesAreExact` and `ActivatedRuns` of
`BevyBuilder_proofs`); only `DeclaredOrderAlwaysHolds` needs it.

`Types == TypeOK /\ CallDiscipline` is the base. `CallDiscipline` is the
bookkeeping of a call in progress (its phase, what it prepared and applied); it
says nothing of the code by itself and is an invariant of the proofs only. Neither half is inductive
alone: appending a prepared transition stays within the entities only because
the phase is `prepare` and a target is left; writing the next one needs
`applied < Len(prepared)`; and the sizes are known only from the types. Every
other proof assumes `Types` in both states, split from one lemma per action
group that says which variables the group may move. `SchedulesAreScoped` adds that a call in the systems phase
holds the only missing schedule. `IndexIsSound` needs that a prepared
transition names an entity of its own type. The refinement maps a multi-step
call to stutters until its `Return`, which is the contract's `Complete`: it
needs `CallDiscipline` for the fact that the status at the return is still the
one at the start (an open call is Active), and the per-operation outcome sets
(`Errors`) of each verdict operator. `SmallestFailure` is well defined by a
lemma on nonempty sets of naturals.

`InspectionsAreStable` rests on `FaultRecorded` (a call that answered a backend
fault has faulted the simulation), which follows from the steps of the contract
already proved: an inspection that is admitted therefore does not follow one.
Under an open inspection only refusals and reads are left (`OnlyReadsInside`),
and of their answers only backend faults are fatal. `DeclaredOrderAlwaysHolds`
keeps that whatever has started finds its direct predecessors ended. The ended
systems then contain what is declared before any of them, so they contain the
ancestors, the smallest such set (`AncestorsEnded`); and of the systems that
have not ended, the one that waits for none of the others can start
(`NeverStuck`).

`snap`, the clocks as they were when the current call began, is a variable of
the model and not of the code; `SnapKept` says that between calls, and while a
batch is prepared, the clocks are what it says. A benign error can only be the
answer of a step that finds the call there. `Batch` follows an Advance further:
each prepared transition is the target's entity with the value it must reach,
computed from `snap` (`PreparedFromSnap`), and after `applied` writes exactly
the first `applied` of them have been made (`AppliedSoFar`). That the index
names the entities is not needed and could not be had: native code may have
damaged it before the call, and `Batch` compares with the index the call found.
`SinkTellsOffers` ties what the sink holds (an attempt too many, the first
error, the value) to the counts `outputs`, which the order of the systems does
not enter; the verdict is then computed case by case from the counts, in the
priority of the code (`VerdictIsExpected`).

`StreamAssembler_proofs`, and `StreamResponse_proofs` for `StreamedIsWhole` and
`MetadataComesBack`, prove, for every set of items, tools, ids, texts and
metadata, streams of every length, with or without the gate:

| theorem | states |
|---|---|
| `StreamTypes` | `Spec => []TypeOK` |
| `IndexesAlwaysPartitioned` | `Spec => []IndexesPartitioned` |
| `IdsAlwaysUnique` | `Spec => []UniqueIds` |
| `RecordAlwaysMatches` | `Spec => []RecordMatchesOutcome` |
| `StreamKeepsItsContract` | `Spec => RefinesContract` |
| `NothingEverLost` | `Spec => []NothingLost` |
| `StreamedIsWhole` | `Spec => [](WithoutNotes(sent) => StreamedEqualsWhole)` |
| `MetadataComesBack` | `Spec => [](Restorable(sent) => MetadataRestoredInTurn)` |
| `ContentNeverMissing` | once the terminal item has come and every call is complete, `Incomplete` is false |

It assumes that the items are well formed, that `MaxItems` is a number, and
that `Nil` is not a real block, id, record, event or tool call. The bound on
the items plays no part in the proofs.

The handlers compose up to six functions, and the indexes are accounted for
only at the end of each: between `Allocate` and the step that stores the new
index somewhere, it belongs to nobody. `Ready(s, hand)` is the invariant of an
assembler with the indexes `hand` in that situation, and each function has one
lemma that takes `Ready` to `Ready` and names the fields it may change
(`Same`). A function that opens something takes the index out of `hand`,
one that closes something first puts it there: taking the open block before
its part is stored is what makes a part replace a block. `GeneratedIdIsFresh`
is the pigeonhole principle on `used`, which is finite because it grows by one
id at a time. `CallInv` is the inductive invariant: the assembler is `Ready`
with nothing in hand until the response takes the content out, a response is
the last thing pending and only of a finished stream, and once the consumer
has been told how the call ended nothing is left to tell it (`Told`). Without
`Told` the record could be contradicted by a second terminal event.
`ContentNeverMissing` shows that the last check of `finish_stream`, for a
missing index, cannot be what stops a response.

The refinement has to show that the events of a stream are understood by
somebody who has nothing but the events, and they are made by handlers that
queue several at a time and look only at the assembler. `Leads(b, events, c)`
says that an observer who knows the blocks `b` accepts the events one after
the other and then knows `c`. `Shown(c, s)` says what an observer must know of
an assembler `s`: as many blocks as it has handed out indexes, each kept part
closed with that very content, the open text as far as it has come, and of a
call that is not complete its place and nothing else. `Tells(b, s)`
joins them: what is pending leads from `b` to blocks that show `s`. Each
function of the assembler has a lemma that it keeps `Tells`, in the place where
its lemma about `Ready` gives the indexes; `FragmentsShow` does it for the
fragments of a call that is completed at once. `Showing` is the
invariant: the consumer's blocks tell the assembler until it has finished,
then the last words, usage and the response, agree with them (`Closing`), and
a failed stream has nothing pending. A delivery is a step along `Leads`; the
response is accepted because `Agrees` compares the blocks with the kept parts,
which `Shown` has equal.

`NothingEverLost` compares the response with the items, and both sides are
folds: `TextOf` over the parts, `TextSent` over the items. A fold is a function
on sets of positions that takes out the greatest; `FoldSolution` in
`SequenceFacts` shows, by induction on how far the sets reach, that this
recursion has a solution, so that `TextOfIs` and `SaidIs` can give each fold as
a sequence of partial results, one position after the other. `Carried(s, said)`
says that the assembler holds what was said: the text of its parts and of the
open block adds up to it index by index (`TextSoFar`), the tools it knows are
those of the items, and a complete one has its call among the parts
(`Answered`). Text may only be added behind everything else, which holds
because the open text block is always the last index handed out: every other
item closes it first. Most functions of the assembler add no text and complete
no call (`Continues`); `PushTextCarries` and `CompletionCarries` are about the
two that do. `Keeping` is the invariant: what was sent is carried by the
assembler until it finishes or fails, then by the response that is pending,
then by the one delivered. That there is one call for each tool is a
bijection, by the indexes of the tools.

`StreamedIsWhole` compares the response with what three folds in a row make of
the items: parts (`Parts`), the response in one piece (`Whole`), its content.
Each is given item by item (`PartsMore`, `WholeMore`, `ContentMore`), and
`Rendered` is the last two together. `Matches(s, items)` says what the assembler
has after some items in order: the content of all parts, at its indexes, with
nothing open (`Settled`), or of all parts but the last, which is the open block
(`Writing`, `Thinks`), or one call in the making behind all parts (`Calling`),
which is what was spoken of last (`Latest`). It is not inductive by itself: a
provider may begin a call, speak of something else and so never complete it
without breaking the order. `Abandoned` describes those, they stay so
(`AbandonedStays`), and `FinishMatches` shows that such a stream cannot finish,
because a response takes every call to be complete. `Alike` carries the equality
on to the response that is pending and the one delivered. `WithoutNotes`, that no
text comes with metadata, is what the run `stream_notes` shows to be necessary.

`MetadataComesBack` follows metadata from the items through the content to its
replay. `Noted(s, said)` says that every call that is complete has one item,
with the metadata that is kept behind the call (`NoteAfter`), and that metadata
is kept nowhere else. It rests on a call in the making being the last index
handed out, as `StreamedIsWhole` does, so that nothing comes between the call
and the index its metadata takes; parallel calls break exactly this. `Followed`
says the same of a response, where a call is known by its id: that ids are
unique (`Distinct`) makes the item of a call the only one `MetaSent` can choose.
Replay is a fold again (`ReplayIs`), and `ReplayedTo` describes its partial
results: all calls have their metadata, but the last part, if it is a call, has
yet to get it (`NoteSetBack`, `PartSetBack`). `Restorable`, that the metadata
sent has a field and no empty call id or signature, is needed: replay refuses
other metadata (`convert.rs:374-402`), and with it the request. So does reasoning
that cannot be replayed, which `Restored` itself sets aside.

`ScriptedSimulation_proofs` proves, for every set of lawful replies, scripts and
sessions of every length:

| theorem | states |
|---|---|
| `ScriptTypes` | `Spec => []TypeOK` |
| `ScriptIsFollowed` | `Spec => []ScriptFollowed` |
| `ScriptKeepsContract` | `Spec => RefinesContract` |

`ScriptFollowed` alone is not inductive: that nothing is served after a mismatch
needs `MismatchFaults`, that a mismatch has left the status Faulted, which admits
no call. `ServedAfter` says what one more answer does to the numbers of the
served calls; with it, the reply of a served call is the script's next item.
The contract's copy of the vocabulary is shown equal to the module's own
(`SameVocabulary`), and every answer is a `Refuse` or a `Complete` of the
contract.

`BevyBuilder_proofs` proves, for every set of descriptors and any number of
modules:

| theorem | states |
|---|---|
| `BuilderTypes` | `Spec => []TypeOK` |
| `ModulesStayDisjoint` | `Spec => []ModulesDisjoint` |
| `DeclarationsAreBound` | `Spec => [](Propagates => DeclarationsBound)` |
| `RebuildChecksNeverFail` | `Spec => [](RebuildVerdict = "Ok")` |
| `OrderNeverMatters` | `Spec => []ActivationIgnoresOrder` |
| `CyclesAreExact` | `Spec => []CycleReportExact` |
| `ActivatedRuns` | `Spec => [](Propagates => ActivatedGraphRuns)` |

It assumes `DescriptorAssumption`: descriptors are well typed, entries and clock
types are different kinds of trigger. `FirstErrorFacts`, `ChainFacts` and
`EachFacts` say when a chain of checks passes. `finish` compares numbers;
`CountedIsAll` shows that equal numbers mean that everything is there, because
`validate_descriptor` excludes repetitions and the registrar takes nothing that is
not declared (`RegistrarSound`). Each noted clock type is bound only if the
registrar has given no error, which is where `Propagates` enters. That the checks
repeated by `from_builder` never fail needs both halves: bindings are one to one
within a module (`ModuleSound`) and across modules (`ModulesDisjoint`).
`OrderNeverMatters` shows that validation looks at a module and at the set of all
descriptors, nothing else (`SameModules`).

Kahn's algorithm is a recursive function on sets of systems, and `Stuck(S)`,
the greatest set of systems that wait within itself, says nothing of
algorithms. `UnresolvedIsStuck` shows the two equal on every finite set,
without an induction theorem. `Stuck` satisfies the equation that defines
`Unresolved`: a system that waits for nothing is never stuck and taking it
out changes nothing (`ReadyIsNotStuck`), and if there is none, all are stuck.
So the equation has a solution; and the solution CHOOSE takes agrees with it,
for otherwise there is a smallest set (`MinimalSubset`) on which they differ,
and the equation takes it to a smaller one. `CycleInv` keeps, with the last
answer, that the systems blamed are the stuck ones of a trigger; `GraphInv`
says of an activated graph what `from_builder` puts into it (`SchedulesAre`).
`ActivatedRuns` has the hypothesis `Propagates`, as `DeclarationsAreBound`: a
module that swallows the registrar's errors may leave a clock type without
schedule, and the run `builder_swallow` shows one.

`MockBridge_proofs` proves, for any number of callers and calls, scripts of any
length and every set of requests and grants:

| theorem | states |
|---|---|
| `BridgeTypes` | `Spec => []Bridged` |
| `RequestsAreRecordedOnce` | `Spec => []RequestsRecordedOnce` |
| `OnlySupportedIsServed` | `Spec => []OnlySupportedServed` |
| `ScriptIsServedOnce` | `Spec => []ScriptServedOnce` |

It assumes `MockAssumption`: grants are capabilities and requests are requests.
`Bridged` is the types and `Occupied`: no two callers are in the same call, a
call somebody is in is unanswered, and what preceded a call had been answered.
`OnlySupportedServed` goes through the chain of checks a request passes
(`RequestVerdictFacts`, `PreflightFacts`). `ScriptServedOnce` counts the calls
that consumed an item and is not inductive as it stands, because a step moves
the script and the set of calls at once; `Serving` says the same with
`Position`, how far the script has come, in the place of the count, and
`ServingCounts` gets the count back from the one-to-one map between calls and
items.

`Conversation_proofs` proves, for every set of sessions whose inputs are well
typed:

| theorem | states |
|---|---|
| `CallsRunOfferedTools` | `Spec => []DispatchSound` |
| `NativeIsAnthropic` | a schema that passes the native check passes anthropic's |
| `StrictSchemasArrive` | `Spec => []StrictSchemaArrives` |
| `AskedIsSent` | `Spec => []ControlsSurvive` |
| `CausesDecideFailures` | `Spec => []CauseDecides` |
| `ConversationIsTyped` | `Spec => []TypeOK` |
| `ReportsAreComplete` | `Spec => []ReportComplete` |
| `ResultsKeepTheirCalls` | `Spec => []ResultsNameTheirCalls` |
| `ConversationsGoOn` | `Spec => []NoDeadEnd` |

The assumptions are those of the module: `ConversationAssumption` (bounds are
numbers), `OptionsAssumption` (options are well typed, `Nil` is no mode),
`FormatAssumption` (a format's schema is a document, `Nil` is no format),
`MessagesAssumption` (a message is a role and a sequence of parts of the kinds
there are, an answer a sequence of Rig's) and `ErrorsAssumption` (an error is a
variant with a chain of causes, and only an HTTP error has an instance to look
into). They say what Rust's types say, and of a message only what the type
cannot hold: no result the host says by itself claims a call of the
conversation (`answers`, which is a field of history), and metadata of a call is
an object. A document is a set of subschemas with a root in which every
subschema lies under keywords that are there (`Document`); neither its depth
nor its size is bounded.

`DispatchSound` compares an execution with a request sent earlier. `ToolsInv` is
inductive: what was offered and not taken out is registered as it was, and an
execution has the tool that is registered now. The second half holds because
nothing can change the registry while an execution holds it, the first because
a name in use is refused.

`NativeIsAnthropic` is about two recursive checks. Every subschema anthropic's
check reaches is one the native check reaches: the path to it goes through
keywords of nodes above, the native check has looked at the highest of them
that it might miss, and takes no `allOf` (`NativeReach`). At each node the
native rules imply anthropic's; the one step that is not immediate is that
`required` lists every property once, which the native check establishes by
comparing numbers (`AsManyIsAll`).

`WireInv` says that a call in flight was accepted by its bridge and sends what
`Wire` makes of it; everything on the wire is then computed from accepted
options. `ControlsSay` goes through the providers and shows what each
parameter says, given that the checks of `ControlsVerdict` passed;
`ControlsFields` shows that the controls never overwrite stop, seed or format;
`OneCopy` that the schema is in one of the three places it can be in.

The chain of causes is read by a fold, and so are content and replay. As for
`TextOf`, each fold is first shown to have a solution and then given as a
sequence of partial results (`CausesIs`, `ResponseIsFlat`, `ReplayIs`).
`CausesDecide` drops one wrapper at a time from the front: reading a wrapper
changes nothing that is read later (`WrappingSaysNothing`), and filtering a
longer chain is filtering the shorter and one element more (`OnlyConcat`).

`FlowInv` is the base of what follows: the history is a sequence of well-formed
messages, a call in flight has the history it was sent and nothing unanswered,
executions are of unanswered calls, one for each. That a call is answered once,
although results may come in any order, is in `UnansweredFacts`: a result takes
its own call out of `Unanswered` and no other, and a message said or answered
cannot answer a call (`ResultAnswers`). Well-formed (`Formed`) is what the
assumption says of a message, or what conversion makes of an answer.
`ConversationIsTyped` adds that no chain of checks answers what it does not
contain (`Refusals2` and its like).

`ReportsAreComplete` is about three passes over a history: the report flattens
the locations of its messages and filters them, the wire flattens what each
message becomes, and each of these is a fold over filtered parts, of which the
second pass then rewrites every result. `Back` translates a sequence of wire parts
back; the proof shows for one message that what `Back` makes of its replay is
what was forwarded of it (`ReplayBack` along the partial results of `ReplayIs`,
then `MessageBack` for all roles), that flattening commutes with `Back`
(`BackFlat`), with filtering (`OnlyFlat`) and with a function of elements
(`ThroughFlat`), and that the second pass changes nothing `Back` sees
(`PairedBack`). `KeptIs` brings the report into the same form. One thing had to be
said that no run had shown: replay attaches metadata to the call before it,
and a second metadata on the same call takes the place of the first
(`convert.rs:403`). No response of a provider has two (`Attached`,
`RespondedIsFormed`), but a host may write such a message. `SaidOnce`, in
`ReportComplete`, is about the messages said, for it would be false of them.
`SourceInv` keeps where each assistant message came from, said or answered.

`ResultsKeepTheirCalls` follows one result through the same passes. The second
pass takes the last call with the result's id that is on the wire before it, so
what has to be known is what stands between a call and its result. `AnswersInv`
says it: a result of the host is a message of its own, after the message of the
call, and all messages from there to it are results, because nothing is said or
sent while a call waits (its second half, about the calls of `Unanswered`, is
what makes it inductive). The lemmas find the way back from a part on the wire
to the message it is from (`FlattenPlaces`, `WirePlaces`), show that filtering
the calls of a prefix of the wire goes message by message (`CallsConcat`,
`CallsAlong`), that results add no call (`NoCallSaid`), and that all calls with
the id in the message of the call are that one, with the metadata that followed
it (`ReplayCall`, `CallSaid`). Both conditions of the property came out of the
proof: two calls of one message with one id, which no check of a response
refuses (`convert.rs:679` only asks that an id is not blank), both get their
results as the second; and with metadata said twice for a call the identity is
that of the second (`SaidOnce`).

`ConversationsGoOn` shows that every check of the chain a plain request goes
through passes, on histories of any length. The defaults stand where a request
asks for nothing (`DefaultsStand`), and `BuiltInv`, that every bridge passed the
checks of its configuration, makes them ones the preflight, the reasoning
controls and anthropic's mapper take (`PlainIsAble`, `BuiltPassed`). Whether a
history can be projected is decided message by message: the replay of what is
forwarded of an answer succeeds if its metadata follow their calls
(`ReplaySucceeds`), which survives the selection of the target's own parts
(`OnlyAttached`) and holds of every answer by `SourceInv` (`SoundAttached`,
`SoundMessage`, `SoundProjection`). For ollama a result needs its call before
it: `AnswersInv` has the message of the call, and `PartPlaces` that its parts
come before the result when the history is flattened (`SoundForOllama`). The
two conditions on names and on empty strings in metadata came out of this
proof: sessions in which they matter are among the odd ones of `conversation`.

Only model-checked are `EveryCallReturns` and `EveryStreamEnds`: liveness under
fairness, and ENABLED with it, are out of the prover's reach.

## Plan

Done: the control plane, the Bevy builder and runtime, the scripted simulation;
the stream assembler, its gate, its observation and replay; the capability
preflight and the mock bridge; conversations over several providers with
tools. Proved: every safety property of the runtime, the builder, the scripted
simulation and the mock bridge that a passing run checks, the refinement of
both contracts, every property of conversations that the passing run checks, and
every safety property of the assembler that a passing run checks. Left: the
liveness properties have no proofs.

## Not modelled

HTTP clients and the wire formats below Rig (calls into Rig, JSON without state
of their own), parsing of configuration files and reading of credentials (the
outcome is a value of the configuration), tool macros (compile-time), schema
compilation and validation of a value against a schema (a library), version
strings, rendering of errors, usage. `PROJECT.json` lists every component with
its status.

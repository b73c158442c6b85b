--------------------------- MODULE BevySimulation ---------------------------
(***************************************************************************)
(* The Bevy backend of armillae-simulate: BevySimulation, its clock index, *)
(* its schedules, the output sink of an Execute, the failure collector and *)
(* the unwind boundaries.                                                  *)
(*                                                                         *)
(* A call that cannot be observed half way (read, insert, remove, stop) is *)
(* one action.  Advance, Execute and write_world are several: user code    *)
(* runs between their parts, it can panic there, and the systems of a      *)
(* schedule interleave.  InspectWorld closures hold a shared borrow, so    *)
(* reads and further inspections may happen inside them.                   *)
(*                                                                         *)
(* Native code (clocks, systems, closures) belongs to the application: it  *)
(* is nondeterministic, within the effects named by NativeEffects.         *)
(***************************************************************************)
EXTENDS SimulationProtocol, Integers, Sequences, FiniteSets

CONSTANTS
  ClockTypes,     \* clock types bound at activation
  AskedTypes,     \* clock types a request may name, bound or not
  Instances,      \* clock instance ids
  Values,         \* clock values of the Rust type, numbers
  SchemaValues,   \* those the value schema accepts
  CodecValues,    \* those serde can encode and decode
  ValidValues,    \* those Clock::validate accepts
  Steps,          \* steps of the Rust type, numbers
  SchemaSteps,    \* those the step schema accepts
  CodecSteps,     \* those serde can encode and decode
  Entries,        \* execute entries registered at activation
  AskedEntries,   \* entries a request may name, registered or not
  Declared,       \* entries that declare an output schema
  Systems,        \* logical system ids, numbers in their byte order
  TriggerOf,      \* the entry or clock type each system responds to
  Before,         \* declared ordering: s runs before every system of Before[s]
  After,          \* declared ordering: s runs after every system of After[s]
  NativeEffects,  \* what native code does: subset of {"value", "despawn", "replace", "resources"}
  NoKey,          \* no clock key
  NoTrigger,      \* no schedule
  MaxEntities,    \* bound: clock entities ever spawned
  MaxTargets,     \* bound: targets of one Advance
  MaxOutputs,     \* bound: set_output calls in one Execute
  MaxInspect      \* bound: nesting of InspectWorld closures

Triggers == Entries \cup ClockTypes
Keys     == AskedTypes \X Instances
Entities == 1..MaxEntities
NoEntity == 0
NoSystem == 0

ASSUME ClockAssumption ==
  /\ ClockTypes \subseteq AskedTypes
  /\ Values \subseteq Nat /\ Steps \subseteq Nat /\ 0 \in Values
  /\ SchemaValues \subseteq Values /\ CodecValues \subseteq Values
  /\ ValidValues \subseteq Values
  /\ SchemaSteps \subseteq Steps /\ CodecSteps \subseteq Steps
  /\ NoKey \notin Keys
ASSUME ScheduleAssumption ==
  /\ Entries \subseteq AskedEntries /\ Declared \subseteq Entries
  /\ Entries \cap ClockTypes = {} /\ NoTrigger \notin AskedEntries \cup AskedTypes
  /\ IsFiniteSet(Systems) /\ Systems \subseteq Nat \ {NoSystem}
  /\ TriggerOf \in [Systems -> Triggers]
  /\ Before \in [Systems -> SUBSET Systems] /\ After \in [Systems -> SUBSET Systems]

\* System p is declared before system s, by either of them.
DeclaredBefore(p, s) == TriggerOf[p] = TriggerOf[s] /\ (s \in Before[p] \/ p \in After[s])

\* validate_cycles lets no schedule be built in which systems wait in a circle.
ASSUME OrderAssumption ==
  \A U \in (SUBSET Systems) \ {{}} : \E s \in U : \A p \in U : ~DeclaredBefore(p, s)

ASSUME BoundAssumption ==
  /\ MaxEntities \in Nat /\ MaxTargets \in Nat /\ MaxOutputs \in Nat /\ MaxInspect \in Nat

VARIABLES
  status,      \* Cell<SimulationStatus>
  last,        \* the last call that returned: operation, outcome, key read, failed system
  open,        \* InspectWorld closures in progress
  index,       \* clock_entities: the entity of each clock key
  comps,       \* the ClockComponent of each entity in the world
  spawned,     \* how many entities the world has allocated
  handler,     \* the FallbackErrorHandler resource: "redacting" or "custom"
  collector,   \* is the SystemFailureCollector resource in the world?
  failures,    \* its content: ids of the systems that failed, as they came
  contexts,    \* ExecuteContext (under its entry) and AdvanceContext<C> resources
  schedules,   \* the keys of execute_schedules and advance_schedules
  call,        \* the multi-step call in progress, or "none"
  phase,       \* its part: "native", "prepare", "apply" or "systems"
  api,         \* "json" or "typed"
  trigger,     \* its entry or clock type
  targets,     \* Advance: the targets of the request, in order
  prepared,    \* Advance: the transitions computed so far, in target order
  applied,     \* Advance: how many of them are written to the world
  sys,         \* state of each system in the running schedule
  panics,      \* kinds of unwind raised in the running schedule
  sink,        \* ExecuteOutputState
  deferred,    \* entities the systems' Commands will despawn
  snap,        \* history: the clocks when the last call returned
  outputs,     \* history: how many outputs of each kind were offered
  tampered     \* history: native code despawned or replaced a managed clock

public == <<status, last, open>>
clocks == <<index, comps, spawned>>
resources == <<handler, collector, failures, contexts, schedules>>
current == <<call, phase, api, trigger, targets, prepared, applied>>
run == <<sys, panics, sink, deferred, outputs>>
history == <<snap, tampered>>
vars == <<public, clocks, resources, current, run, history>>

Vacant == [key |-> NoKey, value |-> 0]
Component == [key : Keys \cup {NoKey}, value : Values]
EmptySink == [attempts |-> 0, notDeclared |-> FALSE, encodingFailed |-> FALSE,
              output |-> "none"]
NoOutputs == [valid |-> 0, invalid |-> 0, unencodable |-> 0]
Clocks == [index |-> index, comps |-> comps]

SystemsOf(t) == {s \in Systems : TriggerOf[s] = t}

\* Defect: a target of after is ordered the way a target of before is.
PredecessorsAllBefore(s) ==
  {p \in SystemsOf(TriggerOf[s]) : s \in After[p] \/ s \in Before[p]}

\* The edges build_schedule gives the executor, from both declarations.
Predecessors(s) ==
  {p \in SystemsOf(TriggerOf[s]) : p \in After[s] \/ s \in Before[p]}

Init ==
  /\ status = "Active"
  /\ last = [op |-> "Stop", out |-> "None", key |-> NoKey, system |-> NoSystem]
  /\ open = 0
  /\ index = [k \in Keys |-> NoEntity]
  /\ comps = [e \in Entities |-> Vacant]
  /\ spawned = 0
  /\ handler = "redacting" /\ collector = TRUE
  /\ failures = <<>>
  /\ contexts = {}
  /\ schedules = Triggers
  /\ call = "none" /\ phase = "none" /\ api = "json" /\ trigger = NoTrigger
  /\ targets = <<>> /\ prepared = <<>> /\ applied = 0
  /\ sys = [s \in Systems |-> "waiting"]
  /\ panics = {} /\ sink = EmptySink /\ deferred = {} /\ outputs = NoOutputs
  /\ snap = Clocks
  /\ tampered = FALSE
-----------------------------------------------------------------------------
(* Starting and finishing a call *)

\* &mut self: no other call in progress and no open InspectWorld borrow.
Exclusive == call = "none" /\ open = 0
Shared == call = "none"
Borrowable(op) == IF op \in ReadOps THEN Shared ELSE Exclusive

\* check(): the call may touch the world.
Enter(op) == Borrowable(op) /\ Admits(op, status)

\* Defect: the status forgets that a backend failure is fatal.
ReturnUnfaulted(op, out, key, system) ==
  /\ last' = [op |-> op, out |-> out, key |-> key, system |-> system]
  /\ status' = IF out = "BackendFailure" THEN status ELSE StatusAfter(op, out, status)
  /\ call' = "none" /\ phase' = "none" /\ api' = "json" /\ trigger' = NoTrigger
  /\ targets' = <<>> /\ prepared' = <<>> /\ applied' = 0
  /\ sys' = [s \in Systems |-> "waiting"]
  /\ panics' = {} /\ sink' = EmptySink /\ deferred' = {} /\ outputs' = NoOutputs
  /\ snap' = [index |-> index', comps |-> comps']

\* The call returns out: is_fatal decides the status, and the call is over.
\* The clocks' next state is fixed before this conjunct.
Return(op, out, key, system) ==
  /\ last' = [op |-> op, out |-> out, key |-> key, system |-> system]
  /\ status' = StatusAfter(op, out, status)
  /\ call' = "none" /\ phase' = "none" /\ api' = "json" /\ trigger' = NoTrigger
  /\ targets' = <<>> /\ prepared' = <<>> /\ applied' = 0
  /\ sys' = [s \in Systems |-> "waiting"]
  /\ panics' = {} /\ sink' = EmptySink /\ deferred' = {} /\ outputs' = NoOutputs
  /\ snap' = [index |-> index', comps |-> comps']

Answer(op, out) == Return(op, out, NoKey, NoSystem)

\* Defect: a handler left by a write_world closure survives.
RestoreCollector == collector' = TRUE /\ UNCHANGED handler

\* restore_internal_resources, at the head of every write_boundary.
RestoreResources == handler' = "redacting" /\ collector' = TRUE

\* An unwind reaching write_boundary: the private marker of the redacting
\* handler, or any other payload.
UnwindOutcome(kind) == IF kind = "marker" THEN "BackendFailure" ELSE "BackendPanicked"

Refuse(op) ==
  /\ Borrowable(op)
  /\ ~Admits(op, status)
  /\ UNCHANGED <<open, clocks, resources, tampered>>
  /\ Answer(op, Refusal(status))

\* stop(): idempotent, never enters a boundary.
Stop ==
  /\ Enter("Stop")
  /\ UNCHANGED <<open, clocks, resources, tampered>>
  /\ Answer("Stop", "Ok")
-----------------------------------------------------------------------------
(* Clocks: one instance per key, one entity per instance *)

Apis == {"json", "typed"}
Json(a) == a = "json"
\* A type no module bound: the JSON lookup and the Rust TypeId lookup fail.
Unbound(a) == IF Json(a) THEN "UnknownClockType" ELSE "NativeClockTypeNotBound"

\* world.get::<ClockComponent<C>>(entity), C being the Rust type of type t.
HasComponent(e, t) == comps[e].key # NoKey /\ comps[e].key[1] = t

\* read_typed_value and, on the JSON path, the encoding of the value.
ReadVerdict(a, k) ==
  IF k[1] \notin ClockTypes THEN Unbound(a)
  ELSE IF index[k] = NoEntity THEN "UnknownClockInstance"
  ELSE IF ~HasComponent(index[k], k[1]) THEN "BackendFailure"
  ELSE IF Json(a) /\ comps[index[k]].value \notin CodecValues THEN "ClockValueRejected"
  ELSE "Ok"

\* Defect: the index is not consulted, so a second clock takes the key.
InsertUnchecked(a, k, v) ==
  IF k[1] \notin ClockTypes THEN Unbound(a)
  ELSE IF Json(a) /\ v \notin SchemaValues THEN "InvalidClockValue"
  ELSE IF v \notin ValidValues \/ (Json(a) /\ v \notin CodecValues) THEN "ClockValueRejected"
  ELSE "Ok"

InsertVerdict(a, k, v) ==
  IF k[1] \notin ClockTypes THEN Unbound(a)
  ELSE IF index[k] # NoEntity THEN "DuplicateClockInstance"
  ELSE IF Json(a) /\ v \notin SchemaValues THEN "InvalidClockValue"
  ELSE IF Json(a) /\ v \notin CodecValues THEN "ClockValueRejected"
  ELSE IF v \notin ValidValues THEN "ClockValueRejected"
  ELSE "Ok"

\* The identity a successful read vouches for is the key it was asked for.
ReadClock(a, k) ==
  /\ Enter("ReadClock")
  /\ UNCHANGED <<open, clocks, resources, tampered>>
  /\ LET out == ReadVerdict(a, k)
     IN Return("ReadClock", out, IF out = "Ok" THEN k ELSE NoKey, NoSystem)

\* Clone or Serialize of the value panics: read_boundary tells no payloads apart.
ReadClockUnwinds(k) ==
  /\ Enter("ReadClock")
  /\ ReadVerdict("typed", k) = "Ok"
  /\ UNCHANGED <<open, clocks, resources, tampered>>
  /\ Answer("ReadClock", "BackendPanicked")

InsertClock(a, k, v) ==
  LET out == InsertVerdict(a, k, v) IN
  /\ Enter("InsertClock")
  /\ IF out = "Ok"
     THEN /\ spawned < MaxEntities
          /\ spawned' = spawned + 1
          /\ comps' = [comps EXCEPT ![spawned + 1] = [key |-> k, value |-> v]]
          /\ index' = [index EXCEPT ![k] = spawned + 1]
     ELSE UNCHANGED clocks
  /\ IF out = Unbound(a) THEN UNCHANGED <<handler, collector>> ELSE RestoreResources
  /\ UNCHANGED <<open, failures, contexts, schedules, tampered>>
  /\ Answer("InsertClock", out)

\* Decoding or Clock::validate panics before the world changes, or an observer
\* of the spawn panics when the component is in the world and the key not yet
\* in the index.
InsertClockUnwinds(k, v, kind) ==
  /\ Enter("InsertClock")
  /\ k[1] \in ClockTypes /\ index[k] = NoEntity
  /\ \/ UNCHANGED clocks
     \/ /\ v \in ValidValues /\ spawned < MaxEntities
        /\ spawned' = spawned + 1
        /\ comps' = [comps EXCEPT ![spawned + 1] = [key |-> k, value |-> v]]
        /\ UNCHANGED index
  /\ RestoreResources
  /\ UNCHANGED <<open, failures, contexts, schedules, tampered>>
  /\ Answer("InsertClock", UnwindOutcome(kind))

\* Defect: the clock is gone before its value is encoded.
RemoveThenEncode(a, k) ==
  /\ Enter("RemoveClock")
  /\ IF ReadVerdict("typed", k) = "Ok"
     THEN /\ index' = [index EXCEPT ![k] = NoEntity]
          /\ comps' = [comps EXCEPT ![index[k]] = Vacant]
          /\ UNCHANGED spawned
     ELSE UNCHANGED clocks
  /\ RestoreResources
  /\ UNCHANGED <<open, failures, contexts, schedules, tampered>>
  /\ Answer("RemoveClock", ReadVerdict(a, k))

\* The value is read and encoded first; then the key leaves the index and the
\* entity the world.
RemoveClock(a, k) ==
  LET out == ReadVerdict(a, k) IN
  /\ Enter("RemoveClock")
  /\ IF out = "Ok"
     THEN /\ index' = [index EXCEPT ![k] = NoEntity]
          /\ comps' = [comps EXCEPT ![index[k]] = Vacant]
          /\ UNCHANGED spawned
     ELSE UNCHANGED clocks
  /\ IF out = Unbound(a) THEN UNCHANGED <<handler, collector>> ELSE RestoreResources
  /\ UNCHANGED <<open, failures, contexts, schedules, tampered>>
  /\ Answer("RemoveClock", out)

\* Clone or Serialize panics, or an observer of the despawn does, when the key
\* has left the index and the entity may still be there.
RemoveClockUnwinds(k, kind) ==
  /\ Enter("RemoveClock")
  /\ ReadVerdict("typed", k) = "Ok"
  /\ \/ UNCHANGED clocks
     \/ index' = [index EXCEPT ![k] = NoEntity] /\ UNCHANGED <<comps, spawned>>
  /\ RestoreResources
  /\ UNCHANGED <<open, failures, contexts, schedules, tampered>>
  /\ Answer("RemoveClock", UnwindOutcome(kind))
-----------------------------------------------------------------------------
(* Running a schedule: the systems of one trigger, in parallel where the   *)
(* declared order allows                                                   *)

\* run_schedule up to Schedule::run: a fresh collector, and the schedule out
\* of its map for as long as it runs.
Runnable(t) == collector /\ t \in schedules
RunSchedule(t) ==
  /\ failures' = <<>>
  /\ schedules' = schedules \ {t}
  /\ contexts' = contexts \cup {t}
  /\ phase' = "systems"
Unrunnable == IF collector THEN "BackendFailure" ELSE "BackendPanicked"

InSystems == phase = "systems"
Running(s) == InSystems /\ sys[s] = "running"

StartSystem(s) ==
  /\ InSystems
  /\ s \in SystemsOf(trigger) /\ sys[s] = "waiting"
  /\ \A p \in Predecessors(s) : sys[p] = "done"
  /\ sys' = [sys EXCEPT ![s] = "running"]
  /\ UNCHANGED <<public, clocks, resources, current, panics, sink, deferred, outputs, history>>

\* Defect: the output is stored before it is known to encode.
SinkStoresFirst(kind) ==
  LET tried == [sink EXCEPT !.attempts = @ + 1]
  IN IF trigger \notin Declared THEN [tried EXCEPT !.notDeclared = TRUE]
     ELSE IF tried.attempts > 1 THEN tried
     ELSE [tried EXCEPT !.output = kind, !.encodingFailed = (kind = "unencodable")]

\* ExecuteOutputSink::set, under the lock of the sink.
SinkAfter(kind) ==
  LET tried == [sink EXCEPT !.attempts = @ + 1]
  IN IF trigger \notin Declared THEN [tried EXCEPT !.notDeclared = TRUE]
     ELSE IF tried.attempts > 1 THEN tried
     ELSE IF kind = "unencodable" THEN [tried EXCEPT !.encodingFailed = TRUE]
     ELSE [tried EXCEPT !.output = kind]

\* A system may call set_output any number of times, and may ignore its error.
SetOutput(s, kind) ==
  /\ Running(s) /\ call = "Execute"
  /\ sink.attempts < MaxOutputs
  /\ sink' = SinkAfter(kind)
  /\ outputs' = [outputs EXCEPT ![kind] = @ + 1]
  /\ UNCHANGED <<public, clocks, resources, current, sys, panics, deferred, history>>

\* A system returns; an Err of a fallible system goes to the collector and
\* stops nothing.
FinishSystem(s, ok) ==
  /\ Running(s)
  /\ sys' = [sys EXCEPT ![s] = "done"]
  /\ failures' = IF ok THEN failures ELSE Append(failures, s)
  /\ UNCHANGED <<public, clocks, handler, collector, contexts, schedules, current,
                 panics, sink, deferred, outputs, history>>

\* A system panics, or raises an error only the fallback handler takes: ours
\* unwinds with the marker, a foreign one may swallow it.
SystemUnwinds(s, kind) ==
  /\ Running(s)
  /\ sys' = [sys EXCEPT ![s] = "done"]
  /\ panics' = IF kind = "marker" /\ handler # "redacting" THEN panics ELSE panics \cup {kind}
  /\ UNCHANGED <<public, clocks, resources, current, sink, deferred, outputs, history>>

\* Between two ordered systems the executor may apply the commands queued so
\* far; it does so alone.
Despawned(es) == [e \in Entities |-> IF e \in es THEN Vacant ELSE comps[e]]
ApplyDeferred ==
  /\ InSystems /\ deferred # {}
  /\ \A s \in Systems : sys[s] # "running"
  /\ \E s \in Systems : sys[s] = "waiting" /\ \E p \in Predecessors(s) : sys[p] = "done"
  /\ comps' = Despawned(deferred)
  /\ deferred' = {} /\ tampered' = TRUE
  /\ UNCHANGED <<public, index, spawned, resources, current, sys, panics, sink, outputs, snap>>

Failed == {failures[i] : i \in DOMAIN failures}

\* Defect: the failures are not sorted.
FirstFailure == Head(failures)

\* SystemFailureCollector::first sorts: arrival order is not reported.
SmallestFailure == CHOOSE s \in Failed : \A r \in Failed : s <= r

\* How execute() classifies a schedule that ran to its end.
ExecuteVerdict ==
  IF sink.notDeclared THEN "UnexpectedExecuteOutput"
  ELSE IF sink.attempts > 1 THEN "ConflictingExecuteOutput"
  ELSE IF sink.encodingFailed THEN "ExecuteOutputEncodingFailed"
  ELSE IF failures # <<>> THEN "SystemFailed"
  ELSE IF trigger \in Declared /\ sink.output = "none" THEN "MissingExecuteOutput"
  ELSE IF sink.output = "invalid" THEN "InvalidExecuteOutput"
  ELSE "Ok"

AdvanceVerdict == IF failures # <<>> THEN "SystemFailed" ELSE "Ok"

\* Schedule::run returns: final deferred commands are applied, the schedule
\* goes back to its map, the context resource is removed, the call answered.
FinishSchedule ==
  LET out == IF call = "Execute" THEN ExecuteVerdict ELSE AdvanceVerdict IN
  /\ InSystems /\ panics = {}
  /\ \A s \in SystemsOf(trigger) : sys[s] = "done"
  /\ comps' = Despawned(deferred)
  /\ tampered' = (tampered \/ deferred # {})
  /\ schedules' = schedules \cup {trigger}
  /\ contexts' = contexts \ {trigger}
  /\ UNCHANGED <<open, index, spawned, handler, collector, failures>>
  /\ Return(call, out, NoKey, IF out = "SystemFailed" THEN SmallestFailure ELSE NoSystem)

\* The executor resumes the unwind once no system runs: the schedule, the
\* context and the commands still queued are lost, one of the payloads reaches
\* the boundary.
UnwindSchedule(kind) ==
  /\ InSystems /\ kind \in panics
  /\ \A s \in Systems : sys[s] # "running"
  /\ UNCHANGED <<open, clocks, resources, tampered>>
  /\ Answer(call, UnwindOutcome(kind))
-----------------------------------------------------------------------------
(* Execute *)

RejectExecute(e, inputOk) ==
  /\ Enter("Execute")
  /\ e \notin Entries \/ ~inputOk
  /\ RestoreResources
  /\ UNCHANGED <<open, clocks, failures, contexts, schedules, tampered>>
  /\ Answer("Execute", IF e \notin Entries THEN "UnknownExecuteEntry" ELSE "InvalidExecuteInput")

BeginExecute(e) ==
  /\ Enter("Execute")
  /\ e \in Entries
  /\ RestoreResources
  /\ IF e \in schedules
     THEN /\ RunSchedule(e)
          /\ call' = "Execute" /\ trigger' = e
          /\ UNCHANGED <<public, clocks, api, targets, prepared, applied, run, history>>
     ELSE /\ failures' = <<>>
          /\ UNCHANGED <<open, clocks, contexts, schedules, tampered>>
          /\ Answer("Execute", "BackendFailure")
-----------------------------------------------------------------------------
(* Advance: compute every transition, write them all, then run the         *)
(* response systems                                                        *)

Target == [instance : Instances, step : Steps]
Requests == UNION {[1..n -> Target] : n \in 0..MaxTargets}

AdvanceRequestVerdict(a, t, ts) ==
  IF t \notin ClockTypes THEN Unbound(a)
  ELSE IF ts = <<>> THEN "InvalidAdvanceRequest"
  ELSE IF \E i, j \in DOMAIN ts : i # j /\ ts[i].instance = ts[j].instance
       THEN "InvalidAdvanceRequest"
  ELSE "Ok"

RejectAdvance(a, t, ts) ==
  /\ Enter("Advance")
  /\ AdvanceRequestVerdict(a, t, ts) # "Ok"
  /\ UNCHANGED <<open, clocks, resources, tampered>>
  /\ Answer("Advance", AdvanceRequestVerdict(a, t, ts))

BeginAdvance(a, t, ts) ==
  /\ Enter("Advance")
  /\ AdvanceRequestVerdict(a, t, ts) = "Ok"
  /\ RestoreResources
  /\ call' = "Advance" /\ phase' = "prepare" /\ api' = a /\ trigger' = t /\ targets' = ts
  /\ UNCHANGED <<public, clocks, failures, contexts, schedules, prepared, applied, run, history>>

\* Clock::advance of the application: it rejects a step that leaves Values.
Advanced(v, step) == v + step

\* prepare_target, inside the checks of advance_json_for on the JSON path.
PrepareVerdict(a, k, step) ==
  LET before == comps[index[k]].value
      after  == Advanced(before, step)
  IN IF index[k] = NoEntity THEN "UnknownClockInstance"
     ELSE IF Json(a) /\ step \notin SchemaSteps THEN "InvalidClockStep"
     ELSE IF Json(a) /\ step \notin CodecSteps THEN "ClockTransitionFailed"
     ELSE IF ~HasComponent(index[k], k[1]) THEN "BackendFailure"
     ELSE IF before \notin ValidValues THEN "ClockTransitionFailed"
     ELSE IF after \notin Values \cap ValidValues THEN "ClockTransitionFailed"
     ELSE IF Json(a) /\ {before, after} \ CodecValues # {} THEN "ClockTransitionFailed"
     ELSE IF Json(a) /\ after \notin SchemaValues THEN "InvalidClockValue"
     ELSE "Ok"

NextTarget == targets[Len(prepared) + 1]
TargetKey(target) == <<trigger, target.instance>>

\* Defect: each transition is written as soon as it is computed.
PrepareAndApply ==
  LET k == TargetKey(NextTarget)
      after == Advanced(comps[index[k]].value, NextTarget.step) IN
  /\ phase = "prepare"
  /\ PrepareVerdict(api, k, NextTarget.step) = "Ok"
  /\ comps' = [comps EXCEPT ![index[k]].value = after]
  /\ prepared' = Append(prepared,
       [entity |-> index[k], before |-> comps[index[k]].value, after |-> after])
  /\ phase' = IF Len(prepared) + 1 = Len(targets) THEN "apply" ELSE "prepare"
  /\ UNCHANGED <<public, index, spawned, resources, call, api, trigger, targets, applied, run,
                 history>>

PrepareTarget ==
  LET k == TargetKey(NextTarget) IN
  /\ phase = "prepare"
  /\ PrepareVerdict(api, k, NextTarget.step) = "Ok"
  /\ prepared' = Append(prepared,
       [entity |-> index[k], before |-> comps[index[k]].value,
        after |-> Advanced(comps[index[k]].value, NextTarget.step)])
  /\ phase' = IF Len(prepared) + 1 = Len(targets) THEN "apply" ELSE "prepare"
  /\ UNCHANGED <<public, clocks, resources, call, api, trigger, targets, applied, run, history>>

\* The first target that fails, in request order, answers the whole request.
RejectTarget ==
  LET out == PrepareVerdict(api, TargetKey(NextTarget), NextTarget.step) IN
  /\ phase = "prepare" /\ out # "Ok"
  /\ UNCHANGED <<open, clocks, resources, tampered>>
  /\ Answer("Advance", out)

ApplyTarget ==
  LET update == prepared[applied + 1] IN
  /\ phase = "apply" /\ applied < Len(prepared)
  /\ IF HasComponent(update.entity, trigger)
     THEN /\ comps' = [comps EXCEPT ![update.entity] = [@ EXCEPT !.value = update.after]]
          /\ applied' = applied + 1
          /\ UNCHANGED <<public, index, spawned, resources, call, phase, api, trigger,
                         targets, prepared, run, history>>
     ELSE /\ UNCHANGED <<open, clocks, resources, tampered>>
          /\ Answer("Advance", "BackendFailure")

\* Defect: the loop over the prepared transitions waits for one too many.
RunAdvanceLate ==
  /\ phase = "apply" /\ applied = Len(prepared) + 1
  /\ RunSchedule(trigger)
  /\ UNCHANGED <<public, clocks, handler, collector, call, api, trigger, targets, prepared,
                 applied, run, history>>

RunAdvance ==
  /\ phase = "apply" /\ applied = Len(prepared)
  /\ IF Runnable(trigger)
     THEN /\ RunSchedule(trigger)
          /\ UNCHANGED <<public, clocks, handler, collector, call, api, trigger, targets,
                         prepared, applied, run, history>>
     ELSE /\ failures' = IF collector THEN <<>> ELSE failures
          /\ contexts' = IF collector THEN contexts ELSE contexts \cup {trigger}
          /\ UNCHANGED <<open, clocks, handler, collector, schedules, tampered>>
          /\ Answer("Advance", Unrunnable)

\* Clock::validate, Clock::advance, Clone or serde panics between two targets.
AdvanceUnwinds ==
  /\ phase \in {"prepare", "apply"}
  /\ UNCHANGED <<open, clocks, resources, tampered>>
  /\ Answer("Advance", "BackendPanicked")
-----------------------------------------------------------------------------
(* The native escape hatches *)

BeginWrite ==
  /\ Enter("WriteWorld")
  /\ RestoreResources
  /\ call' = "WriteWorld" /\ phase' = "native"
  /\ UNCHANGED <<public, clocks, failures, contexts, schedules, api, trigger, targets,
                 prepared, applied, run, history>>

EndWrite ==
  /\ phase = "native"
  /\ RestoreResources
  /\ UNCHANGED <<open, clocks, failures, contexts, schedules, tampered>>
  /\ Answer("WriteWorld", "Ok")

WriteUnwinds(kind) ==
  /\ phase = "native"
  /\ UNCHANGED <<open, clocks, resources, tampered>>
  /\ Answer("WriteWorld", UnwindOutcome(kind))

BeginInspect ==
  /\ Enter("InspectWorld") /\ open < MaxInspect
  /\ open' = open + 1
  /\ UNCHANGED <<status, last, clocks, resources, current, run, history>>

\* Defect: the status the closure was admitted in is written back at its end.
EndInspectRestores(out) ==
  /\ open > 0 /\ out \in {"Ok", "BackendPanicked"}
  /\ open' = open - 1
  /\ last' = [op |-> "InspectWorld", out |-> out, key |-> NoKey, system |-> NoSystem]
  /\ status' = IF out = "Ok" THEN "Active" ELSE "Faulted"
  /\ UNCHANGED <<clocks, resources, current, run, history>>

\* The closure was admitted when it began; a panic in it faults the simulation.
EndInspect(out) ==
  /\ open > 0 /\ out \in {"Ok", "BackendPanicked"}
  /\ open' = open - 1
  /\ UNCHANGED <<clocks, resources, tampered>>
  /\ Answer("InspectWorld", out)

\* Native code with &mut access: the closure of write_world, or a system.
NativeTurn == phase = "native" \/ \E s \in Systems : Running(s)
Live(e) == comps[e].key # NoKey

\* value_mut: any value of the type, Clock::validate does not run.
NativeSetValue(e, v) ==
  /\ NativeTurn /\ "value" \in NativeEffects
  /\ Live(e)
  /\ comps' = [comps EXCEPT ![e] = [@ EXCEPT !.value = v]]
  /\ UNCHANGED <<public, index, spawned, resources, current, run, history>>

\* Take the component of e and insert it in place of the one of f.
NativeReplace(e, f) ==
  /\ NativeTurn /\ "replace" \in NativeEffects
  /\ e # f /\ Live(e) /\ HasComponent(f, comps[e].key[1])
  /\ comps' = [comps EXCEPT ![f] = comps[e], ![e] = Vacant]
  /\ tampered' = TRUE
  /\ UNCHANGED <<public, index, spawned, resources, current, run, snap>>

\* A closure despawns at once, a system through Commands.
NativeDespawn(e) ==
  /\ "despawn" \in NativeEffects /\ Live(e)
  /\ \/ /\ phase = "native"
        /\ comps' = [comps EXCEPT ![e] = Vacant]
        /\ tampered' = TRUE
        /\ UNCHANGED deferred
     \/ /\ \E s \in Systems : Running(s)
        /\ deferred' = deferred \cup {e}
        /\ UNCHANGED <<comps, tampered>>
  /\ UNCHANGED <<public, index, spawned, resources, current, sys, panics, sink, outputs, snap>>

\* A closure replaces the fallback handler or clears the resources.
NativeResources ==
  /\ phase = "native" /\ "resources" \in NativeEffects
  /\ handler' = "custom"
  /\ collector' \in BOOLEAN
  /\ UNCHANGED <<public, clocks, failures, contexts, schedules, current, run, history>>
-----------------------------------------------------------------------------
Payloads == {"marker", "panic"}
OutputKinds == {"valid", "invalid", "unencodable"}

Reads ==
  \/ \E a \in Apis, k \in Keys : ReadClock(a, k)
  \/ \E k \in Keys : ReadClockUnwinds(k)
  \/ BeginInspect
  \/ \E out \in {"Ok", "BackendPanicked"} : EndInspect(out)

Writes ==
  \/ \E a \in Apis, k \in Keys, v \in Values : InsertClock(a, k, v)
  \/ \E k \in Keys, v \in Values, kind \in Payloads : InsertClockUnwinds(k, v, kind)
  \/ \E a \in Apis, k \in Keys : RemoveClock(a, k)
  \/ \E k \in Keys, kind \in Payloads : RemoveClockUnwinds(k, kind)
  \/ Stop

Advances ==
  \/ \E a \in Apis, t \in AskedTypes, ts \in Requests :
       RejectAdvance(a, t, ts) \/ BeginAdvance(a, t, ts)
  \/ PrepareTarget \/ RejectTarget \/ ApplyTarget \/ RunAdvance \/ AdvanceUnwinds

Executes ==
  \E e \in AskedEntries :
    BeginExecute(e) \/ \E inputOk \in BOOLEAN : RejectExecute(e, inputOk)

Schedules ==
  \/ \E s \in Systems :
       \/ StartSystem(s)
       \/ \E kind \in OutputKinds : SetOutput(s, kind)
       \/ \E ok \in BOOLEAN : FinishSystem(s, ok)
       \/ \E kind \in Payloads : SystemUnwinds(s, kind)
  \/ ApplyDeferred \/ FinishSchedule
  \/ \E kind \in Payloads : UnwindSchedule(kind)

Native ==
  \/ BeginWrite \/ EndWrite \/ NativeResources
  \/ \E kind \in Payloads : WriteUnwinds(kind)
  \/ \E e \in Entities, v \in Values : NativeSetValue(e, v)
  \/ \E e, f \in Entities : NativeReplace(e, f)
  \/ \E e \in Entities : NativeDespawn(e)

Next ==
  \/ \E op \in Operations : Refuse(op)
  \/ Reads \/ Writes \/ Advances \/ Executes \/ Schedules \/ Native

Spec == Init /\ [][Next]_vars
-----------------------------------------------------------------------------
(* Properties *)

PublicType ==
  /\ status \in Statuses
  /\ last \in [op : Operations, out : Outcomes \cup {"None"}, key : Keys \cup {NoKey},
              system : Systems \cup {NoSystem}]
  /\ open \in 0..MaxInspect
ClocksType ==
  /\ index \in [Keys -> 0..MaxEntities]
  /\ comps \in [Entities -> Component]
  /\ spawned \in 0..MaxEntities
ResourcesType ==
  /\ handler \in {"redacting", "custom"} /\ collector \in BOOLEAN
  /\ failures \in Seq(Systems)
  /\ contexts \in SUBSET Triggers /\ schedules \in SUBSET Triggers
CurrentType ==
  /\ call \in {"none", "Execute", "Advance", "WriteWorld"}
  /\ phase \in {"none", "native", "prepare", "apply", "systems"}
  /\ api \in Apis
  /\ trigger \in Triggers \cup {NoTrigger}
  /\ targets \in Seq(Target)
  /\ prepared \in Seq([entity : Entities, before : Values, after : Values])
  /\ applied \in Nat
RunType ==
  /\ sys \in [Systems -> {"waiting", "running", "done"}]
  /\ panics \in SUBSET Payloads
  /\ sink \in [attempts : Nat, notDeclared : BOOLEAN, encodingFailed : BOOLEAN,
              output : {"none", "valid", "invalid"}]
  /\ deferred \in SUBSET Entities
  /\ outputs \in [valid : Nat, invalid : Nat, unencodable : Nat]
HistoryType ==
  /\ snap \in [index : [Keys -> 0..MaxEntities], comps : [Entities -> Component]]
  /\ tampered \in BOOLEAN

\* Every variable stays in its type: the recorded outcome is one the operation
\* API names, a prepared transition names an entity of the world and a value of
\* the type, the sink never holds an output that could not be encoded.
TypeOK ==
  PublicType /\ ClocksType /\ ResourcesType /\ CurrentType /\ RunType /\ HistoryType

\* The clock index and the world agree.  Whatever native code did, no two keys
\* share an entity and every indexed entity was spawned.  As long as native
\* code has neither despawned nor replaced a clock and no call has faulted,
\* the index and the live clock components are in one-to-one correspondence:
\* no clock is lost, orphaned or reachable under another key, through inserts,
\* removals, reinsertions under the same key, advances and unwinds.
IndexSound ==
  /\ \A k \in Keys : index[k] <= spawned
  /\ \A j, k \in Keys : index[j] = index[k] /\ index[k] # NoEntity => j = k
  /\ ~tampered /\ status # "Faulted" =>
       /\ \A k \in Keys : index[k] # NoEntity => comps[index[k]].key = k
       /\ \A e \in Entities : Live(e) => comps[e].key \in Keys /\ index[comps[e].key] = e

\* A schedule is out of its map, and its context resource in the world, exactly
\* while it runs; the call that runs it has the redacting handler and a
\* collector, whatever a write_world closure did to them before.  Between calls an
\* unfaulted simulation has all its schedules and no leftover context.
ScheduleScope ==
  /\ phase \in {"prepare", "apply", "systems"} => handler = "redacting" /\ collector
  /\ InSystems => /\ contexts = {trigger} /\ schedules = Triggers \ {trigger}
  /\ ~InSystems /\ status # "Faulted" => contexts = {} /\ schedules = Triggers

\* The systems that chains of declarations put before system s: the smallest set
\* that holds what is declared before s and before any of its own members.
Ancestors ==
  [s \in Systems |->
     {p \in Systems : \A U \in SUBSET Systems :
        (\A q \in U \cup {s}, r \in Systems : DeclaredBefore(r, q) => r \in U) => p \in U}]

\* A schedule runs in the declared order and is never stuck in it.  No system
\* starts before all those that chains of declarations put before it, made by
\* either end of each link, have run, failed or panicked; and while one is left
\* that has not ended, some system runs or can start: the edges the executor
\* gets never make systems wait for each other.
DeclaredOrderHolds ==
  InSystems =>
    /\ \A s \in SystemsOf(trigger) :
         sys[s] # "waiting" => \A p \in Ancestors[s] : sys[p] = "done"
    /\ (\E s \in SystemsOf(trigger) : sys[s] # "done") =>
         \E s \in SystemsOf(trigger) :
           \/ sys[s] = "running"
           \/ sys[s] = "waiting" /\ \A p \in Predecessors(s) : sys[p] = "done"

\* An error that does not fault the simulation leaves the clocks exactly as
\* they were when the call was made: a batch rejected at its last target, an
\* insert rejected by validation, a removal whose value cannot be encoded.
BenignLeavesNoTrace ==
  [][call' = "none" /\ last'.out \in Benign => Clocks' = snap]_vars

\* The value a target of the current Advance must reach, from the world the
\* request was made in.
Reached(target) ==
  Advanced(snap.comps[snap.index[TargetKey(target)]].value, target.step)
TargetedBy(e, target) == snap.index[TargetKey(target)] = e

\* A batch writes nothing until every target is computed, and the response
\* systems start only when each target has advanced by its own step and no
\* other clock has moved.
BatchIsAllOrNothing ==
  [][/\ phase = "prepare" /\ phase' # "none" => comps' = snap.comps
     /\ phase = "apply" /\ phase' = "systems" =>
          \A e \in Entities :
            IF \E i \in DOMAIN targets : TargetedBy(e, targets[i])
            THEN \E i \in DOMAIN targets :
                   /\ TargetedBy(e, targets[i])
                   /\ comps'[e] = [snap.comps[e] EXCEPT !.value = Reached(targets[i])]
            ELSE comps'[e] = snap.comps[e]]_vars

\* Stop and faults are final.  A stopped simulation can still be faulted, by a
\* read that panics or finds the index corrupt, but it never becomes active
\* again and its clocks never change; a faulted one never changes at all.
NoWayBack ==
  [][/\ status = "Stopped" => status' # "Active" /\ UNCHANGED clocks
     /\ status = "Faulted" => UNCHANGED <<status, clocks>>]_vars

\* What a read of clock k through API a would be answered now.
WouldAnswer(a, k) ==
  IF Admits("ReadClock", status) THEN ReadVerdict(a, k) ELSE Refusal(status)

\* As long as an inspection is open, at any depth, all its reads are of the
\* world and the lifecycle state it opened on: whatever else is read, refused,
\* opened or closed in it, no read of any clock changes its answer.  The one
\* exception is a fault, raised through the Cell by a read or a nested closure
\* and told to its caller: from that step on every read is refused as Faulted,
\* also when the closures still open around it end well.
InspectionsReadOneWorld ==
  [][open > 0 =>
       \A a \in Apis, k \in Keys :
         WouldAnswer(a, k)' = IF last'.out \in BackendFault THEN "Faulted" ELSE WouldAnswer(a, k)]_vars

\* What an Execute must answer, from what its systems did taken as a set: how
\* many outputs of each kind were offered and which systems failed.
Offered == outputs.valid + outputs.invalid + outputs.unencodable
ExpectedOutcome ==
  IF call = "Execute" /\ Offered > 0 /\ trigger \notin Declared THEN "UnexpectedExecuteOutput"
  ELSE IF call = "Execute" /\ Offered > 1 THEN "ConflictingExecuteOutput"
  ELSE IF call = "Execute" /\ outputs.unencodable = 1 THEN "ExecuteOutputEncodingFailed"
  ELSE IF Failed # {} THEN "SystemFailed"
  ELSE IF call = "Execute" /\ trigger \in Declared /\ Offered = 0 THEN "MissingExecuteOutput"
  ELSE IF call = "Execute" /\ outputs.invalid = 1 THEN "InvalidExecuteOutput"
  ELSE "Ok"

\* The outcome of a schedule that ran to its end does not depend on the order
\* in which parallel systems offered outputs or failed, and the system blamed
\* is the smallest that failed.
VerdictIgnoresArrivalOrder ==
  [][InSystems /\ phase' = "none" /\ panics = {} =>
       /\ last'.out = ExpectedOutcome
       /\ last'.out = "SystemFailed" =>
            last'.system \in Failed /\ \A s \in Failed : last'.system <= s]_vars

\* The backend keeps the contract of armillae-simulate.
Contract == INSTANCE SimulationContract WITH last <- [op |-> last.op, out |-> last.out]
RefinesContract == Contract!Spec

\* A read that succeeds returns the component of the clock it was asked for.
IdentityPreserved ==
  [][call' = "none" /\ last' # last /\ last'.op = "ReadClock" /\ last'.out = "Ok" =>
       comps[index[last'.key]].key = last'.key]_vars

\* Systems and closures of the application return or panic; the adapter itself
\* never waits.
Fairness ==
  /\ WF_vars(PrepareTarget \/ RejectTarget \/ ApplyTarget \/ RunAdvance)
  /\ \A s \in Systems :
       /\ WF_vars(StartSystem(s))
       /\ WF_vars(\E ok \in BOOLEAN : FinishSystem(s, ok))
  /\ WF_vars(FinishSchedule \/ \E kind \in Payloads : UnwindSchedule(kind))
  /\ WF_vars(EndWrite)

FairSpec == Spec /\ Fairness

\* Every admitted call comes to an outcome: batches run out of targets, and the
\* declared order of the systems lets every one of them start.
EveryCallReturns == call # "none" ~> call = "none"
=============================================================================

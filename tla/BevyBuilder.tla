----------------------------- MODULE BevyBuilder -----------------------------
(***************************************************************************)
(* How a BevySimulation is built: BevySimulationBuilder, the staging       *)
(* BevyModuleRegistrar of one registration, and activation.                *)
(*                                                                         *)
(* A module is application code.  Its descriptor() and register() return,  *)
(* fail or panic, and register() makes registrar calls in any order, so    *)
(* every call is an action.  Activation runs no application code but the   *)
(* initialization of systems: it is one action.                            *)
(*                                                                         *)
(* A descriptor is data: of its schemas and API version only whether they  *)
(* are acceptable is kept, of a version requirement the versions it        *)
(* matches.                                                                *)
(***************************************************************************)
EXTENDS Checks, Naturals, FiniteSets, Functions

CONSTANTS
  Descriptors,   \* the descriptors modules may return
  NoDescriptor,  \* no registration in progress
  ModuleIds, Versions, Capabilities, Entries, ClockTypes, SystemIds,
  RustTypes,     \* Rust types implementing Clock
  Supported,     \* what capabilities() of the Bevy backend lists
  Propagates,    \* do register() implementations return the errors they get?
  MaxModules     \* bound: modules registered

Triggers == Entries \cup ClockTypes
Planes == {"native", "hosted", "foreign", "outdated"}
Dependency == [id : ModuleIds, accepts : SUBSET Versions]
System == [id : SystemIds, trigger : Triggers, before : Seq(SystemIds), after : Seq(SystemIds)]
Descriptor ==
  [id : ModuleIds, version : Versions, apiSupported : BOOLEAN, schemasValid : BOOLEAN,
   plane : Planes, capabilities : SUBSET Capabilities, deps : Seq(Dependency),
   entries : Seq(Entries), clocks : Seq(ClockTypes), systems : Seq(System)]
ClockRegistration == [type : ClockTypes, rust : RustTypes]
RegisteredModule ==
  [descriptor : Descriptors, clocks : SUBSET ClockRegistration, systems : SUBSET SystemIds]

ASSUME DescriptorAssumption ==
  /\ Descriptors \subseteq Descriptor /\ NoDescriptor \notin Descriptors
  /\ Entries \cap ClockTypes = {}
  /\ Supported \subseteq Capabilities
  /\ Propagates \in BOOLEAN /\ MaxModules \in Nat

VARIABLES
  phase,      \* "building", "registering", "active" or "discarded"
  modules,    \* BevySimulationBuilder.modules, in registration order
  staged,     \* the descriptor under registration
  registrar,  \* BevyModuleRegistrar: what register() has bound so far
  graph,      \* what activation built: entries, bound clock types, schedules
  last,       \* the outcome of the last registration or activation, if over
  blamed      \* the systems an OrderingCycle names

vars == <<phase, modules, staged, registrar, graph, last, blamed>>

NewRegistrar == [ids |-> {}, types |-> {}, clocks |-> {}, systems |-> {}, erred |-> FALSE]
NoGraph == [entries |-> {}, clocks |-> {}, schedules |-> [t \in {} |-> {}]]

Init ==
  /\ phase = "building"
  /\ modules = <<>>
  /\ staged = NoDescriptor /\ registrar = NewRegistrar
  /\ graph = NoGraph
  /\ last = "None" /\ blamed = {}

IdsOf(records) == [i \in DOMAIN records |-> records[i].id]
Shared(r, s) == Range(r) \cap Range(s) # {}
-----------------------------------------------------------------------------
(* Registering a module *)

\* validate_descriptor.
DescriptorVerdict(d) ==
  IF /\ d.apiSupported /\ d.schemasValid
     /\ IsInjective(IdsOf(d.deps)) /\ d.id \notin Range(IdsOf(d.deps))
     /\ IsInjective(d.entries) /\ IsInjective(d.clocks) /\ IsInjective(IdsOf(d.systems))
  THEN "Ok" ELSE "InvalidDescriptor"

\* register_boxed_module up to register(): descriptor() is called once.
Describe(d) ==
  /\ phase = "building" /\ Len(modules) < MaxModules
  /\ IF DescriptorVerdict(d) = "Ok"
     THEN /\ phase' = "registering" /\ staged' = d /\ registrar' = NewRegistrar
          /\ last' = "None"
     ELSE /\ last' = DescriptorVerdict(d)
          /\ UNCHANGED <<phase, staged, registrar>>
  /\ UNCHANGED <<modules, graph, blamed>>

DescriptorPanics ==
  /\ phase = "building" /\ Len(modules) < MaxModules
  /\ last' = "NativeRegistrationFailed"
  /\ UNCHANGED <<phase, modules, staged, registrar, graph, blamed>>

Registering == phase = "registering" /\ ~(Propagates /\ registrar.erred)

\* Defect: a Rust type may be bound to two clock types.
BindClockById(t, c) ==
  /\ Registering
  /\ registrar' =
       IF t \notin Range(staged.clocks) \/ t \in registrar.ids
       THEN [registrar EXCEPT !.erred = TRUE]
       ELSE [registrar EXCEPT !.ids = @ \cup {t}, !.types = @ \cup {c},
                              !.clocks = @ \cup {[type |-> t, rust |-> c]}]
  /\ UNCHANGED <<phase, modules, staged, graph, last, blamed>>

\* bind_clock::<C>(t).  The id is reserved before the Rust type is looked at.
BindClock(t, c) ==
  /\ Registering
  /\ registrar' =
       IF t \notin Range(staged.clocks) \/ t \in registrar.ids
       THEN [registrar EXCEPT !.erred = TRUE]
       ELSE IF c \in registrar.types
       THEN [registrar EXCEPT !.ids = @ \cup {t}, !.erred = TRUE]
       ELSE [registrar EXCEPT !.ids = @ \cup {t}, !.types = @ \cup {c},
                              !.clocks = @ \cup {[type |-> t, rust |-> c]}]
  /\ UNCHANGED <<phase, modules, staged, graph, last, blamed>>

\* add_system and add_fallible_system.
AddSystem(s) ==
  /\ Registering
  /\ registrar' =
       IF s \notin Range(IdsOf(staged.systems)) \/ s \in registrar.systems
       THEN [registrar EXCEPT !.erred = TRUE]
       ELSE [registrar EXCEPT !.systems = @ \cup {s}]
  /\ UNCHANGED <<phase, modules, staged, graph, last, blamed>>

\* The registration is over; what was staged is dropped or committed.
Finish(out) ==
  /\ phase' = "building" /\ staged' = NoDescriptor /\ registrar' = NewRegistrar
  /\ last' = out
  /\ modules' =
       IF out = "Ok"
       THEN Append(modules, [descriptor |-> staged, clocks |-> registrar.clocks,
                             systems |-> registrar.systems])
       ELSE modules
  /\ UNCHANGED <<graph, blamed>>

\* Defect: the clocks are not counted.
FinishSystemsOnly ==
  IF Cardinality(registrar.systems) # Len(staged.systems)
  THEN "NativeRegistrationFailed" ELSE "Ok"

\* BevyModuleRegistrar::finish.
FinishVerdict ==
  IF \/ Cardinality(registrar.ids) # Len(staged.clocks)
     \/ Cardinality(registrar.systems) # Len(staged.systems)
  THEN "NativeRegistrationFailed" ELSE "Ok"

\* Defect: Rust types are compared within the module only.
ConflictByIds(m) ==
  IF m.descriptor.id = staged.id THEN "DuplicateModule"
  ELSE IF Shared(m.descriptor.entries, staged.entries) THEN "DuplicateExecuteEntry"
  ELSE IF Shared(m.descriptor.clocks, staged.clocks) THEN "DuplicateClockType"
  ELSE IF Shared(IdsOf(m.descriptor.systems), IdsOf(staged.systems)) THEN "DuplicateSystem"
  ELSE "Ok"

\* check_global_conflicts against one registered module.
Conflict(m) ==
  IF m.descriptor.id = staged.id THEN "DuplicateModule"
  ELSE IF Shared(m.descriptor.entries, staged.entries) THEN "DuplicateExecuteEntry"
  ELSE IF Shared(m.descriptor.clocks, staged.clocks) THEN "DuplicateClockType"
  ELSE IF \E c \in m.clocks, e \in registrar.clocks : c.rust = e.rust
  THEN "NativeRegistrationFailed"
  ELSE IF Shared(IdsOf(m.descriptor.systems), IdsOf(staged.systems)) THEN "DuplicateSystem"
  ELSE "Ok"

\* register() returns Ok.
RegisterReturns ==
  /\ Registering
  /\ Finish(FirstError(<<FinishVerdict>> \o [i \in DOMAIN modules |-> Conflict(modules[i])]))

\* register() panics or returns an error, of the registrar or its own: of its
\* own errors the kind does not matter.
RegisterFails ==
  /\ phase = "registering"
  /\ Finish("NativeRegistrationFailed")
-----------------------------------------------------------------------------
(* Validating the modules ms together: validate_modules *)

DescriptorsOf(ms) == {ms[i].descriptor : i \in DOMAIN ms}
SystemsOf(ms) == UNION {Range(d.systems) : d \in DescriptorsOf(ms)}
ProviderOf(ms, t) ==
  {d.id : d \in {e \in DescriptorsOf(ms) : t \in Range(e.entries) \cup Range(e.clocks)}}
OwnerOf(ms, s) ==
  {d.id : d \in {e \in DescriptorsOf(ms) : s \in Range(IdsOf(e.systems))}}

\* What d may refer to: its own and what its dependencies own.
Visible(d, owners) == owners \cap ({d.id} \cup Range(IdsOf(d.deps))) # {}

PlaneVerdict ==
  [native |-> "Ok", hosted |-> "UnsupportedExecutionPlane",
   foreign |-> "BackendMismatch", outdated |-> "IncompatibleAdapter"]

DependencyVerdict(ms, dep) ==
  LET found == {d \in DescriptorsOf(ms) : d.id = dep.id}
  IN IF found = {} THEN "MissingDependency"
     ELSE IF \E d \in found : d.version \notin dep.accepts THEN "IncompatibleDependency"
     ELSE "Ok"

\* One ordering target of system s of module d.
OrderingVerdict(ms, d, s, target) ==
  LET found == {x \in SystemsOf(ms) : x.id = target}
  IN IF target = s.id THEN "SelfReference"
     ELSE IF found = {} THEN "UnknownSystem"
     ELSE IF \E x \in found : x.trigger # s.trigger THEN "DifferentTrigger"
     ELSE IF ~Visible(d, OwnerOf(ms, target)) THEN "UnknownSystem"
     ELSE "Ok"

SystemVerdict(ms, d, s) ==
  LET targets == s.before \o s.after
  IN IF ~Visible(d, ProviderOf(ms, s.trigger)) THEN "UnknownTrigger"
     ELSE FirstError([i \in DOMAIN targets |-> OrderingVerdict(ms, d, s, targets[i])])

\* Defect: a dependency must have been registered before.
ModuleVerdictInOrder(ms, i) ==
  LET d == ms[i].descriptor IN
  FirstError(
    <<PlaneVerdict[d.plane],
      IF d.capabilities \subseteq Supported THEN "Ok" ELSE "UnsupportedCapability">>
    \o [k \in DOMAIN d.deps |-> DependencyVerdict(SubSeq(ms, 1, i), d.deps[k])]
    \o [k \in DOMAIN d.systems |-> SystemVerdict(ms, d, d.systems[k])])

ModuleVerdict(ms, i) ==
  LET d == ms[i].descriptor IN
  FirstError(
    <<PlaneVerdict[d.plane],
      IF d.capabilities \subseteq Supported THEN "Ok" ELSE "UnsupportedCapability">>
    \o [k \in DOMAIN d.deps |-> DependencyVerdict(ms, d.deps[k])]
    \o [k \in DOMAIN d.systems |-> SystemVerdict(ms, d, d.systems[k])])

\* Defect: only one side of the order is read.
PrecedesBefore(x, y) == y.id \in Range(x.before)

\* The edges of validate_cycles: declared by either side, once.
Precedes(x, y) == y.id \in Range(x.before) \/ x.id \in Range(y.after)

\* Defect: the systems ready at the start are the only ones removed.
UnresolvedAtStart(S) == {y \in S : \E x \in S : Precedes(x, y)}

\* Kahn's algorithm on the systems S of one trigger: remove one system whose
\* indegree has dropped to zero, until there is none.  The code pops the
\* smallest id; what is left does not depend on the choice.
Unresolved(S) ==
  LET left[R \in SUBSET S] ==
        LET indegree(y) == Cardinality({x \in R : Precedes(x, y)})
            ready == {y \in R : indegree(y) = 0}
        IN IF ready = {} THEN R ELSE left[R \ {CHOOSE y \in ready : TRUE}]
  IN left[S]

UnresolvedIds(S) == {s.id : s \in {x \in S : x \in Unresolved(S)}}

TriggeredBy(ms, t) == {s \in SystemsOf(ms) : s.trigger = t}
Cyclic(ms) == {t \in Triggers : Unresolved(TriggeredBy(ms, t)) # {}}

\* validate_modules.
ValidationVerdict(ms) ==
  LET first == FirstError([i \in DOMAIN ms |-> ModuleVerdict(ms, i)])
  IN IF first # "Ok" THEN first
     ELSE IF Cyclic(ms) # {} THEN "OrderingCycle"
     ELSE "Ok"
-----------------------------------------------------------------------------
(* Activation: from_builder *)

Registrations == UNION {{<<i, c>> : c \in modules[i].clocks} : i \in DOMAIN modules}

\* The checks from_builder repeats on what the registrations left.
RebuildVerdict ==
  IF \/ \E r \in Registrations : r[2].type \notin Range(modules[r[1]].descriptor.clocks)
     \/ \E r, q \in Registrations : r # q /\ r[1] = q[1] /\ r[2].type = q[2].type
  THEN "MissingClockDefinition"
  ELSE IF \E r, q \in Registrations : r # q /\ r[2].rust = q[2].rust
  THEN "RustTypeRebound"
  ELSE "Ok"

Implemented ==
  UNION {{s \in Range(modules[i].descriptor.systems) : s.id \in modules[i].systems}
         : i \in DOMAIN modules}

\* A schedule for every entry and every bound clock type, with the systems of
\* all modules that respond to it.
BuildGraph ==
  LET entries == UNION {Range(d.entries) : d \in DescriptorsOf(modules)}
      clocks  == {r[2].type : r \in Registrations}
  IN [entries |-> entries, clocks |-> clocks,
      schedules |-> [t \in entries \cup clocks |-> {s \in Implemented : s.trigger = t}]]

\* The order build_schedule configures: y waits for x.
Waits(y, x) == x.id \in Range(y.after) \/ y.id \in Range(x.before)

\* activate() consumes the builder.
Discard(out, systems) ==
  /\ phase' = "discarded" /\ last' = out /\ blamed' = systems
  /\ UNCHANGED <<modules, staged, registrar, graph>>

Activate ==
  LET out == FirstError(<<ValidationVerdict(modules), RebuildVerdict>>) IN
  /\ phase = "building"
  /\ IF out = "Ok"
     THEN /\ phase' = "active" /\ graph' = BuildGraph /\ last' = "Ok"
          /\ UNCHANGED <<modules, staged, registrar, blamed>>
     ELSE IF out = "OrderingCycle"
     THEN \E t \in Cyclic(modules) :
            Discard(out, UnresolvedIds(TriggeredBy(modules, t)))
     ELSE Discard(out, {})

\* Initializing a system of some schedule fails or panics.
GraphBuildFails ==
  /\ phase = "building"
  /\ FirstError(<<ValidationVerdict(modules), RebuildVerdict>>) = "Ok"
  /\ \E t \in DOMAIN BuildGraph.schedules : BuildGraph.schedules[t] # {}
  /\ Discard("SystemGraphBuildFailed", {})
-----------------------------------------------------------------------------
Next ==
  \/ \E d \in Descriptors : Describe(d)
  \/ DescriptorPanics
  \/ \E t \in ClockTypes, c \in RustTypes : BindClock(t, c)
  \/ \E s \in SystemIds : AddSystem(s)
  \/ RegisterReturns \/ RegisterFails
  \/ Activate \/ GraphBuildFails

Spec == Init /\ [][Next]_vars
-----------------------------------------------------------------------------
(* Properties *)

RegistrarType ==
  [ids : SUBSET ClockTypes, types : SUBSET RustTypes, clocks : SUBSET ClockRegistration,
   systems : SUBSET SystemIds, erred : BOOLEAN]
BuildErrors ==
  {"InvalidDescriptor", "NativeRegistrationFailed", "DuplicateModule",
   "DuplicateExecuteEntry", "DuplicateClockType", "DuplicateSystem",
   "UnsupportedExecutionPlane", "BackendMismatch", "IncompatibleAdapter",
   "UnsupportedCapability", "MissingDependency", "IncompatibleDependency",
   "UnknownTrigger", "SelfReference", "UnknownSystem", "DifferentTrigger",
   "OrderingCycle", "SystemGraphBuildFailed"}

\* Every variable stays in its type.  BuildErrors leaves out what from_builder's
\* own checks would answer: a builder filled by register_module never fails on a
\* clock registration without a definition or on a rebound Rust type.
TypeOK ==
  /\ phase \in {"building", "registering", "active", "discarded"}
  /\ modules \in Seq(RegisteredModule) /\ Len(modules) <= MaxModules
  /\ staged \in Descriptors \cup {NoDescriptor}
  /\ phase = "registering" <=> staged # NoDescriptor
  /\ registrar \in RegistrarType
  /\ last \in BuildErrors \cup {"None", "Ok"}
  /\ blamed \subseteq SystemIds

\* Any two registered modules differ in everything that must be unique in a
\* simulation, whatever registrations failed, panicked or ignored errors before:
\* the maps activation builds by these keys lose nothing.
Disjoint(m, n) ==
  /\ m.descriptor.id # n.descriptor.id
  /\ ~Shared(m.descriptor.entries, n.descriptor.entries)
  /\ ~Shared(m.descriptor.clocks, n.descriptor.clocks)
  /\ ~Shared(IdsOf(m.descriptor.systems), IdsOf(n.descriptor.systems))
  /\ \A c \in m.clocks, e \in n.clocks : c.rust # e.rust
ModulesDisjoint == \A i, j \in DOMAIN modules : i # j => Disjoint(modules[i], modules[j])

\* The declarations of every registered module and its implementations
\* correspond one to one: each clock type has one Rust type of its own, each
\* system one implementation.
Complete(m) ==
  /\ \A t \in Range(m.descriptor.clocks) :
       \E c \in m.clocks : c.type = t /\ \A e \in m.clocks : e.type = t \/ e.rust = c.rust => e = c
  /\ m.systems = Range(IdsOf(m.descriptor.systems))
DeclarationsBound == \A i \in DOMAIN modules : Complete(modules[i])

\* The systems of S that could never start: the largest part of S in which
\* every system waits for another of that part.
Stuck(S) == UNION {B \in SUBSET S : \A y \in B : \E x \in B : Waits(y, x)}

\* An activated simulation has every registered system in the schedule of its
\* trigger and in no other, and no schedule holds systems that wait for each
\* other: the simulation's calls can always finish.
ActivatedGraphRuns ==
  phase = "active" =>
    /\ \A s \in SystemsOf(modules) :
         s.trigger \in DOMAIN graph.schedules /\ s \in graph.schedules[s.trigger]
    /\ \A t \in DOMAIN graph.schedules :
         /\ \A s \in graph.schedules[t] : s.trigger = t
         /\ Stuck(graph.schedules[t]) = {}

\* An OrderingCycle names exactly the systems of one trigger that could never
\* start: those on a cycle and those behind one.
CycleReportExact ==
  last = "OrderingCycle" =>
    /\ blamed # {}
    /\ \E t \in Triggers : blamed = {s.id : s \in Stuck(TriggeredBy(modules, t))}

\* Whether the modules can be activated does not depend on the order in which
\* they were registered: dependencies, triggers and orderings may point forwards.
ActivationIgnoresOrder ==
  phase = "building" =>
    \A p \in Bijection(DOMAIN modules, DOMAIN modules) :
      ValidationVerdict(modules) = "Ok" <=>
        ValidationVerdict([i \in DOMAIN modules |-> modules[p[i]]]) = "Ok"
=============================================================================

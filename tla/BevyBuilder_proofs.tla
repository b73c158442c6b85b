------------------------ MODULE BevyBuilder_proofs ------------------------
(***************************************************************************)
(* Theorems about BevyBuilder, for every set of descriptors and every      *)
(* number of modules.                                                      *)
(***************************************************************************)
EXTENDS BevyBuilder, SequenceFacts, FiniteSetTheorems, SequenceTheorems, TLAPS

Verdicts == BuildErrors \cup {"Ok"}
-----------------------------------------------------------------------------
(* Sequences of checks *)

\* One check for each element of a sequence.
LEMMA EachFacts ==
  ASSUME NEW S, NEW s \in Seq(S), NEW V, NEW f, f = [i \in DOMAIN s |-> f[i]],
         \A i \in DOMAIN s : f[i] \in V
  PROVE  f \in Seq(V) /\ DOMAIN f = DOMAIN s /\ Len(f) = Len(s)
  <1>1. Len(s) \in Nat /\ DOMAIN s = 1..Len(s)
    OBVIOUS
  <1> QED BY <1>1
-----------------------------------------------------------------------------
(* Registration *)

\* As many elements of a sequence without repetition as it is long are all.
LEMMA CountedIsAll ==
  ASSUME NEW T, NEW s \in Seq(T), IsInjective(s),
         NEW A, A \subseteq Range(s), Cardinality(A) = Len(s)
  PROVE  A = Range(s)
  <1> DEFINE n == Len(s)
  <1>1. n \in Nat /\ DOMAIN s = 1..n /\ IsFiniteSet(1..n) /\ Cardinality(1..n) = n
    <2>1. n \in Nat /\ DOMAIN s = 1..n
      OBVIOUS
    <2> HIDE DEF n
    <2> QED BY <2>1, FS_Interval
  <1>2. s \in Injection(1..n, Range(s)) /\ s \in Surjection(1..n, Range(s))
    BY <1>1 DEF Injection, Surjection, Range
  <1>3. IsFiniteSet(Range(s)) /\ Cardinality(Range(s)) = n
    BY <1>1, <1>2, FS_Surjection
  <1> QED BY <1>3, FS_Subset

LEMMA IdsFacts ==
  ASSUME NEW S, NEW records \in Seq(S), NEW I, \A r \in S : r.id \in I
  PROVE  IdsOf(records) \in Seq(I) /\ Len(IdsOf(records)) = Len(records)
  <1> DEFINE f == IdsOf(records)
  <1>1. f = [i \in DOMAIN records |-> f[i]]
    BY DEF IdsOf
  <1>2. \A i \in DOMAIN records : f[i] \in I
    BY ElementOfSeq DEF IdsOf
  <1> HIDE DEF f
  <1> QED BY <1>1, <1>2, EachFacts DEF f

LEMMA DescriptorFacts ==
  ASSUME NEW d \in Descriptors
  PROVE  /\ d \in Descriptor
         /\ IdsOf(d.systems) \in Seq(SystemIds) /\ Len(IdsOf(d.systems)) = Len(d.systems)
         /\ IdsOf(d.deps) \in Seq(ModuleIds)
  <1>1. d \in Descriptor
    BY DescriptorAssumption
  <1>2. d.systems \in Seq(System) /\ d.deps \in Seq(Dependency)
    BY <1>1 DEF Descriptor
  <1>3. (\A s \in System : s.id \in SystemIds) /\ (\A x \in Dependency : x.id \in ModuleIds)
    BY DEF System, Dependency
  <1> QED BY <1>1, <1>2, <1>3, IdsFacts

LEMMA DescriptorVerdictOk ==
  ASSUME NEW d, DescriptorVerdict(d) = "Ok"
  PROVE  IsInjective(d.clocks) /\ IsInjective(IdsOf(d.systems))
  BY DEF DescriptorVerdict

OneToOne(bindings) ==
  \A c, e \in bindings : c.type = e.type \/ c.rust = e.rust => c = e
AllBound(types, bindings) == \A t \in types : \E c \in bindings : c.type = t

\* The registrar accepts only what the descriptor declares; if it has given no
\* error, every clock type it noted is bound.
RegistrarSound ==
  /\ registrar \in RegistrarType
  /\ phase = "registering" =>
       /\ staged \in Descriptors /\ DescriptorVerdict(staged) = "Ok"
       /\ registrar.ids \subseteq Range(staged.clocks)
       /\ registrar.systems \subseteq Range(IdsOf(staged.systems))
       /\ \A c \in registrar.clocks : c.type \in registrar.ids /\ c.rust \in registrar.types
       /\ OneToOne(registrar.clocks)
       /\ ~registrar.erred => AllBound(registrar.ids, registrar.clocks)

ModuleSound(m) ==
  /\ \A c \in m.clocks : c.type \in Range(m.descriptor.clocks)
  /\ OneToOne(m.clocks)
  /\ m.systems = Range(IdsOf(m.descriptor.systems))
  /\ Propagates => AllBound(Range(m.descriptor.clocks), m.clocks)
ModulesSound ==
  modules \in Seq(RegisteredModule) /\ \A i \in DOMAIN modules : ModuleSound(modules[i])

BuilderInv ==
  /\ phase \in {"building", "registering", "active", "discarded"}
  /\ RegistrarSound /\ ModulesSound /\ ModulesDisjoint

LEMMA NewRegistrarTyped == NewRegistrar \in RegistrarType
  BY DEF NewRegistrar, RegistrarType

LEMMA NoSuchConflict ==
  ASSUME NEW m, NEW n, Conflict(m) = "Ok",
         n = [descriptor |-> staged, clocks |-> registrar.clocks, systems |-> registrar.systems]
  PROVE  Disjoint(m, n) /\ Disjoint(n, m)
  BY DEF Conflict, Disjoint, Shared

LEMMA BindClockSound ==
  ASSUME RegistrarSound, NEW t \in ClockTypes, NEW c \in RustTypes, BindClock(t, c)
  PROVE  RegistrarSound'
  <1>1. phase = "registering" /\ phase' = phase /\ staged' = staged
    BY DEF BindClock, Registering
  <1>2. CASE t \notin Range(staged.clocks) \/ t \in registrar.ids
    <2>1. registrar' = [registrar EXCEPT !.erred = TRUE]
      BY <1>2 DEF BindClock
    <2> QED BY <1>1, <2>1 DEF RegistrarSound, RegistrarType
  <1>3. CASE /\ ~(t \notin Range(staged.clocks) \/ t \in registrar.ids)
             /\ c \in registrar.types
    <2>1. registrar' = [registrar EXCEPT !.ids = @ \cup {t}, !.erred = TRUE]
      BY <1>3 DEF BindClock
    <2> QED BY <1>1, <1>3, <2>1 DEF RegistrarSound, RegistrarType
  <1>4. CASE /\ ~(t \notin Range(staged.clocks) \/ t \in registrar.ids)
             /\ c \notin registrar.types
    <2> DEFINE b == [type |-> t, rust |-> c]
    <2>1. registrar' = [registrar EXCEPT !.ids = @ \cup {t}, !.types = @ \cup {c},
                                         !.clocks = @ \cup {b}]
      BY <1>4 DEF BindClock
    <2>2. registrar' \in RegistrarType
      <3>1. b \in ClockRegistration
        BY DEF ClockRegistration
      <3> HIDE DEF b
      <3> QED BY <2>1, <3>1 DEF RegistrarSound, RegistrarType
    <2>3. /\ registrar'.ids = registrar.ids \cup {t}
          /\ registrar'.types = registrar.types \cup {c}
          /\ registrar'.clocks = registrar.clocks \cup {b}
          /\ registrar'.systems = registrar.systems /\ registrar'.erred = registrar.erred
      BY <2>1 DEF RegistrarSound, RegistrarType
    <2>4. \A e \in registrar.clocks : e.type # t /\ e.rust # c
      BY <1>1, <1>4 DEF RegistrarSound
    <2>5. OneToOne(registrar'.clocks)
      BY <1>1, <2>3, <2>4 DEF RegistrarSound, OneToOne
    <2>6. \A e \in registrar'.clocks : e.type \in registrar'.ids /\ e.rust \in registrar'.types
      BY <1>1, <2>3 DEF RegistrarSound
    <2>7. ~registrar'.erred => AllBound(registrar'.ids, registrar'.clocks)
      <3>1. b \in registrar'.clocks /\ b.type = t
        BY <2>3
      <3> HIDE DEF b
      <3> QED BY <1>1, <2>3, <3>1 DEF RegistrarSound, AllBound
    <2> QED BY <1>1, <1>4, <2>2, <2>3, <2>5, <2>6, <2>7 DEF RegistrarSound
  <1> QED BY <1>2, <1>3, <1>4

LEMMA AddSystemSound ==
  ASSUME RegistrarSound, NEW s \in SystemIds, AddSystem(s)
  PROVE  RegistrarSound'
  <1>1. phase = "registering" /\ phase' = phase /\ staged' = staged
    BY DEF AddSystem, Registering
  <1>2. CASE s \notin Range(IdsOf(staged.systems)) \/ s \in registrar.systems
    BY <1>1, <1>2 DEF AddSystem, RegistrarSound, RegistrarType
  <1>3. CASE ~(s \notin Range(IdsOf(staged.systems)) \/ s \in registrar.systems)
    BY <1>1, <1>3 DEF AddSystem, RegistrarSound, RegistrarType
  <1> QED BY <1>2, <1>3

\* What a successful registration appends is complete and clashes with nothing.
LEMMA CommitSound ==
  ASSUME BuilderInv, RegisterReturns, last' = "Ok"
  PROVE  ModulesSound' /\ ModulesDisjoint'
  <1> DEFINE new == [descriptor |-> staged, clocks |-> registrar.clocks,
                     systems |-> registrar.systems]
             conflicts == [i \in DOMAIN modules |-> Conflict(modules[i])]
             n == Len(modules)
  <1>1. phase = "registering" /\ staged \in Descriptors /\ registrar \in RegistrarType
    BY DEF BuilderInv, RegistrarSound, RegisterReturns, Registering
  <1>2. /\ n \in Nat /\ DOMAIN modules = 1..n /\ new \in RegisteredModule
        /\ modules \in Seq(RegisteredModule)
    BY <1>1 DEF BuilderInv, ModulesSound, RegisteredModule, RegistrarType
  <1>3. FinishVerdict = "Ok" /\ \A i \in DOMAIN modules : Conflict(modules[i]) = "Ok"
    <2> DEFINE V == {"Ok", "NativeRegistrationFailed", "DuplicateModule",
                     "DuplicateExecuteEntry", "DuplicateClockType", "DuplicateSystem"}
    <2>1. <<FinishVerdict>> \in Seq(V)
      BY DEF FinishVerdict
    <2>2. \A i \in DOMAIN modules : conflicts[i] \in V
      BY DEF Conflict
    <2>3. conflicts \in Seq(V) /\ DOMAIN conflicts = DOMAIN modules
      <3> HIDE DEF V
      <3> QED BY <1>2, <2>2, EachFacts
    <2>4. FirstError(<<FinishVerdict>> \o conflicts) = "Ok"
      BY DEF RegisterReturns, Finish
    <2>5. Passed(<<FinishVerdict>>) /\ Passed(conflicts)
      <3> DEFINE own == <<FinishVerdict>>
      <3> HIDE DEF V, conflicts, own
      <3>1. own \in Seq(V) /\ own \o conflicts \in Seq(V) /\ FirstError(own \o conflicts) = "Ok"
        BY <2>1, <2>3, <2>4 DEF own
      <3>2. Passed(own \o conflicts)
        BY <3>1, FirstErrorFacts
      <3>3. Passed(own) /\ Passed(conflicts)
        BY <2>3, <3>1, <3>2, ChainFacts
      <3> QED BY <3>3 DEF own
    <2> QED BY <2>3, <2>5 DEF Passed
  <1>4. modules' = Append(modules, new)
    BY DEF RegisterReturns, Finish
  <1>5. /\ modules' \in Seq(RegisteredModule) /\ DOMAIN modules' = 1..n + 1
        /\ modules'[n + 1] = new /\ \A i \in 1..n : modules'[i] = modules[i]
    <2> HIDE DEF new
    <2> QED BY <1>2, <1>4
  <1>6. /\ registrar.ids = Range(staged.clocks)
        /\ registrar.systems = Range(IdsOf(staged.systems))
    <2>1. staged.clocks \in Seq(ClockTypes)
      BY <1>1, DescriptorFacts DEF Descriptor
    <2>2. /\ registrar.ids \subseteq Range(staged.clocks)
          /\ registrar.systems \subseteq Range(IdsOf(staged.systems))
          /\ IsInjective(staged.clocks) /\ IsInjective(IdsOf(staged.systems))
      BY <1>1, DescriptorVerdictOk DEF BuilderInv, RegistrarSound
    <2>3. /\ Cardinality(registrar.ids) = Len(staged.clocks)
          /\ Cardinality(registrar.systems) = Len(staged.systems)
      BY <1>3 DEF FinishVerdict
    <2>4. /\ IdsOf(staged.systems) \in Seq(SystemIds)
          /\ Len(IdsOf(staged.systems)) = Len(staged.systems)
      BY <1>1, DescriptorFacts
    <2> QED BY <2>1, <2>2, <2>3, <2>4, CountedIsAll
  <1>7. ModuleSound(new)
    <2>1. Propagates => ~registrar.erred
      BY DEF RegisterReturns, Registering
    <2> QED BY <1>1, <1>6, <2>1 DEF ModuleSound, BuilderInv, RegistrarSound
  <1>8. ModulesSound'
    BY <1>5, <1>7 DEF ModulesSound, BuilderInv
  <1>9. ASSUME NEW i \in DOMAIN modules', NEW j \in DOMAIN modules', i # j
        PROVE  Disjoint(modules'[i], modules'[j])
    <2>1. CASE i \in 1..n /\ j \in 1..n
      BY <1>2, <1>5, <1>9, <2>1 DEF BuilderInv, ModulesDisjoint
    <2>2. CASE i = n + 1 \/ j = n + 1
      <3>1. \A k \in 1..n : Disjoint(modules[k], new) /\ Disjoint(new, modules[k])
        BY <1>2, <1>3, NoSuchConflict
      <3> QED BY <1>2, <1>5, <1>9, <2>2, <3>1
    <2> QED BY <1>2, <1>5, <2>1, <2>2
  <1> QED BY <1>8, <1>9 DEF ModulesDisjoint

LEMMA ModulesKept ==
  ASSUME BuilderInv, UNCHANGED modules
  PROVE  ModulesSound' /\ ModulesDisjoint'
  BY DEF BuilderInv, ModulesSound, ModulesDisjoint

LEMMA RegistrarReset ==
  ASSUME registrar' = NewRegistrar, phase' # "registering"
  PROVE  RegistrarSound'
  BY NewRegistrarTyped DEF RegistrarSound

LEMMA RegistrarKept ==
  ASSUME RegistrarSound, UNCHANGED <<staged, registrar>>,
         phase' = phase \/ phase' # "registering"
  PROVE  RegistrarSound'
  BY DEF RegistrarSound

LEMMA BuilderInit == Init => BuilderInv
  <1> SUFFICES ASSUME Init PROVE BuilderInv
    OBVIOUS
  <1>1. RegistrarSound
    BY NewRegistrarTyped DEF Init, RegistrarSound
  <1>2. ModulesSound /\ ModulesDisjoint
    BY DEF Init, ModulesSound, ModulesDisjoint
  <1> QED BY <1>1, <1>2 DEF Init, BuilderInv

LEMMA BuilderStep == BuilderInv /\ [Next]_vars => BuilderInv'
  <1> SUFFICES ASSUME BuilderInv, [Next]_vars PROVE BuilderInv'
    OBVIOUS
  <1> DEFINE Phases == phase' \in {"building", "registering", "active", "discarded"}
  <1>1. ASSUME NEW d \in Descriptors, Describe(d) PROVE BuilderInv'
    <2>1. ModulesSound' /\ ModulesDisjoint'
      BY <1>1, ModulesKept DEF Describe
    <2>2. CASE DescriptorVerdict(d) = "Ok"
      <3>1. /\ phase' = "registering" /\ staged' = d /\ registrar' = NewRegistrar
        BY <1>1, <2>2 DEF Describe
      <3>2. RegistrarSound'
        BY <2>2, <3>1, NewRegistrarTyped DEF RegistrarSound, NewRegistrar, OneToOne, AllBound
      <3> QED BY <2>1, <3>1, <3>2 DEF BuilderInv
    <2>3. CASE DescriptorVerdict(d) # "Ok"
      <3>1. UNCHANGED <<phase, staged, registrar>>
        BY <1>1, <2>3 DEF Describe
      <3>2. RegistrarSound'
        BY <3>1, RegistrarKept DEF BuilderInv
      <3> QED BY <2>1, <3>1, <3>2 DEF BuilderInv
    <2> QED BY <2>2, <2>3
  <1>2. CASE DescriptorPanics
    BY <1>2, ModulesKept, RegistrarKept DEF DescriptorPanics, BuilderInv
  <1>3. ASSUME NEW t \in ClockTypes, NEW c \in RustTypes, BindClock(t, c) PROVE BuilderInv'
    BY <1>3, ModulesKept, BindClockSound DEF BindClock, BuilderInv
  <1>4. ASSUME NEW s \in SystemIds, AddSystem(s) PROVE BuilderInv'
    BY <1>4, ModulesKept, AddSystemSound DEF AddSystem, BuilderInv
  <1>5. CASE RegisterReturns
    <2>1. phase' = "building" /\ RegistrarSound'
      BY <1>5, RegistrarReset DEF RegisterReturns, Finish
    <2>2. CASE last' = "Ok"
      BY <1>5, <2>1, <2>2, CommitSound DEF BuilderInv
    <2>3. CASE last' # "Ok"
      <3>1. UNCHANGED modules
        BY <1>5, <2>3 DEF RegisterReturns, Finish
      <3> QED BY <2>1, <3>1, ModulesKept DEF BuilderInv
    <2> QED BY <2>2, <2>3
  <1>6. CASE RegisterFails
    <2>1. phase' = "building" /\ RegistrarSound' /\ UNCHANGED modules
      BY <1>6, RegistrarReset DEF RegisterFails, Finish
    <2> QED BY <2>1, ModulesKept DEF BuilderInv
  <1>7. CASE Activate
    <2>1. UNCHANGED <<modules, staged, registrar>> /\ phase' \in {"active", "discarded"}
      BY <1>7 DEF Activate, Discard
    <2> QED BY <2>1, ModulesKept, RegistrarKept DEF BuilderInv
  <1>8. CASE GraphBuildFails
    BY <1>8, ModulesKept, RegistrarKept DEF GraphBuildFails, Discard, BuilderInv
  <1>9. CASE UNCHANGED vars
    BY <1>9, ModulesKept, RegistrarKept DEF vars, BuilderInv
  <1> QED BY <1>1, <1>2, <1>3, <1>4, <1>5, <1>6, <1>7, <1>8, <1>9 DEF Next

LEMMA BuilderInvariant == Spec => []BuilderInv
  BY BuilderInit, BuilderStep, PTL DEF Spec

\* No two registered modules share an id, an entry, a clock type, a Rust type or
\* a system, whatever registrations were refused, failed or panicked between.
THEOREM ModulesStayDisjoint == Spec => []ModulesDisjoint
  <1>1. BuilderInv => ModulesDisjoint
    BY DEF BuilderInv
  <1> QED BY <1>1, BuilderInvariant, PTL

LEMMA SoundIsComplete ==
  ASSUME NEW m, ModuleSound(m), Propagates PROVE Complete(m)
  BY DEF ModuleSound, Complete, OneToOne, AllBound

\* If modules return the errors the registrar gives them, the declarations of
\* every registered module are implemented, each by one thing of its own.
THEOREM DeclarationsAreBound == Spec => [](Propagates => DeclarationsBound)
  <1>1. BuilderInv => (Propagates => DeclarationsBound)
    BY SoundIsComplete DEF BuilderInv, ModulesSound, DeclarationsBound
  <1> QED BY <1>1, BuilderInvariant, PTL

LEMMA RebuildPasses == BuilderInv => RebuildVerdict = "Ok"
  <1> SUFFICES ASSUME BuilderInv PROVE RebuildVerdict = "Ok"
    OBVIOUS
  <1>1. \A r \in Registrations : \E i \in DOMAIN modules : \E c \in modules[i].clocks : r = <<i, c>>
    BY DEF Registrations
  <1>2. \A i \in DOMAIN modules : ModuleSound(modules[i])
    BY DEF BuilderInv, ModulesSound
  <1>3. ASSUME NEW r \in Registrations
        PROVE  r[2].type \in Range(modules[r[1]].descriptor.clocks)
    BY <1>1, <1>2 DEF ModuleSound
  <1>4. ASSUME NEW r \in Registrations, NEW q \in Registrations,
               r[1] = q[1], r[2].type = q[2].type \/ r[2].rust = q[2].rust
        PROVE  r = q
    BY <1>1, <1>2, <1>4 DEF ModuleSound, OneToOne
  <1>5. ASSUME NEW r \in Registrations, NEW q \in Registrations, r[1] # q[1]
        PROVE  r[2].rust # q[2].rust
    BY <1>1, <1>5 DEF BuilderInv, ModulesDisjoint, Disjoint
  <1> QED BY <1>3, <1>4, <1>5 DEF RebuildVerdict

\* A builder filled by registrations never fails on the checks that activation
\* repeats: no clock registration lacks its definition, no Rust type is bound
\* twice.
THEOREM RebuildChecksNeverFail == Spec => [](RebuildVerdict = "Ok")
  BY BuilderInvariant, RebuildPasses, PTL
-----------------------------------------------------------------------------
(* Validation *)

LEMMA OrderingVerdictType ==
  ASSUME NEW ms, NEW d, NEW s, NEW x PROVE OrderingVerdict(ms, d, s, x) \in Verdicts
  BY DEF OrderingVerdict, Verdicts, BuildErrors

LEMMA SystemVerdictType ==
  ASSUME NEW ms, NEW d, NEW s \in System PROVE SystemVerdict(ms, d, s) \in Verdicts
  <1> DEFINE targets == s.before \o s.after
             f == [i \in DOMAIN targets |-> OrderingVerdict(ms, d, s, targets[i])]
  <1>1. targets \in Seq(SystemIds)
    BY DEF System
  <1>2. f \in Seq(Verdicts)
    <2>1. \A i \in DOMAIN targets : f[i] \in Verdicts
      BY OrderingVerdictType
    <2>2. f = [i \in DOMAIN targets |-> f[i]]
      OBVIOUS
    <2> HIDE DEF f, targets
    <2> QED BY <1>1, <2>1, <2>2, EachFacts
  <1>3. FirstError(f) \in Verdicts
    <2>1. FirstError(f) \in Verdicts \cup {"Ok"}
      BY <1>2, FirstErrorFacts
    <2> QED BY <2>1 DEF Verdicts
  <1>4. CASE ~Visible(d, ProviderOf(ms, s.trigger))
    BY <1>4 DEF SystemVerdict, Verdicts, BuildErrors
  <1>5. CASE Visible(d, ProviderOf(ms, s.trigger))
    <2>1. SystemVerdict(ms, d, s) = FirstError(f)
      BY <1>5 DEF SystemVerdict
    <2> QED BY <1>3, <2>1
  <1> QED BY <1>4, <1>5

\* The checks of one module against all modules ms.
OwnChecks(d) ==
  <<PlaneVerdict[d.plane],
    IF d.capabilities \subseteq Supported THEN "Ok" ELSE "UnsupportedCapability">>
DependencyChecks(ms, d) == [k \in DOMAIN d.deps |-> DependencyVerdict(ms, d.deps[k])]
SystemChecks(ms, d) == [k \in DOMAIN d.systems |-> SystemVerdict(ms, d, d.systems[k])]

LEMMA ModuleVerdictFacts ==
  ASSUME NEW ms \in Seq(RegisteredModule), NEW i \in DOMAIN ms
  PROVE  /\ ModuleVerdict(ms, i) \in Verdicts
         /\ ModuleVerdict(ms, i) = "Ok" => Passed(SystemChecks(ms, ms[i].descriptor))
  <1> DEFINE d == ms[i].descriptor
  <1>1. d \in Descriptor
    <2>1. ms[i] \in RegisteredModule
      BY ElementOfSeq
    <2> QED BY <2>1, DescriptorAssumption DEF RegisteredModule
  <1>2. d.plane \in Planes /\ d.deps \in Seq(Dependency) /\ d.systems \in Seq(System)
    BY <1>1 DEF Descriptor
  <1> HIDE DEF d
  <1>3. OwnChecks(d) \in Seq(Verdicts)
    <2>1. PlaneVerdict[d.plane] \in Verdicts
      BY <1>2 DEF Planes, PlaneVerdict, Verdicts, BuildErrors
    <2>2. (IF d.capabilities \subseteq Supported THEN "Ok" ELSE "UnsupportedCapability")
            \in Verdicts
      BY DEF Verdicts, BuildErrors
    <2> QED BY <2>1, <2>2 DEF OwnChecks
  <1>4. DependencyChecks(ms, d) \in Seq(Verdicts)
    <2> DEFINE f == DependencyChecks(ms, d)
    <2>1. \A k \in DOMAIN d.deps : f[k] \in Verdicts
      BY DEF DependencyChecks, DependencyVerdict, Verdicts, BuildErrors
    <2>2. f = [k \in DOMAIN d.deps |-> f[k]]
      BY DEF DependencyChecks
    <2> HIDE DEF f
    <2>3. f \in Seq(Verdicts)
      BY <1>2, <2>1, <2>2, EachFacts
    <2> QED BY <2>3 DEF f
  <1>5. SystemChecks(ms, d) \in Seq(Verdicts)
    <2> DEFINE f == SystemChecks(ms, d)
    <2>1. \A k \in DOMAIN d.systems : f[k] \in Verdicts
      BY <1>2, ElementOfSeq, SystemVerdictType DEF SystemChecks
    <2>2. f = [k \in DOMAIN d.systems |-> f[k]]
      BY DEF SystemChecks
    <2> HIDE DEF f
    <2>3. f \in Seq(Verdicts)
      BY <1>2, <2>1, <2>2, EachFacts
    <2> QED BY <2>3 DEF f
  <1> DEFINE checks == OwnChecks(d) \o DependencyChecks(ms, d) \o SystemChecks(ms, d)
  <1>6. /\ FirstError(checks) \in Verdicts \cup {"Ok"}
        /\ FirstError(checks) = "Ok" => Passed(SystemChecks(ms, d))
    <2> DEFINE own == OwnChecks(d)
               deps == DependencyChecks(ms, d)
               systems == SystemChecks(ms, d)
    <2>1. own \in Seq(Verdicts) /\ deps \in Seq(Verdicts) /\ systems \in Seq(Verdicts)
      BY <1>3, <1>4, <1>5
    <2> HIDE DEF own, deps, systems
    <2>2. own \o deps \o systems \in Seq(Verdicts)
      BY <2>1
    <2>3. FirstError(own \o deps \o systems) \in Verdicts \cup {"Ok"}
      BY <2>2, FirstErrorFacts
    <2>4. ASSUME FirstError(own \o deps \o systems) = "Ok" PROVE Passed(systems)
      <3>1. Passed(own \o deps \o systems)
        BY <2>2, <2>4, FirstErrorFacts
      <3>2. Passed((own \o deps) \o systems) /\ own \o deps \in Seq(Verdicts)
        BY <2>1, <3>1
      <3> QED BY <2>1, <3>2, ChainFacts
    <2> QED BY <2>3, <2>4 DEF own, deps, systems
  <1>7. ModuleVerdict(ms, i) = FirstError(checks)
    BY DEF ModuleVerdict, OwnChecks, DependencyChecks, SystemChecks, d
  <1> QED BY <1>6, <1>7 DEF Verdicts, d

LEMMA ValidationFacts ==
  ASSUME NEW ms \in Seq(RegisteredModule)
  PROVE  /\ ValidationVerdict(ms) \in Verdicts
         /\ ValidationVerdict(ms) = "Ok"
              <=> Cyclic(ms) = {} /\ \A i \in DOMAIN ms : ModuleVerdict(ms, i) = "Ok"
  <1> DEFINE f == [i \in DOMAIN ms |-> ModuleVerdict(ms, i)]
  <1>1. f \in Seq(Verdicts) /\ DOMAIN f = DOMAIN ms
    <2>1. \A i \in DOMAIN ms : f[i] \in Verdicts
      BY ModuleVerdictFacts
    <2>2. f = [i \in DOMAIN ms |-> f[i]]
      OBVIOUS
    <2> HIDE DEF f
    <2> QED BY <2>1, <2>2, EachFacts
  <1>2. (FirstError(f) = "Ok" <=> Passed(f)) /\ FirstError(f) \in Verdicts \cup {"Ok"}
    BY <1>1, FirstErrorFacts
  <1>3. Passed(f) <=> \A i \in DOMAIN ms : ModuleVerdict(ms, i) = "Ok"
    BY DEF Passed
  <1>4. ValidationVerdict(ms) = IF FirstError(f) # "Ok" THEN FirstError(f)
                                ELSE IF Cyclic(ms) # {} THEN "OrderingCycle" ELSE "Ok"
    BY DEF ValidationVerdict
  <1> HIDE DEF f
  <1> QED BY <1>2, <1>3, <1>4 DEF Verdicts, BuildErrors

\* What a module is checked against is the set of all descriptors: their order
\* does not matter.
LEMMA SameModules ==
  ASSUME NEW ms, NEW ns, DescriptorsOf(ms) = DescriptorsOf(ns)
  PROVE  /\ Cyclic(ms) = Cyclic(ns)
         /\ \A i, j : ms[i].descriptor = ns[j].descriptor
                        => ModuleVerdict(ms, i) = ModuleVerdict(ns, j)
  <1>1. SystemsOf(ms) = SystemsOf(ns)
    BY DEF SystemsOf
  <1>2. \A t : TriggeredBy(ms, t) = TriggeredBy(ns, t)
    BY <1>1 DEF TriggeredBy
  <1>3. Cyclic(ms) = Cyclic(ns)
    BY <1>2 DEF Cyclic
  <1>4. /\ \A t : ProviderOf(ms, t) = ProviderOf(ns, t)
        /\ \A s : OwnerOf(ms, s) = OwnerOf(ns, s)
    BY DEF ProviderOf, OwnerOf
  <1>5. \A x : DependencyVerdict(ms, x) = DependencyVerdict(ns, x)
    BY DEF DependencyVerdict
  <1>6. \A d, s, x : OrderingVerdict(ms, d, s, x) = OrderingVerdict(ns, d, s, x)
    BY <1>1, <1>4 DEF OrderingVerdict
  <1>7. \A d, s : SystemVerdict(ms, d, s) = SystemVerdict(ns, d, s)
    <2> SUFFICES ASSUME NEW d, NEW s PROVE SystemVerdict(ms, d, s) = SystemVerdict(ns, d, s)
      OBVIOUS
    <2> DEFINE targets == s.before \o s.after
               f(qs) == [i \in DOMAIN targets |-> OrderingVerdict(qs, d, s, targets[i])]
    <2>1. f(ms) = f(ns)
      BY <1>6
    <2>2. \A qs : SystemVerdict(qs, d, s)
                    = IF ~Visible(d, ProviderOf(qs, s.trigger)) THEN "UnknownTrigger"
                      ELSE FirstError(f(qs))
      BY DEF SystemVerdict
    <2> HIDE DEF f
    <2> QED BY <1>4, <2>1, <2>2
  <1>8. \A d : DependencyChecks(ms, d) = DependencyChecks(ns, d)
    BY <1>5 DEF DependencyChecks
  <1>9. \A d : SystemChecks(ms, d) = SystemChecks(ns, d)
    BY <1>7 DEF SystemChecks
  <1>10. ASSUME NEW i, NEW j, ms[i].descriptor = ns[j].descriptor
         PROVE  ModuleVerdict(ms, i) = ModuleVerdict(ns, j)
    <2>1. ModuleVerdict(ms, i)
            = FirstError(OwnChecks(ms[i].descriptor) \o DependencyChecks(ms, ms[i].descriptor)
                           \o SystemChecks(ms, ms[i].descriptor))
      BY DEF ModuleVerdict, OwnChecks, DependencyChecks, SystemChecks
    <2>2. ModuleVerdict(ns, j)
            = FirstError(OwnChecks(ns[j].descriptor) \o DependencyChecks(ns, ns[j].descriptor)
                           \o SystemChecks(ns, ns[j].descriptor))
      BY DEF ModuleVerdict, OwnChecks, DependencyChecks, SystemChecks
    <2> QED BY <1>8, <1>9, <1>10, <2>1, <2>2
  <1> QED BY <1>3, <1>10

LEMMA OrderIrrelevant ==
  ASSUME NEW ms \in Seq(RegisteredModule), NEW p \in Bijection(DOMAIN ms, DOMAIN ms)
  PROVE  ValidationVerdict(ms) = "Ok"
           <=> ValidationVerdict([i \in DOMAIN ms |-> ms[p[i]]]) = "Ok"
  <1> DEFINE D == DOMAIN ms
             ns == [i \in D |-> ms[p[i]]]
  <1>1. (\A i \in D : p[i] \in D) /\ (\A k \in D : \E i \in D : p[i] = k)
    BY DEF Bijection, Injection, Surjection
  <1>2. ns \in Seq(RegisteredModule) /\ DOMAIN ns = D
    <2>1. \A i \in D : ns[i] \in RegisteredModule
      <3>1. \A k \in D : ms[k] \in RegisteredModule
        BY ElementOfSeq
      <3>2. \A i \in D : ns[i] = ms[p[i]]
        OBVIOUS
      <3> HIDE DEF ns, D
      <3> QED BY <1>1, <3>1, <3>2
    <2>2. ns = [i \in DOMAIN ms |-> ns[i]]
      OBVIOUS
    <2> HIDE DEF ns
    <2> QED BY <2>1, <2>2, EachFacts
  <1>3. \A i \in D : ns[i].descriptor = ms[p[i]].descriptor
    OBVIOUS
  <1>4. DescriptorsOf(ms) = DescriptorsOf(ns)
    <2> HIDE DEF ns
    <2>1. \A d \in DescriptorsOf(ms) : \E k \in D : d = ms[k].descriptor
      BY DEF DescriptorsOf
    <2>2. ASSUME NEW d \in DescriptorsOf(ms) PROVE \E i \in D : d = ns[i].descriptor
      <3>1. PICK k \in D : d = ms[k].descriptor
        BY <2>1
      <3>2. PICK i \in D : p[i] = k
        BY <1>1
      <3>3. d = ns[i].descriptor
        BY <1>3, <3>1, <3>2
      <3> QED BY <3>3
    <2>3. DescriptorsOf(ms) \subseteq DescriptorsOf(ns)
      BY <1>2, <2>2 DEF DescriptorsOf
    <2>4. \A d \in DescriptorsOf(ns) : \E i \in D : d = ms[p[i]].descriptor
      BY <1>2, <1>3 DEF DescriptorsOf
    <2>5. DescriptorsOf(ns) \subseteq DescriptorsOf(ms)
      BY <1>1, <2>4 DEF DescriptorsOf
    <2> QED BY <2>3, <2>5
  <1>5. Cyclic(ms) = Cyclic(ns) /\ \A i \in D : ModuleVerdict(ms, p[i]) = ModuleVerdict(ns, i)
    <2> HIDE DEF ns
    <2> QED BY <1>3, <1>4, SameModules
  <1>6. (\A i \in D : ModuleVerdict(ms, i) = "Ok") <=> \A i \in D : ModuleVerdict(ns, i) = "Ok"
    BY <1>1, <1>5
  <1> HIDE DEF ns
  <1>7. ValidationVerdict(ms) = "Ok" <=> ValidationVerdict(ns) = "Ok"
    BY <1>2, <1>5, <1>6, ValidationFacts
  <1> QED BY <1>7 DEF ns

\* Whether a set of modules can be activated does not depend on the order in
\* which they were registered.
THEOREM OrderNeverMatters == Spec => []ActivationIgnoresOrder
  <1>1. BuilderInv => ActivationIgnoresOrder
    BY OrderIrrelevant DEF BuilderInv, ModulesSound, ActivationIgnoresOrder
  <1> QED BY <1>1, BuilderInvariant, PTL
-----------------------------------------------------------------------------
(* Types *)

\* A registration begins with room for its module, and has one descriptor.
TypeInv ==
  TypeOK /\ BuilderInv /\ (phase = "registering" => Len(modules) < MaxModules)

LEMMA DescriptorVerdictType == ASSUME NEW d PROVE DescriptorVerdict(d) \in Verdicts
  BY DEF DescriptorVerdict, Verdicts, BuildErrors

LEMMA RegisterVerdictType ==
  ASSUME modules \in Seq(RegisteredModule)
  PROVE  FirstError(<<FinishVerdict>> \o [i \in DOMAIN modules |-> Conflict(modules[i])])
           \in Verdicts
  <1> DEFINE f == [i \in DOMAIN modules |-> Conflict(modules[i])]
  <1>1. \A i \in DOMAIN modules : f[i] \in Verdicts
    BY DEF Conflict, Verdicts, BuildErrors
  <1>2. f = [i \in DOMAIN modules |-> f[i]]
    OBVIOUS
  <1>3. FinishVerdict \in Verdicts
    BY DEF FinishVerdict, Verdicts, BuildErrors
  <1> HIDE DEF f
  <1>4. f \in Seq(Verdicts) /\ <<FinishVerdict>> \in Seq(Verdicts)
    BY <1>1, <1>2, <1>3, EachFacts
  <1>5. FirstError(<<FinishVerdict>> \o f) \in Verdicts \cup {"Ok"}
    BY <1>4, ChainFacts, FirstErrorFacts
  <1> QED BY <1>5 DEF f, Verdicts

LEMMA ActivationVerdictType ==
  ASSUME BuilderInv
  PROVE  FirstError(<<ValidationVerdict(modules), RebuildVerdict>>) \in Verdicts
  <1>1. ValidationVerdict(modules) \in Verdicts
    BY ValidationFacts DEF BuilderInv, ModulesSound
  <1>2. RebuildVerdict \in Verdicts
    BY RebuildPasses DEF Verdicts
  <1>3. <<ValidationVerdict(modules), RebuildVerdict>> \in Seq(Verdicts)
    BY <1>1, <1>2
  <1>4. FirstError(<<ValidationVerdict(modules), RebuildVerdict>>) \in Verdicts \cup {"Ok"}
    BY <1>3, FirstErrorFacts
  <1> QED BY <1>4 DEF Verdicts

LEMMA UnresolvedAreSystems ==
  ASSUME BuilderInv, NEW t PROVE UnresolvedIds(TriggeredBy(modules, t)) \subseteq SystemIds
  <1>1. ASSUME NEW s \in SystemsOf(modules) PROVE s.id \in SystemIds
    <2>1. PICK i \in DOMAIN modules : s \in Range(modules[i].descriptor.systems)
      BY DEF SystemsOf, DescriptorsOf
    <2>2. modules[i] \in RegisteredModule
      BY ElementOfSeq DEF BuilderInv, ModulesSound
    <2>3. modules[i].descriptor.systems \in Seq(System)
      BY <2>2, DescriptorAssumption DEF RegisteredModule, Descriptor
    <2>4. s \in System
      BY <2>1, <2>3, ElementOfSeq DEF Range
    <2> QED BY <2>4 DEF System
  <1> QED BY <1>1 DEF UnresolvedIds, TriggeredBy

LEMMA TypeInit == Init => TypeInv
  <1> SUFFICES ASSUME Init PROVE TypeInv
    OBVIOUS
  <1>1. BuilderInv /\ registrar \in RegistrarType
    BY BuilderInit, NewRegistrarTyped DEF Init
  <1>2. modules \in Seq(RegisteredModule) /\ Len(modules) <= MaxModules
    BY DescriptorAssumption DEF Init
  <1> QED BY <1>1, <1>2 DEF Init, TypeInv, TypeOK

LEMMA TypeStep == TypeInv /\ [Next]_vars => TypeInv'
  <1> SUFFICES ASSUME TypeInv, [Next]_vars PROVE TypeInv'
    OBVIOUS
  <1>1. BuilderInv'
    BY BuilderStep DEF TypeInv
  <1>2. /\ phase' \in {"building", "registering", "active", "discarded"}
        /\ modules' \in Seq(RegisteredModule) /\ registrar' \in RegistrarType
    BY <1>1 DEF BuilderInv, ModulesSound, RegistrarSound
  <1>3. NoDescriptor \notin Descriptors
    BY DescriptorAssumption
  <1> DEFINE Rest == /\ Len(modules') <= MaxModules
                     /\ phase' = "registering" => Len(modules') < MaxModules
                     /\ staged' \in Descriptors \cup {NoDescriptor}
                     /\ phase' = "registering" <=> staged' # NoDescriptor
                     /\ last' \in BuildErrors \cup {"None", "Ok"}
                     /\ blamed' \subseteq SystemIds
  <1>4. ASSUME NEW d \in Descriptors, Describe(d) PROVE Rest
    BY <1>3, <1>4, DescriptorVerdictType DEF Describe, TypeInv, TypeOK, Verdicts
  <1>5. ASSUME DescriptorPanics PROVE Rest
    BY <1>5 DEF DescriptorPanics, TypeInv, TypeOK, BuildErrors
  <1>6. ASSUME NEW t \in ClockTypes, NEW c \in RustTypes, BindClock(t, c) PROVE Rest
    BY <1>6 DEF BindClock, TypeInv, TypeOK
  <1>7. ASSUME NEW s \in SystemIds, AddSystem(s) PROVE Rest
    BY <1>7 DEF AddSystem, TypeInv, TypeOK
  <1>8. ASSUME NEW out \in Verdicts, phase = "registering", Finish(out) PROVE Rest
    <2>1. Len(modules') <= Len(modules) + 1 /\ Len(modules) \in Nat
      BY <1>8 DEF Finish, TypeInv, TypeOK
    <2>2. Len(modules') <= MaxModules
      BY <1>2, <1>8, <2>1, DescriptorAssumption DEF TypeInv
    <2> QED BY <1>8, <2>2 DEF Finish, TypeInv, TypeOK, Verdicts
  <1>9. ASSUME RegisterReturns PROVE Rest
    BY <1>8, <1>9, RegisterVerdictType DEF RegisterReturns, Registering, TypeInv, TypeOK
  <1>10. ASSUME RegisterFails PROVE Rest
    <2>1. "NativeRegistrationFailed" \in Verdicts
      BY DEF Verdicts, BuildErrors
    <2> QED BY <1>8, <1>10, <2>1 DEF RegisterFails
  <1>11. ASSUME Activate PROVE Rest
    <2> DEFINE out == FirstError(<<ValidationVerdict(modules), RebuildVerdict>>)
    <2>1. out \in Verdicts
      BY ActivationVerdictType DEF TypeInv
    <2>2. /\ last' = out /\ UNCHANGED <<modules, staged>> /\ phase = "building"
          /\ phase' \in {"active", "discarded"}
      BY <1>11 DEF Activate, Discard
    <2>3. \/ blamed' = blamed \/ blamed' = {}
          \/ \E t : blamed' = UnresolvedIds(TriggeredBy(modules, t))
      BY <1>11 DEF Activate, Discard
    <2>4. blamed' \subseteq SystemIds
      BY <2>3, UnresolvedAreSystems DEF TypeInv, TypeOK
    <2> QED BY <2>1, <2>2, <2>4 DEF TypeInv, TypeOK, Verdicts
  <1>12. ASSUME GraphBuildFails PROVE Rest
    BY <1>12 DEF GraphBuildFails, Discard, TypeInv, TypeOK, BuildErrors
  <1>13. ASSUME UNCHANGED vars PROVE Rest
    BY <1>13 DEF vars, TypeInv, TypeOK
  <1>14. Rest
    BY <1>4, <1>5, <1>6, <1>7, <1>9, <1>10, <1>11, <1>12, <1>13 DEF Next
  <1> QED BY <1>1, <1>2, <1>14 DEF TypeInv, TypeOK

\* Every variable keeps its type: no error but the listed ones is ever reported,
\* and a cycle is blamed on systems only.
THEOREM BuilderTypes == Spec => []TypeOK
  <1>1. TypeInv => TypeOK
    BY DEF TypeInv
  <1> QED BY <1>1, TypeInit, TypeStep, PTL DEF Spec
-----------------------------------------------------------------------------
(* Kahn's algorithm *)

\* A minimal set of a collection of subsets of a finite set.
LEMMA MinimalSubset ==
  ASSUME NEW S, IsFiniteSet(S), NEW Bad, Bad \subseteq SUBSET S, Bad # {}
  PROVE  \E R \in Bad : \A Q \in Bad : Q \subseteq R => Q = R
  <1>1. IsWellFoundedOn(StrictSubsetOrdering(S), SUBSET S)
    BY FS_StrictSubsetOrderingWellFounded, FS_FiniteSubsetsOfFinite
  <1>2. PICK R \in Bad : \A Q \in Bad : <<Q, R>> \notin StrictSubsetOrdering(S)
    BY <1>1, WFMin
  <1> QED BY <1>2 DEF StrictSubsetOrdering

LEMMA PrecedesIsWaits == \A x, y : Precedes(x, y) <=> Waits(y, x)
  BY DEF Precedes, Waits

\* Systems that wait for each other are among the stuck, and the stuck wait
\* for each other.
LEMMA StuckFacts ==
  ASSUME NEW S
  PROVE  /\ Stuck(S) \subseteq S
         /\ \A y \in Stuck(S) : \E x \in Stuck(S) : Waits(y, x)
         /\ \A B \in SUBSET S : (\A y \in B : \E x \in B : Waits(y, x)) => B \subseteq Stuck(S)
  <1> DEFINE All == {B \in SUBSET S : \A y \in B : \E x \in B : Waits(y, x)}
  <1>1. Stuck(S) = UNION All
    BY DEF Stuck
  <1>2. \A B \in All : B \subseteq Stuck(S) /\ B \subseteq S
    BY <1>1
  <1>3. ASSUME NEW y \in Stuck(S) PROVE \E x \in Stuck(S) : Waits(y, x)
    <2>1. PICK B \in All : y \in B
      BY <1>1
    <2> QED BY <1>2, <2>1
  <1> QED BY <1>1, <1>2, <1>3

\* Taking out a system that waits for none changes nothing.
LEMMA ReadyIsNotStuck ==
  ASSUME NEW R, NEW z \in R, \A x \in R : ~Waits(z, x)
  PROVE  Stuck(R) = Stuck(R \ {z})
  <1>1. z \notin Stuck(R)
    BY StuckFacts
  <1>2. Stuck(R) \subseteq Stuck(R \ {z})
    <2>1. Stuck(R) \in SUBSET (R \ {z})
      BY <1>1, StuckFacts
    <2>2. \A y \in Stuck(R) : \E x \in Stuck(R) : Waits(y, x)
      BY StuckFacts
    <2>3. \A B \in SUBSET (R \ {z}) :
            (\A y \in B : \E x \in B : Waits(y, x)) => B \subseteq Stuck(R \ {z})
      BY StuckFacts
    <2> QED BY <2>1, <2>2, <2>3
  <1>3. Stuck(R \ {z}) \subseteq Stuck(R)
    <2>1. Stuck(R \ {z}) \in SUBSET R
      BY StuckFacts
    <2>2. \A y \in Stuck(R \ {z}) : \E x \in Stuck(R \ {z}) : Waits(y, x)
      BY StuckFacts
    <2>3. \A B \in SUBSET R :
            (\A y \in B : \E x \in B : Waits(y, x)) => B \subseteq Stuck(R)
      BY StuckFacts
    <2> QED BY <2>1, <2>2, <2>3
  <1> QED BY <1>2, <1>3

\* What is left when no indegree drops to zero any more is what could never
\* start, for every set of systems and whichever ready system is removed first.
LEMMA UnresolvedIsStuck ==
  ASSUME NEW S, IsFiniteSet(S)
  PROVE  Unresolved(S) = Stuck(S)
  <1> DEFINE Ready(R) == {y \in R : Cardinality({x \in R : Precedes(x, y)}) = 0}
             Next1(f, R) == IF Ready(R) = {} THEN R
                            ELSE f[R \ {CHOOSE y \in Ready(R) : TRUE}]
             left == CHOOSE f : f = [R \in SUBSET S |-> Next1(f, R)]
             stuck == [R \in SUBSET S |-> Stuck(R)]
  <1>1. Unresolved(S) = left[S]
    BY DEF Unresolved
  <1>2. \A R \in SUBSET S : \A y \in R : y \in Ready(R) <=> \A x \in R : ~Waits(y, x)
    <2> SUFFICES ASSUME NEW R \in SUBSET S, NEW y \in R
                 PROVE  y \in Ready(R) <=> \A x \in R : ~Waits(y, x)
      OBVIOUS
    <2> DEFINE before == {x \in R : Precedes(x, y)}
    <2>1. IsFiniteSet(before)
      BY FS_Subset
    <2>2. Cardinality(before) = 0 <=> before = {}
      <3> HIDE DEF before
      <3> QED BY <2>1, FS_EmptySet
    <2> QED BY <2>2, PrecedesIsWaits
  <1>3. \A R \in SUBSET S : Ready(R) \subseteq R
    OBVIOUS
  <1> HIDE DEF Ready
  <1>4. ASSUME NEW R \in SUBSET S, Ready(R) = {} PROVE Stuck(R) = R
    BY <1>2, <1>4, StuckFacts
  <1>5. ASSUME NEW R \in SUBSET S, Ready(R) # {}
        PROVE  LET z == CHOOSE y \in Ready(R) : TRUE
               IN  z \in R /\ Stuck(R) = Stuck(R \ {z})
    <2> DEFINE z == CHOOSE y \in Ready(R) : TRUE
    <2>1. z \in Ready(R)
      BY <1>5
    <2> HIDE DEF z
    <2>2. z \in R /\ \A x \in R : ~Waits(z, x)
      BY <1>2, <1>3, <2>1
    <2>3. Stuck(R) = Stuck(R \ {z})
      BY <2>2, ReadyIsNotStuck
    <2> QED BY <2>2, <2>3 DEF z
  <1>6. stuck = [R \in SUBSET S |-> Next1(stuck, R)]
    <2>1. ASSUME NEW R \in SUBSET S PROVE Stuck(R) = Next1(stuck, R)
      <3>1. CASE Ready(R) = {}
        BY <1>4, <3>1
      <3>2. CASE Ready(R) # {}
        BY <1>5, <3>2
      <3> QED BY <3>1, <3>2
    <2> HIDE DEF Next1
    <2> QED BY <2>1
  <1>7. left = [R \in SUBSET S |-> Next1(left, R)]
    <2> HIDE DEF Next1, stuck
    <2> QED BY <1>6
  <1>8. \A R \in SUBSET S : left[R] = Next1(left, R)
    <2> HIDE DEF left, Next1
    <2> QED BY <1>7
  <1>9. \A R \in SUBSET S : left[R] = Stuck(R)
    <2> DEFINE Bad == {R \in SUBSET S : left[R] # Stuck(R)}
    <2> SUFFICES ASSUME Bad # {} PROVE FALSE
      OBVIOUS
    <2>1. PICK R \in Bad : \A Q \in Bad : Q \subseteq R => Q = R
      <3>1. Bad \subseteq SUBSET S
        OBVIOUS
      <3> HIDE DEF Bad
      <3> QED BY <3>1, MinimalSubset
    <2> HIDE DEF left
    <2>2. CASE Ready(R) = {}
      BY <1>4, <1>8, <2>1, <2>2
    <2>3. CASE Ready(R) # {}
      <3> DEFINE z == CHOOSE y \in Ready(R) : TRUE
      <3>1. z \in R /\ Stuck(R) = Stuck(R \ {z})
        BY <1>5, <2>3
      <3>2. left[R] = left[R \ {z}]
        BY <1>8, <2>3
      <3> HIDE DEF z
      <3>3. R \ {z} \in SUBSET S /\ R \ {z} \notin Bad
        BY <2>1, <3>1
      <3> QED BY <2>1, <3>1, <3>2, <3>3
    <2> QED BY <2>2, <2>3
  <1> QED BY <1>1, <1>9

-----------------------------------------------------------------------------
(* Cycles *)

LEMMA SystemsAreFinite ==
  ASSUME NEW ms \in Seq(RegisteredModule)
  PROVE  IsFiniteSet(SystemsOf(ms))
  <1> DEFINE n == Len(ms)
             sets == {Range(ms[i].descriptor.systems) : i \in 1..n}
  <1>1. n \in Nat /\ DOMAIN ms = 1..n
    OBVIOUS
  <1>2. IsFiniteSet(1..n)
    <2> HIDE DEF n
    <2> QED BY <1>1, FS_Interval
  <1>3. \A T \in sets : IsFiniteSet(T)
    <2> SUFFICES ASSUME NEW i \in 1..n PROVE IsFiniteSet(Range(ms[i].descriptor.systems))
      OBVIOUS
    <2> DEFINE s == ms[i].descriptor.systems
    <2>1. s \in Seq(System)
      <3>1. ms[i] \in RegisteredModule
        BY <1>1, ElementOfSeq
      <3> QED BY <3>1, DescriptorAssumption DEF RegisteredModule, Descriptor
    <2> HIDE DEF s
    <2>2. DOMAIN s = 1..Len(s) /\ Len(s) \in Nat
      BY <2>1
    <2>3. IsFiniteSet(DOMAIN s)
      BY <2>2, FS_Interval
    <2>4. s \in Surjection(DOMAIN s, Range(s))
      <3>1. s \in [DOMAIN s -> Range(s)]
        BY <2>1 DEF Range
      <3> QED BY <3>1 DEF Surjection, Range
    <2> QED BY <2>3, <2>4, FS_Surjection DEF s
  <1>4. IsFiniteSet(sets)
    <2> DEFINE f == [i \in 1..n |-> Range(ms[i].descriptor.systems)]
    <2>1. f \in Surjection(1..n, sets)
      BY DEF Surjection
    <2> HIDE DEF f, sets
    <2> QED BY <1>2, <2>1, FS_Surjection
  <1>5. SystemsOf(ms) = UNION sets
    BY <1>1 DEF SystemsOf, DescriptorsOf
  <1> HIDE DEF sets
  <1> QED BY <1>3, <1>4, <1>5, FS_UNION

\* What validation leaves over of the systems of a trigger are the stuck ones.
LEMMA LeftAreStuck ==
  ASSUME NEW ms \in Seq(RegisteredModule), NEW t
  PROVE  /\ Unresolved(TriggeredBy(ms, t)) = Stuck(TriggeredBy(ms, t))
         /\ UnresolvedIds(TriggeredBy(ms, t)) = {s.id : s \in Stuck(TriggeredBy(ms, t))}
  <1> DEFINE S == TriggeredBy(ms, t)
  <1>1. IsFiniteSet(S)
    BY SystemsAreFinite, FS_Subset DEF TriggeredBy
  <1> HIDE DEF S
  <1>2. Unresolved(S) = Stuck(S) /\ Stuck(S) \subseteq S
    BY <1>1, UnresolvedIsStuck, StuckFacts
  <1> QED BY <1>2 DEF UnresolvedIds, S

\* A cycle is an outcome of activation, and of nothing else.
LEMMA NoCycleRegistered ==
  ASSUME BuilderInv, RegisterReturns
  PROVE  last' # "OrderingCycle"
  <1> DEFINE V == {"Ok", "NativeRegistrationFailed", "DuplicateModule",
                   "DuplicateExecuteEntry", "DuplicateClockType", "DuplicateSystem"}
             f == [i \in DOMAIN modules |-> Conflict(modules[i])]
  <1>1. \A i \in DOMAIN modules : f[i] \in V
    BY DEF Conflict
  <1>2. FinishVerdict \in V
    BY DEF FinishVerdict
  <1>3. last' = FirstError(<<FinishVerdict>> \o f)
    BY DEF RegisterReturns, Finish
  <1>4. f = [i \in DOMAIN modules |-> f[i]]
    OBVIOUS
  <1>5. V \cup {"Ok"} = V /\ "OrderingCycle" \notin V
    OBVIOUS
  <1> HIDE DEF V, f
  <1>6. f \in Seq(V) /\ <<FinishVerdict>> \in Seq(V)
    BY <1>1, <1>2, <1>4, EachFacts DEF BuilderInv, ModulesSound
  <1>7. FirstError(<<FinishVerdict>> \o f) \in V \cup {"Ok"}
    BY <1>6, ChainFacts, FirstErrorFacts
  <1> QED BY <1>3, <1>5, <1>7

\* Once a builder is consumed nothing about it changes.
LEMMA ConsumedIsOver ==
  ASSUME [Next]_vars, phase \in {"active", "discarded"}
  PROVE  UNCHANGED vars
  BY DEF Next, Describe, DescriptorPanics, BindClock, AddSystem, Registering,
         RegisterReturns, RegisterFails, Activate, GraphBuildFails

\* A cycle is reported when the builder is discarded, and is about its modules.
CycleInv ==
  last = "OrderingCycle" =>
    /\ phase = "discarded"
    /\ \E t \in Cyclic(modules) : blamed = UnresolvedIds(TriggeredBy(modules, t))

LEMMA CycleStep == BuilderInv /\ CycleInv /\ [Next]_vars => CycleInv'
  <1> SUFFICES ASSUME BuilderInv, CycleInv, [Next]_vars PROVE CycleInv'
    OBVIOUS
  <1>1. CASE phase \in {"active", "discarded"}
    <2>1. UNCHANGED vars
      BY <1>1, ConsumedIsOver
    <2> QED BY <2>1 DEF CycleInv, vars
  <1>2. CASE phase \notin {"active", "discarded"}
    <2>1. last # "OrderingCycle"
      BY <1>2 DEF CycleInv
    <2>2. ASSUME last' # "OrderingCycle" PROVE CycleInv'
      BY <2>2 DEF CycleInv
    <2>3. ASSUME NEW d, Describe(d) PROVE last' # "OrderingCycle"
      BY <2>1, <2>3 DEF Describe, DescriptorVerdict
    <2>4. ASSUME DescriptorPanics \/ RegisterFails \/ GraphBuildFails
          PROVE  last' # "OrderingCycle"
      BY <2>4 DEF DescriptorPanics, RegisterFails, Finish, GraphBuildFails, Discard
    <2>5. ASSUME NEW t, NEW c, BindClock(t, c) PROVE last' # "OrderingCycle"
      BY <2>1, <2>5 DEF BindClock
    <2>6. ASSUME NEW s, AddSystem(s) PROVE last' # "OrderingCycle"
      BY <2>1, <2>6 DEF AddSystem
    <2>7. CASE Activate
      <3>1. CASE last' = "OrderingCycle"
        <4>1. PICK t \in Cyclic(modules) :
                Discard("OrderingCycle", UnresolvedIds(TriggeredBy(modules, t)))
          BY <2>7, <3>1 DEF Activate, Discard
        <4>2. /\ phase' = "discarded" /\ modules' = modules
              /\ blamed' = UnresolvedIds(TriggeredBy(modules, t))
          BY <4>1 DEF Discard
        <4> QED BY <4>2 DEF CycleInv
      <3> QED BY <2>2, <3>1
    <2>8. CASE UNCHANGED vars
      BY <2>1, <2>2, <2>8 DEF vars
    <2> QED BY <2>2, <2>3, <2>4, <2>5, <2>6, <2>7, <2>8, NoCycleRegistered DEF Next
  <1> QED BY <1>1, <1>2

\* An OrderingCycle blames exactly the systems of one trigger that could never
\* start, those on a cycle and those behind one, and at least one of them, for
\* every set of modules (validate_cycles).
THEOREM CyclesAreExact == Spec => []CycleReportExact
  <1>1. BuilderInv /\ CycleInv => CycleReportExact
    <2> SUFFICES ASSUME BuilderInv, CycleInv, last = "OrderingCycle" PROVE CycleReportExact
      BY DEF CycleReportExact
    <2>1. PICK t \in Cyclic(modules) : blamed = UnresolvedIds(TriggeredBy(modules, t))
      BY DEF CycleInv
    <2>2. t \in Triggers /\ Unresolved(TriggeredBy(modules, t)) # {}
      BY DEF Cyclic
    <2>3. /\ Unresolved(TriggeredBy(modules, t)) = Stuck(TriggeredBy(modules, t))
          /\ blamed = {s.id : s \in Stuck(TriggeredBy(modules, t))}
      BY <2>1, LeftAreStuck DEF BuilderInv, ModulesSound
    <2> QED BY <2>2, <2>3 DEF CycleReportExact
  <1>2. Init => CycleInv
    BY DEF Init, CycleInv
  <1> QED BY <1>1, <1>2, CycleStep, BuilderInvariant, PTL DEF Spec

-----------------------------------------------------------------------------
(* The graph *)

\* A validated system has a trigger somebody declares.
LEMMA TriggerIsProvided ==
  ASSUME NEW ms \in Seq(RegisteredModule), ValidationVerdict(ms) = "Ok",
         NEW i \in DOMAIN ms, NEW s \in Range(ms[i].descriptor.systems)
  PROVE  /\ s \in System
         /\ \E j \in DOMAIN ms :
              s.trigger \in Range(ms[j].descriptor.entries) \cup Range(ms[j].descriptor.clocks)
  <1> DEFINE d == ms[i].descriptor
  <1>1. d \in Descriptor
    <2>1. ms[i] \in RegisteredModule
      BY ElementOfSeq
    <2> QED BY <2>1, DescriptorAssumption DEF RegisteredModule
  <1>2. d.systems \in Seq(System)
    BY <1>1 DEF Descriptor
  <1>3. PICK k \in DOMAIN d.systems : s = d.systems[k]
    BY DEF Range
  <1>4. s \in System
    BY <1>2, <1>3, ElementOfSeq
  <1>5. SystemVerdict(ms, d, s) = "Ok"
    <2>1. ModuleVerdict(ms, i) = "Ok"
      BY ValidationFacts
    <2>2. Passed(SystemChecks(ms, d))
      BY <2>1, ModuleVerdictFacts
    <2> QED BY <1>3, <2>2 DEF Passed, SystemChecks
  <1>6. ProviderOf(ms, s.trigger) # {}
    <2>1. Visible(d, ProviderOf(ms, s.trigger))
      BY <1>5 DEF SystemVerdict
    <2> QED BY <2>1 DEF Visible
  <1> QED BY <1>4, <1>6 DEF ProviderOf, DescriptorsOf

\* Every registered system is implemented.
LEMMA AllImplemented == BuilderInv => Implemented = SystemsOf(modules)
  <1> SUFFICES ASSUME BuilderInv PROVE Implemented = SystemsOf(modules)
    OBVIOUS
  <1>1. ASSUME NEW i \in DOMAIN modules, NEW s \in Range(modules[i].descriptor.systems)
        PROVE  s.id \in modules[i].systems
    <2>1. modules[i].systems = Range(IdsOf(modules[i].descriptor.systems))
      BY DEF BuilderInv, ModulesSound, ModuleSound
    <2> QED BY <2>1 DEF IdsOf, Range
  <1>2. SystemsOf(modules) = UNION {Range(modules[i].descriptor.systems) : i \in DOMAIN modules}
    BY DEF SystemsOf, DescriptorsOf
  <1>3. Implemented =
          UNION {{s \in Range(modules[i].descriptor.systems) : s.id \in modules[i].systems}
                 : i \in DOMAIN modules}
    BY DEF Implemented
  <1> QED BY <1>1, <1>2, <1>3

\* The schedules are those of the declared entries and clock types, if modules
\* return the errors they get, and hold the systems they trigger.
LEMMA SchedulesAre ==
  ASSUME BuilderInv, Propagates
  PROVE  LET schedules == BuildGraph.schedules
         IN  /\ \A j \in DOMAIN modules :
                  Range(modules[j].descriptor.entries) \cup Range(modules[j].descriptor.clocks)
                    \subseteq DOMAIN schedules
             /\ DOMAIN schedules \subseteq Triggers
             /\ \A t \in DOMAIN schedules : schedules[t] = TriggeredBy(modules, t)
  <1> DEFINE entries == UNION {Range(d.entries) : d \in DescriptorsOf(modules)}
             clocks  == {r[2].type : r \in Registrations}
             schedules == BuildGraph.schedules
  <1>1. /\ DOMAIN schedules = entries \cup clocks
        /\ \A t \in entries \cup clocks :
             schedules[t] = {s \in Implemented : s.trigger = t}
    <2> HIDE DEF entries, clocks
    <2> QED BY DEF BuildGraph, entries, clocks
  <1>2. \A t \in DOMAIN schedules : schedules[t] = TriggeredBy(modules, t)
    BY <1>1, AllImplemented DEF TriggeredBy
  <1>3. ASSUME NEW j \in DOMAIN modules
        PROVE  /\ Range(modules[j].descriptor.entries) \subseteq entries \cap Entries
               /\ Range(modules[j].descriptor.clocks) \subseteq clocks
               /\ {c.type : c \in modules[j].clocks} \subseteq ClockTypes
    <2>1. modules[j] \in RegisteredModule /\ ModuleSound(modules[j])
      BY ElementOfSeq DEF BuilderInv, ModulesSound
    <2>2. /\ modules[j].descriptor \in Descriptor
          /\ modules[j].clocks \subseteq ClockRegistration
      BY <2>1, DescriptorAssumption DEF RegisteredModule
    <2>3. modules[j].descriptor.entries \in Seq(Entries)
      BY <2>2 DEF Descriptor
    <2>4. Range(modules[j].descriptor.entries) \subseteq Entries
      BY <2>3, ElementOfSeq DEF Range
    <2>5. modules[j].descriptor \in DescriptorsOf(modules)
      BY DEF DescriptorsOf
    <2>6. \A c \in modules[j].clocks : c.type \in clocks
      <3> SUFFICES ASSUME NEW c \in modules[j].clocks PROVE c.type \in clocks
        OBVIOUS
      <3>1. <<j, c>> \in Registrations
        BY DEF Registrations
      <3> QED BY <3>1
    <2>7. Range(modules[j].descriptor.clocks) \subseteq clocks
      <3> HIDE DEF clocks
      <3> QED BY <2>1, <2>6 DEF ModuleSound, AllBound
    <2> QED BY <2>2, <2>4, <2>5, <2>7 DEF ClockRegistration
  <1>4. entries \subseteq Entries
    <2> SUFFICES ASSUME NEW t \in entries PROVE t \in Entries
      OBVIOUS
    <2>1. PICK j \in DOMAIN modules : t \in Range(modules[j].descriptor.entries)
      BY DEF DescriptorsOf
    <2> QED BY <1>3, <2>1
  <1>5. clocks \subseteq ClockTypes
    <2> SUFFICES ASSUME NEW r \in Registrations PROVE r[2].type \in ClockTypes
      OBVIOUS
    <2>1. PICK j \in DOMAIN modules : \E c \in modules[j].clocks : r = <<j, c>>
      BY DEF Registrations
    <2> QED BY <1>3, <2>1
  <1> HIDE DEF entries, clocks, schedules
  <1> QED BY <1>1, <1>2, <1>3, <1>4, <1>5 DEF Triggers, schedules

\* What is active was validated and built from the modules.
GraphInv ==
  phase = "active" => ValidationVerdict(modules) = "Ok" /\ graph = BuildGraph

LEMMA GraphStep == BuilderInv /\ GraphInv /\ [Next]_vars => GraphInv'
  <1> SUFFICES ASSUME BuilderInv, GraphInv, [Next]_vars PROVE GraphInv'
    OBVIOUS
  <1>1. CASE phase \in {"active", "discarded"}
    <2>1. UNCHANGED vars
      BY <1>1, ConsumedIsOver
    <2>2. UNCHANGED <<phase, modules, graph>>
      BY <2>1 DEF vars
    <2> QED BY <2>2 DEF GraphInv, ValidationVerdict, BuildGraph, Registrations, Implemented
  <1>2. CASE phase \notin {"active", "discarded"}
    <2>1. ASSUME phase' # "active" PROVE GraphInv'
      BY <2>1 DEF GraphInv
    <2>2. CASE Activate
      <3> DEFINE vs == <<ValidationVerdict(modules), RebuildVerdict>>
      <3>1. CASE phase' = "active"
        <4>1. FirstError(vs) = "Ok" /\ graph' = BuildGraph /\ modules' = modules
          BY <2>2, <3>1 DEF Activate, Discard
        <4>2. ValidationVerdict(modules) \in Verdicts /\ RebuildVerdict \in Verdicts
          BY RebuildPasses, ValidationFacts DEF BuilderInv, ModulesSound, Verdicts
        <4>3. vs \in Seq(Verdicts) /\ vs[1] = ValidationVerdict(modules) /\ 1 \in DOMAIN vs
          <5> HIDE DEF Verdicts
          <5> QED BY <4>2
        <4>4. ValidationVerdict(modules) = "Ok"
          <5> HIDE DEF vs
          <5> QED BY <4>1, <4>3, EveryCheckPasses
        <4> QED BY <4>1, <4>4 DEF GraphInv, BuildGraph, Registrations, Implemented
      <3> QED BY <2>1, <3>1
    <2>3. CASE ~Activate
      <3>1. phase' # "active"
        BY <1>2, <2>3 DEF Next, Describe, DescriptorPanics, BindClock, AddSystem, Registering,
           RegisterReturns, RegisterFails, Finish, GraphBuildFails, Discard, vars
      <3> QED BY <2>1, <3>1
    <2> QED BY <2>2, <2>3
  <1> QED BY <1>1, <1>2

\* If modules return the errors the registrar gives them, an activated
\* simulation has every registered system in the schedule of its trigger and in
\* no other, and in no schedule do systems wait for each other (from_builder,
\* build_schedule): what validation left of the systems of a trigger was nothing,
\* and what it leaves is what could never start.
THEOREM ActivatedRuns == Spec => [](Propagates => ActivatedGraphRuns)
  <1>1. BuilderInv /\ GraphInv => (Propagates => ActivatedGraphRuns)
    <2> SUFFICES ASSUME BuilderInv, GraphInv, Propagates, phase = "active"
                 PROVE  ActivatedGraphRuns
      BY DEF ActivatedGraphRuns
    <2> DEFINE schedules == graph.schedules
    <2>1. /\ modules \in Seq(RegisteredModule) /\ ValidationVerdict(modules) = "Ok"
          /\ graph = BuildGraph
      BY DEF GraphInv, BuilderInv, ModulesSound
    <2>2. /\ \A j \in DOMAIN modules :
               Range(modules[j].descriptor.entries) \cup Range(modules[j].descriptor.clocks)
                 \subseteq DOMAIN schedules
          /\ DOMAIN schedules \subseteq Triggers
          /\ \A t \in DOMAIN schedules : schedules[t] = TriggeredBy(modules, t)
      BY <2>1, SchedulesAre
    <2> HIDE DEF schedules
    <2>3. ASSUME NEW s \in SystemsOf(modules)
          PROVE  s.trigger \in DOMAIN schedules /\ s \in schedules[s.trigger]
      <3>1. PICK i \in DOMAIN modules : s \in Range(modules[i].descriptor.systems)
        BY DEF SystemsOf, DescriptorsOf
      <3>2. s.trigger \in DOMAIN schedules
        BY <2>1, <2>2, <3>1, TriggerIsProvided
      <3> QED BY <2>2, <3>2 DEF TriggeredBy
    <2>4. ASSUME NEW t \in DOMAIN schedules
          PROVE  (\A s \in schedules[t] : s.trigger = t) /\ Stuck(schedules[t]) = {}
      <3>1. t \in Triggers /\ schedules[t] = TriggeredBy(modules, t)
        BY <2>2
      <3>2. Unresolved(TriggeredBy(modules, t)) = {}
        BY <2>1, <3>1, ValidationFacts DEF Cyclic
      <3> QED BY <2>1, <3>1, <3>2, LeftAreStuck DEF TriggeredBy
    <2> QED BY <2>3, <2>4 DEF ActivatedGraphRuns, schedules
  <1>2. Init => GraphInv
    BY DEF Init, GraphInv
  <1> QED BY <1>1, <1>2, GraphStep, BuilderInvariant, PTL DEF Spec
=============================================================================

------------------------ MODULE BevySimulation_proofs ------------------------
(***************************************************************************)
(* Theorems about BevySimulation, for every value of its constants that    *)
(* satisfies their assumptions.                                            *)
(***************************************************************************)
EXTENDS BevySimulation, SequenceFacts

\* What the steps of a call rely on.  A write call runs on an Active simulation
\* that no inspection borrows, until it answers; its schedule is one of those
\* activation built; targets are prepared, and transitions applied, within the
\* request.
CallDiscipline ==
  /\ call = "none" <=> phase = "none"
  /\ call = "WriteWorld" <=> phase = "native"
  /\ call # "none" => open = 0 /\ status = "Active"
  /\ call = "Execute" => phase = "systems" /\ trigger \in Entries
  /\ call = "Advance" => trigger \in ClockTypes
  /\ call = "none" => prepared = <<>>
  /\ phase \in {"none", "prepare"} => applied = 0
  /\ phase = "prepare" => Len(prepared) < Len(targets)
  /\ phase = "apply" => applied <= Len(prepared)

Types == TypeOK /\ CallDiscipline
-----------------------------------------------------------------------------
(* Facts about the data the actions handle *)

LEMMA EntityFacts ==
  /\ NoEntity \in 0..MaxEntities /\ Entities \subseteq 0..MaxEntities
  /\ 0 \in 0..MaxInspect /\ 0 \in 0..MaxEntities
  /\ Vacant \in Component
  BY BoundAssumption, ClockAssumption DEF NoEntity, Entities, Vacant, Component

LEMMA RequestIsSequence == ASSUME NEW ts \in Requests PROVE ts \in Seq(Target)
  <1>1. PICK n \in 0..MaxTargets : ts \in [1..n -> Target]
    BY DEF Requests
  <1>2. n \in Nat
    BY BoundAssumption
  <1> QED BY <1>1, <1>2, SeqDef

LEMMA ElementAt ==
  ASSUME NEW S, NEW s \in Seq(S), NEW i \in Nat, i < Len(s)
  PROVE  s[i + 1] \in S
  OBVIOUS

LEMMA SmallestFailureFails ==
  ASSUME failures \in Seq(Systems), failures # <<>>
  PROVE  SmallestFailure \in Failed /\ \A s \in Failed : SmallestFailure <= s
  <1>1. Failed \subseteq Nat
    BY ScheduleAssumption DEF Failed
  <1>2. Failed # {}
    <2>1. 1 \in DOMAIN failures
      OBVIOUS
    <2> QED BY <2>1 DEF Failed
  <1>3. \E s \in Failed : \A r \in Failed : s <= r
    BY <1>1, <1>2, LeastNatural
  <1> QED BY <1>3 DEF SmallestFailure

LEMMA FailuresRecorded ==
  ASSUME failures \in Seq(Systems) PROVE failures # <<>> <=> Failed # {}
  <1>1. ASSUME failures # <<>> PROVE Failed # {}
    BY <1>1, SmallestFailureFails
  <1>2. ASSUME failures = <<>> PROVE Failed = {}
    BY <1>2 DEF Failed
  <1> QED BY <1>1, <1>2

LEMMA FailedAreSystems ==
  ASSUME failures \in Seq(Systems) PROVE Failed \subseteq Systems
  BY DEF Failed
-----------------------------------------------------------------------------
(* What a call may answer *)

LEMMA ErrorsAreOutcomes ==
  ASSUME NEW op \in Operations
  PROVE  {"Ok"} \cup Errors(op) \subseteq Outcomes
  BY DEF Errors, Outcomes, Benign, Fatal, ClockLookup, BackendFault

LEMMA RefusalIsOutcome == Refusal(status) \in Outcomes
  BY DEF Refusal, Outcomes, Refusals

LEMMA ReadVerdictAnswers ==
  ASSUME NEW a \in Apis, NEW k \in Keys, NEW op \in {"ReadClock", "RemoveClock"}
  PROVE  ReadVerdict(a, k) \in {"Ok"} \cup Errors(op)
  BY DEF ReadVerdict, Unbound, Errors, ClockLookup, BackendFault

LEMMA InsertVerdictAnswers ==
  ASSUME NEW a \in Apis, NEW k \in Keys, NEW v \in Values
  PROVE  InsertVerdict(a, k, v) \in {"Ok"} \cup Errors("InsertClock")
  BY DEF InsertVerdict, Unbound, Errors, ClockLookup, BackendFault

LEMMA AdvanceRequestVerdictAnswers ==
  ASSUME NEW a \in Apis, NEW t, NEW ts
  PROVE  AdvanceRequestVerdict(a, t, ts) \in {"Ok"} \cup Errors("Advance")
  BY DEF AdvanceRequestVerdict, Unbound, Errors, ClockLookup, BackendFault

LEMMA PrepareVerdictAnswers ==
  ASSUME NEW k, NEW step
  PROVE  PrepareVerdict(api, k, step) \in {"Ok"} \cup Errors("Advance")
  BY DEF PrepareVerdict, Errors, ClockLookup, BackendFault

LEMMA ScheduleAnswers ==
  /\ ExecuteVerdict \in {"Ok"} \cup Errors("Execute")
  /\ AdvanceVerdict \in {"Ok"} \cup Errors("Advance")
  BY DEF ExecuteVerdict, AdvanceVerdict, Errors, Fatal

LEMMA UnwindAnswers ==
  ASSUME NEW kind, NEW op \in WriteOps
  PROVE  UnwindOutcome(kind) \in {"Ok"} \cup Errors(op)
  BY DEF UnwindOutcome, WriteOps, Errors, BackendFault, Fatal
-----------------------------------------------------------------------------
(* Type correctness: every group of variables keeps its type, and a call   *)
(* that answers leaves nothing in progress                                 *)

LEMMA GroupsKept ==
  ASSUME Types
  PROVE  /\ UNCHANGED public => PublicType'
         /\ UNCHANGED clocks => ClocksType'
         /\ UNCHANGED resources => ResourcesType'
         /\ UNCHANGED current => CurrentType'
         /\ UNCHANGED run => RunType'
         /\ UNCHANGED history => HistoryType'
         /\ UNCHANGED <<public, call, phase, trigger, targets, prepared, applied>>
              => CallDiscipline'
  <1>1. UNCHANGED public => PublicType'
    BY DEF Types, TypeOK, PublicType, public
  <1>2. UNCHANGED clocks => ClocksType'
    BY DEF Types, TypeOK, ClocksType, clocks
  <1>3. UNCHANGED resources => ResourcesType'
    BY DEF Types, TypeOK, ResourcesType, resources
  <1>4. UNCHANGED current => CurrentType'
    BY DEF Types, TypeOK, CurrentType, current
  <1>5. UNCHANGED run => RunType'
    BY DEF Types, TypeOK, RunType, run
  <1>6. UNCHANGED history => HistoryType'
    BY DEF Types, TypeOK, HistoryType, history
  <1>7. UNCHANGED <<public, call, phase, trigger, targets, prepared, applied>>
          => CallDiscipline'
    BY DEF Types, CallDiscipline, public
  <1> QED BY <1>1, <1>2, <1>3, <1>4, <1>5, <1>6, <1>7

\* An outcome always decides a lifecycle state.
LEMMA StatusAfterType ==
  ASSUME NEW op, NEW out, status \in Statuses
  PROVE  StatusAfter(op, out, status) \in Statuses
  BY DEF StatusAfter, Statuses

LEMMA ReturnTypes ==
  ASSUME Types, NEW op \in Operations, NEW out \in Outcomes,
         NEW key \in Keys \cup {NoKey}, NEW system \in Systems \cup {NoSystem},
         Return(op, out, key, system),
         ClocksType', ResourcesType', open' \in 0..MaxInspect, tampered' \in BOOLEAN
  PROVE  Types'
  <1>1. PublicType'
    BY StatusAfterType DEF Types, TypeOK, PublicType, Return
  <1>2. CurrentType'
    BY DEF CurrentType, Return, Apis
  <1>3. RunType'
    BY DEF RunType, Return, EmptySink, NoOutputs
  <1>4. HistoryType'
    BY DEF HistoryType, Return, ClocksType
  <1>5. CallDiscipline'
    BY DEF CallDiscipline, Return
  <1> QED BY <1>1, <1>2, <1>3, <1>4, <1>5 DEF Types, TypeOK

LEMMA AnswerTypes ==
  ASSUME Types, NEW op \in Operations, NEW out \in Outcomes, Answer(op, out),
         ClocksType', ResourcesType', open' \in 0..MaxInspect, tampered' \in BOOLEAN
  PROVE  Types'
  BY ReturnTypes DEF Answer

\* restore_internal_resources gives the resources back their types.
LEMMA RestoreTypes ==
  ASSUME Types, RestoreResources, failures' \in Seq(Systems),
         contexts' \in SUBSET Triggers, schedules' \in SUBSET Triggers
  PROVE  ResourcesType'
  BY DEF RestoreResources, ResourcesType
-----------------------------------------------------------------------------
(* One lemma per part of Next *)

LEMMA RefuseTypes ==
  ASSUME Types, NEW op \in Operations, Refuse(op) PROVE Types'
  <1>1. ClocksType' /\ ResourcesType' /\ open' \in 0..MaxInspect /\ tampered' \in BOOLEAN
    BY GroupsKept DEF Refuse, Types, TypeOK, PublicType, HistoryType
  <1>2. Answer(op, Refusal(status))
    BY DEF Refuse
  <1> QED BY <1>1, <1>2, RefusalIsOutcome, AnswerTypes

LEMMA ReadsTypes ==
  ASSUME Types, Reads PROVE Types'
  <1> USE DEF Types, TypeOK, PublicType, HistoryType
  <1>1. ASSUME NEW a \in Apis, NEW k \in Keys, ReadClock(a, k) PROVE Types'
    <2>1. ReadVerdict(a, k) \in Outcomes
      BY ReadVerdictAnswers, ErrorsAreOutcomes DEF Operations, ReadOps
    <2>2. ClocksType' /\ ResourcesType' /\ open' \in 0..MaxInspect /\ tampered' \in BOOLEAN
      BY <1>1, GroupsKept DEF ReadClock
    <2> QED BY <1>1, <2>1, <2>2, ReturnTypes DEF ReadClock, Operations, ReadOps
  <1>2. ASSUME NEW k \in Keys, ReadClockUnwinds(k) PROVE Types'
    <2>1. ClocksType' /\ ResourcesType' /\ open' \in 0..MaxInspect /\ tampered' \in BOOLEAN
      BY <1>2, GroupsKept DEF ReadClockUnwinds
    <2> QED BY <1>2, <2>1, AnswerTypes
        DEF ReadClockUnwinds, Operations, ReadOps, Outcomes, Fatal
  <1>3. ASSUME BeginInspect PROVE Types'
    <2>1. PublicType'
      BY <1>3, BoundAssumption DEF BeginInspect
    <2>2. CallDiscipline'
      BY <1>3 DEF BeginInspect, CallDiscipline, current, Enter, Borrowable, Shared, ReadOps
    <2> QED BY <1>3, <2>1, <2>2, GroupsKept DEF BeginInspect
  <1>4. ASSUME NEW out \in {"Ok", "BackendPanicked"}, EndInspect(out) PROVE Types'
    <2>1. ClocksType' /\ ResourcesType' /\ open' \in 0..MaxInspect /\ tampered' \in BOOLEAN
      BY <1>4, GroupsKept, BoundAssumption DEF EndInspect
    <2> QED BY <1>4, <2>1, AnswerTypes DEF EndInspect, Operations, ReadOps, Outcomes, Fatal
  <1> QED BY <1>1, <1>2, <1>3, <1>4 DEF Reads

LEMMA StopTypes == ASSUME Types, Stop PROVE Types'
  <1>1. ClocksType' /\ ResourcesType' /\ open' \in 0..MaxInspect /\ tampered' \in BOOLEAN
    BY GroupsKept DEF Stop, Types, TypeOK, PublicType, HistoryType
  <1> QED BY <1>1, AnswerTypes DEF Stop, Operations, Outcomes

\* A write call that leaves failures, contexts and schedules alone types its
\* resources, whether it restored the internal ones or answered before.
LEMMA WriteKeepsResources ==
  ASSUME Types, RestoreResources \/ UNCHANGED <<handler, collector>>,
         UNCHANGED <<failures, contexts, schedules>>
  PROVE  ResourcesType'
  BY DEF Types, TypeOK, ResourcesType, RestoreResources

LEMMA SpawnTypes ==
  ASSUME Types, NEW k \in Keys, NEW v \in Values, spawned < MaxEntities,
         spawned' = spawned + 1,
         comps' = [comps EXCEPT ![spawned + 1] = [key |-> k, value |-> v]],
         index' \in {index, [index EXCEPT ![k] = spawned + 1]}
  PROVE  ClocksType'
  <1>1. spawned + 1 \in Entities
    BY BoundAssumption DEF Types, TypeOK, ClocksType, Entities
  <1> QED BY <1>1, BoundAssumption DEF Types, TypeOK, ClocksType, Component, Entities

LEMMA RemovalTypes ==
  ASSUME Types, NEW k \in Keys, UNCHANGED spawned,
         index' \in {index, [index EXCEPT ![k] = NoEntity]},
         comps' \in {comps, [comps EXCEPT ![index[k]] = Vacant]}
  PROVE  ClocksType'
  BY EntityFacts DEF Types, TypeOK, ClocksType

LEMMA WritesTypes ==
  ASSUME Types, Writes PROVE Types'
  <1> USE DEF Types, TypeOK, PublicType, HistoryType
  <1>1. ASSUME NEW a \in Apis, NEW k \in Keys, NEW v \in Values, InsertClock(a, k, v)
        PROVE  Types'
    <2>1. InsertVerdict(a, k, v) \in Outcomes
      BY InsertVerdictAnswers, ErrorsAreOutcomes DEF Operations, WriteOps
    <2>2. ClocksType'
      BY <1>1, GroupsKept, SpawnTypes DEF InsertClock
    <2>3. ResourcesType'
      BY <1>1, WriteKeepsResources DEF InsertClock
    <2> QED BY <1>1, <2>1, <2>2, <2>3, AnswerTypes DEF InsertClock, Operations, WriteOps
  <1>2. ASSUME NEW k \in Keys, NEW v \in Values, NEW kind \in Payloads,
               InsertClockUnwinds(k, v, kind)
        PROVE  Types'
    <2>1. UnwindOutcome(kind) \in Outcomes
      BY UnwindAnswers, ErrorsAreOutcomes DEF Operations, WriteOps
    <2>2. ClocksType'
      BY <1>2, GroupsKept, SpawnTypes DEF InsertClockUnwinds
    <2>3. ResourcesType'
      BY <1>2, WriteKeepsResources DEF InsertClockUnwinds
    <2> QED BY <1>2, <2>1, <2>2, <2>3, AnswerTypes DEF InsertClockUnwinds, Operations, WriteOps
  <1>3. ASSUME NEW a \in Apis, NEW k \in Keys, RemoveClock(a, k) PROVE Types'
    <2>1. ReadVerdict(a, k) \in Outcomes
      BY ReadVerdictAnswers, ErrorsAreOutcomes DEF Operations, WriteOps
    <2>2. ClocksType'
      BY <1>3, GroupsKept, RemovalTypes DEF RemoveClock
    <2>3. ResourcesType'
      BY <1>3, WriteKeepsResources DEF RemoveClock
    <2> QED BY <1>3, <2>1, <2>2, <2>3, AnswerTypes DEF RemoveClock, Operations, WriteOps
  <1>4. ASSUME NEW k \in Keys, NEW kind \in Payloads, RemoveClockUnwinds(k, kind)
        PROVE  Types'
    <2>1. UnwindOutcome(kind) \in Outcomes
      BY UnwindAnswers, ErrorsAreOutcomes DEF Operations, WriteOps
    <2>2. ClocksType'
      BY <1>4, GroupsKept, RemovalTypes DEF RemoveClockUnwinds
    <2>3. ResourcesType'
      BY <1>4, WriteKeepsResources DEF RemoveClockUnwinds
    <2> QED BY <1>4, <2>1, <2>2, <2>3, AnswerTypes DEF RemoveClockUnwinds, Operations, WriteOps
  <1> QED BY <1>1, <1>2, <1>3, <1>4, StopTypes DEF Writes

\* A step inside a call in progress, or the beginning of one.
LEMMA RunScheduleTypes ==
  ASSUME Types, NEW t \in Triggers, RunSchedule(t)
  PROVE  /\ failures' \in Seq(Systems)
         /\ contexts' \in SUBSET Triggers /\ schedules' \in SUBSET Triggers
         /\ phase' = "systems"
  BY DEF Types, TypeOK, ResourcesType, RunSchedule

LEMMA ExecutesTypes ==
  ASSUME Types, Executes PROVE Types'
  <1> USE DEF Types, TypeOK, PublicType, HistoryType
  <1>1. ASSUME NEW e \in AskedEntries, NEW inputOk \in BOOLEAN, RejectExecute(e, inputOk)
        PROVE  Types'
    <2>1. ClocksType' /\ ResourcesType'
      BY <1>1, GroupsKept, WriteKeepsResources DEF RejectExecute
    <2>2. PICK out \in {"UnknownExecuteEntry", "InvalidExecuteInput"} : Answer("Execute", out)
      BY <1>1 DEF RejectExecute
    <2>3. "Execute" \in Operations /\ out \in Outcomes
      BY DEF Operations, WriteOps, Outcomes, Benign
    <2> QED BY <1>1, <2>1, <2>2, <2>3, AnswerTypes DEF RejectExecute
  <1>2. ASSUME NEW e \in AskedEntries, BeginExecute(e) PROVE Types'
    <2>1. CASE e \in schedules
      <3>1. ResourcesType'
        BY <1>2, <2>1, RunScheduleTypes, RestoreTypes DEF BeginExecute, Triggers
      <3>2. CurrentType'
        BY <1>2, <2>1, RunScheduleTypes DEF BeginExecute, CurrentType, Triggers
      <3>3. CallDiscipline'
        BY <1>2, <2>1, RunScheduleTypes
        DEF BeginExecute, CallDiscipline, Triggers, Enter, Borrowable, Exclusive, ReadOps,
            Admits, public
      <3> QED BY <1>2, <2>1, <3>1, <3>2, <3>3, GroupsKept DEF BeginExecute
    <2>2. CASE e \notin schedules
      <3>1. ClocksType' /\ ResourcesType'
        BY <1>2, <2>2, GroupsKept, RestoreTypes DEF BeginExecute, ResourcesType
      <3>2. "Execute" \in Operations /\ "BackendFailure" \in Outcomes
        BY DEF Operations, WriteOps, Outcomes, Fatal
      <3> QED BY <1>2, <2>2, <3>1, <3>2, AnswerTypes DEF BeginExecute
    <2> QED BY <2>1, <2>2
  <1> QED BY <1>1, <1>2 DEF Executes

\* The next target of a batch in preparation names a key.
LEMMA NextTargetFacts ==
  ASSUME Types, phase = "prepare"
  PROVE  /\ NextTarget \in Target /\ TargetKey(NextTarget) \in Keys
         /\ TargetKey(NextTarget)[1] = trigger
         /\ call = "Advance" /\ trigger \in ClockTypes
  <1>1. call = "Advance" /\ trigger \in ClockTypes
    BY DEF Types, TypeOK, CurrentType, CallDiscipline
  <1>2. NextTarget \in Target
    BY DEF Types, TypeOK, CurrentType, CallDiscipline, NextTarget
  <1> QED BY <1>1, <1>2, ClockAssumption DEF Target, TargetKey, Keys

\* A target that passes yields a transition between values of the clock type.
LEMMA PreparedTransition ==
  ASSUME Types, NEW k \in Keys, NEW step, PrepareVerdict(api, k, step) = "Ok"
  PROVE  /\ index[k] \in Entities
         /\ comps[index[k]].value \in Values
         /\ Advanced(comps[index[k]].value, step) \in Values
  <1>1. index[k] # NoEntity /\ Advanced(comps[index[k]].value, step) \in Values
    BY DEF PrepareVerdict
  <1>2. index[k] \in Entities
    BY <1>1, BoundAssumption DEF Types, TypeOK, ClocksType, Entities, NoEntity
  <1> QED BY <1>1, <1>2 DEF Types, TypeOK, ClocksType, Component

\* Writing a value into a component keeps it a component.
LEMMA SetValueTypes ==
  ASSUME Types, NEW e \in Entities, NEW v \in Values, UNCHANGED <<index, spawned>>,
         comps' = [comps EXCEPT ![e] = [@ EXCEPT !.value = v]]
  PROVE  ClocksType'
  <1>1. comps \in [Entities -> Component]
    BY DEF Types, TypeOK, ClocksType
  <1>2. [comps[e] EXCEPT !.value = v] \in Component
    BY <1>1 DEF Component
  <1>3. comps' \in [Entities -> Component]
    BY <1>1, <1>2
  <1> QED BY <1>3 DEF Types, TypeOK, ClocksType

LEMMA AdvancesTypes ==
  ASSUME Types, Advances PROVE Types'
  <1> USE DEF Types, TypeOK, PublicType, HistoryType
  <1>0. "Advance" \in Operations /\ {"Ok"} \cup Errors("Advance") \subseteq Outcomes
    BY ErrorsAreOutcomes DEF Operations, WriteOps
  <1>1. ASSUME NEW a \in Apis, NEW t \in AskedTypes, NEW ts \in Requests,
               RejectAdvance(a, t, ts)
        PROVE  Types'
    <2>1. ClocksType' /\ ResourcesType'
      BY <1>1, GroupsKept DEF RejectAdvance
    <2> QED BY <1>0, <1>1, <2>1, AdvanceRequestVerdictAnswers, AnswerTypes DEF RejectAdvance
  <1>2. ASSUME NEW a \in Apis, NEW t \in AskedTypes, NEW ts \in Requests,
               BeginAdvance(a, t, ts)
        PROVE  Types'
    <2>1. t \in ClockTypes /\ ts # <<>> /\ ts \in Seq(Target)
      BY <1>2, RequestIsSequence DEF BeginAdvance, AdvanceRequestVerdict, Unbound
    <2>2. ResourcesType'
      BY <1>2, WriteKeepsResources DEF BeginAdvance
    <2>3. CurrentType'
      BY <1>2, <2>1 DEF BeginAdvance, CurrentType, Triggers
    <2>4. CallDiscipline'
      <3>1. call = "none" /\ open = 0 /\ status = "Active"
        BY <1>2 DEF BeginAdvance, Enter, Borrowable, Exclusive, Admits, ReadOps
      <3>2. prepared = <<>> /\ applied = 0
        BY <3>1 DEF CallDiscipline
      <3>3. Len(prepared) < Len(ts)
        BY <2>1, <3>2
      <3> QED BY <1>2, <2>1, <3>1, <3>2, <3>3 DEF BeginAdvance, CallDiscipline, public
    <2> QED BY <1>2, <2>2, <2>3, <2>4, GroupsKept DEF BeginAdvance
  <1>3. ASSUME PrepareTarget PROVE Types'
    <2>1. /\ phase = "prepare" /\ call = "Advance" /\ trigger \in ClockTypes
          /\ index[TargetKey(NextTarget)] \in Entities
          /\ comps[index[TargetKey(NextTarget)]].value \in Values
          /\ Advanced(comps[index[TargetKey(NextTarget)]].value, NextTarget.step) \in Values
      BY <1>3, NextTargetFacts, PreparedTransition DEF PrepareTarget
    <2>2. prepared \in Seq([entity : Entities, before : Values, after : Values])
      BY DEF CurrentType
    <2>3. /\ prepared' \in Seq([entity : Entities, before : Values, after : Values])
          /\ Len(prepared') = Len(prepared) + 1
      BY <1>3, <2>1, <2>2 DEF PrepareTarget
    <2>4. CurrentType'
      BY <1>3, <2>3 DEF PrepareTarget, CurrentType
    <2>5. CallDiscipline'
      <3>1. Len(prepared) < Len(targets) /\ applied = 0 /\ Len(prepared) \in Nat
            /\ Len(targets) \in Nat
        BY <2>1, <2>2 DEF CallDiscipline, CurrentType
      <3> QED BY <1>3, <2>1, <2>3, <3>1 DEF PrepareTarget, CallDiscipline, public
    <2> QED BY <1>3, <2>4, <2>5, GroupsKept DEF PrepareTarget
  <1>4. ASSUME RejectTarget PROVE Types'
    <2>1. ClocksType' /\ ResourcesType'
      BY <1>4, GroupsKept DEF RejectTarget
    <2> QED BY <1>0, <1>4, <2>1, PrepareVerdictAnswers, AnswerTypes DEF RejectTarget
  <1>5. ASSUME ApplyTarget PROVE Types'
    <2> DEFINE update == prepared[applied + 1]
    <2>1. phase = "apply" /\ applied < Len(prepared) /\ applied \in Nat
      BY <1>5 DEF ApplyTarget, CurrentType
    <2>2. update.entity \in Entities /\ update.after \in Values
      <3>1. prepared \in Seq([entity : Entities, before : Values, after : Values])
        BY DEF CurrentType
      <3>2. update \in [entity : Entities, before : Values, after : Values]
        BY <2>1, <3>1, ElementAt
      <3> QED BY <3>2
    <2>3. CASE HasComponent(update.entity, trigger)
      <3>1. ClocksType'
        BY <1>5, <2>2, <2>3, SetValueTypes DEF ApplyTarget
      <3>2. CurrentType'
        BY <1>5, <2>1, <2>3 DEF ApplyTarget, CurrentType
      <3>3. CallDiscipline'
        BY <1>5, <2>1, <2>3 DEF ApplyTarget, CallDiscipline, public, CurrentType
      <3> QED BY <1>5, <2>3, <3>1, <3>2, <3>3, GroupsKept DEF ApplyTarget
    <2>4. CASE ~HasComponent(update.entity, trigger)
      <3>1. ClocksType' /\ ResourcesType'
        BY <1>5, <2>4, GroupsKept DEF ApplyTarget
      <3>2. "BackendFailure" \in Outcomes
        BY DEF Outcomes, Fatal
      <3> QED BY <1>0, <1>5, <2>4, <3>1, <3>2, AnswerTypes DEF ApplyTarget
    <2> QED BY <2>3, <2>4
  <1>6. ASSUME RunAdvance PROVE Types'
    <2>1. phase = "apply" /\ call = "Advance" /\ trigger \in ClockTypes
      BY <1>6 DEF RunAdvance, CallDiscipline, CurrentType
    <2>2. CASE Runnable(trigger)
      <3>1. ResourcesType' /\ phase' = "systems"
        BY <1>6, <2>1, <2>2, RunScheduleTypes DEF RunAdvance, ResourcesType, Triggers
      <3>2. CurrentType'
        BY <1>6, <2>2, <3>1 DEF RunAdvance, CurrentType
      <3>3. CallDiscipline'
        BY <1>6, <2>1, <2>2, <3>1 DEF RunAdvance, CallDiscipline, public
      <3> QED BY <1>6, <2>2, <3>1, <3>2, <3>3, GroupsKept DEF RunAdvance
    <2>3. CASE ~Runnable(trigger)
      <3>1. ClocksType' /\ UNCHANGED <<handler, collector, schedules>>
        BY <1>6, <2>3, GroupsKept DEF RunAdvance
      <3>2. failures' \in {<<>>, failures} /\ contexts' \in {contexts, contexts \cup {trigger}}
        BY <1>6, <2>3 DEF RunAdvance
      <3>3. failures' \in Seq(Systems) /\ contexts' \in SUBSET Triggers
        <4>1. failures \in Seq(Systems) /\ <<>> \in Seq(Systems)
          BY DEF ResourcesType
        <4>2. trigger \in Triggers /\ contexts \in SUBSET Triggers
          BY <2>1 DEF ResourcesType, Triggers
        <4>3. contexts \cup {trigger} \in SUBSET Triggers
          BY <4>2
        <4> QED BY <3>2, <4>1, <4>2, <4>3
      <3>4. ResourcesType'
        BY <3>1, <3>3 DEF ResourcesType
      <3>5. Unrunnable \in Outcomes
        BY DEF Unrunnable, Outcomes, Fatal
      <3> QED BY <1>0, <1>6, <2>3, <3>1, <3>4, <3>5, AnswerTypes DEF RunAdvance
    <2> QED BY <2>2, <2>3
  <1>7. ASSUME AdvanceUnwinds PROVE Types'
    <2>1. ClocksType' /\ ResourcesType'
      BY <1>7, GroupsKept DEF AdvanceUnwinds
    <2>2. "BackendPanicked" \in Outcomes
      BY DEF Outcomes, Fatal
    <2> QED BY <1>0, <1>7, <2>1, <2>2, AnswerTypes DEF AdvanceUnwinds
  <1> QED BY <1>1, <1>2, <1>3, <1>4, <1>5, <1>6, <1>7 DEF Advances

LEMMA DespawnedTypes ==
  ASSUME Types, NEW es, UNCHANGED <<index, spawned>>, comps' = Despawned(es)
  PROVE  ClocksType'
  BY EntityFacts DEF Types, TypeOK, ClocksType, Despawned

\* The outcome of a schedule that ran to its end, and the system it blames.
LEMMA FinishAnswers ==
  ASSUME Types, FinishSchedule
  PROVE  \E out, system :
           /\ out \in {"Ok"} \cup Errors(call) /\ call \in {"Execute", "Advance"}
           /\ system \in Systems \cup {NoSystem}
           /\ Return(call, out, NoKey, system)
  <1> DEFINE out == IF call = "Execute" THEN ExecuteVerdict ELSE AdvanceVerdict
             system == IF out = "SystemFailed" THEN SmallestFailure ELSE NoSystem
  <1>1. call \in {"Execute", "Advance"}
    BY DEF FinishSchedule, Types, TypeOK, CurrentType, CallDiscipline, InSystems
  <1>2. out \in {"Ok"} \cup Errors(call)
    BY <1>1, ScheduleAnswers
  <1>3. system \in Systems \cup {NoSystem}
    <2>1. out = "SystemFailed" => failures # <<>>
      BY DEF ExecuteVerdict, AdvanceVerdict
    <2>2. failures \in Seq(Systems)
      BY DEF Types, TypeOK, ResourcesType
    <2> QED BY <2>1, <2>2, SmallestFailureFails, FailedAreSystems
  <1>4. Return(call, out, NoKey, system)
    BY DEF FinishSchedule
  <1> QED BY <1>1, <1>2, <1>3, <1>4

Sinks == [attempts : Nat, notDeclared : BOOLEAN, encodingFailed : BOOLEAN,
          output : {"none", "valid", "invalid"}]

LEMMA SinkAfterType ==
  ASSUME sink \in Sinks, NEW kind \in OutputKinds PROVE SinkAfter(kind) \in Sinks
  <1> DEFINE tried == [sink EXCEPT !.attempts = @ + 1]
  <1>1. tried \in Sinks
    BY DEF Sinks
  <1>2. [tried EXCEPT !.notDeclared = TRUE] \in Sinks
    BY <1>1 DEF Sinks
  <1>3. [tried EXCEPT !.encodingFailed = TRUE] \in Sinks
    BY <1>1 DEF Sinks
  <1>4. kind # "unencodable" => [tried EXCEPT !.output = kind] \in Sinks
    <2> HIDE DEF tried
    <2> QED BY <1>1 DEF Sinks, OutputKinds
  <1> QED BY <1>1, <1>2, <1>3, <1>4 DEF SinkAfter

LEMMA SchedulesTypes ==
  ASSUME Types, Schedules PROVE Types'
  <1> USE DEF Types, TypeOK, PublicType, HistoryType
  <1>1. ASSUME NEW s \in Systems, StartSystem(s) PROVE Types'
    <2>1. RunType'
      BY <1>1 DEF StartSystem, RunType
    <2> QED BY <1>1, <2>1, GroupsKept DEF StartSystem, current
  <1>2. ASSUME NEW s \in Systems, NEW kind \in OutputKinds, SetOutput(s, kind) PROVE Types'
    <2>1. sink' \in Sinks
      BY <1>2, SinkAfterType DEF SetOutput, RunType, Sinks
    <2>2. outputs' \in [valid : Nat, invalid : Nat, unencodable : Nat]
      BY <1>2 DEF SetOutput, RunType, OutputKinds
    <2>3. RunType'
      BY <1>2, <2>1, <2>2 DEF SetOutput, RunType, Sinks
    <2> QED BY <1>2, <2>3, GroupsKept DEF SetOutput, current
  <1>3. ASSUME NEW s \in Systems, NEW ok \in BOOLEAN, FinishSystem(s, ok) PROVE Types'
    <2>1. RunType'
      BY <1>3 DEF FinishSystem, RunType
    <2>2. ResourcesType'
      BY <1>3 DEF FinishSystem, ResourcesType
    <2> QED BY <1>3, <2>1, <2>2, GroupsKept DEF FinishSystem, current
  <1>4. ASSUME NEW s \in Systems, NEW kind \in Payloads, SystemUnwinds(s, kind) PROVE Types'
    <2>1. RunType'
      BY <1>4 DEF SystemUnwinds, RunType
    <2> QED BY <1>4, <2>1, GroupsKept DEF SystemUnwinds, current
  <1>5. ASSUME ApplyDeferred PROVE Types'
    <2>1. RunType' /\ ClocksType' /\ HistoryType'
      BY <1>5, DespawnedTypes DEF ApplyDeferred, RunType
    <2> QED BY <1>5, <2>1, GroupsKept DEF ApplyDeferred, current
  <1>6. ASSUME FinishSchedule PROVE Types'
    <2>1. PICK out, system :
            /\ out \in {"Ok"} \cup Errors(call) /\ call \in {"Execute", "Advance"}
            /\ system \in Systems \cup {NoSystem}
            /\ Return(call, out, NoKey, system)
      BY <1>6, FinishAnswers
    <2>2. call \in Operations /\ out \in Outcomes
      BY <2>1, ErrorsAreOutcomes DEF Operations, WriteOps
    <2>3. ClocksType' /\ ResourcesType'
      <3>1. ClocksType'
        BY <1>6, DespawnedTypes DEF FinishSchedule
      <3>2. trigger \in Triggers
        BY <2>1 DEF CallDiscipline, Triggers
      <3> QED BY <1>6, <3>1, <3>2 DEF FinishSchedule, ResourcesType
    <2>4. open' \in 0..MaxInspect /\ tampered' \in BOOLEAN
      BY <1>6 DEF FinishSchedule
    <2> QED BY <2>1, <2>2, <2>3, <2>4, ReturnTypes
  <1>7. ASSUME NEW kind \in Payloads, UnwindSchedule(kind) PROVE Types'
    <2>1. call \in WriteOps /\ call \in Operations
      BY <1>7 DEF UnwindSchedule, CurrentType, CallDiscipline, InSystems, WriteOps, Operations
    <2>2. UnwindOutcome(kind) \in Outcomes
      BY <2>1, UnwindAnswers, ErrorsAreOutcomes
    <2>3. ClocksType' /\ ResourcesType'
      BY <1>7, GroupsKept DEF UnwindSchedule
    <2> QED BY <1>7, <2>1, <2>2, <2>3, AnswerTypes DEF UnwindSchedule
  <1> QED BY <1>1, <1>2, <1>3, <1>4, <1>5, <1>6, <1>7 DEF Schedules

LEMMA NativeTypes ==
  ASSUME Types, Native PROVE Types'
  <1> USE DEF Types, TypeOK, PublicType, HistoryType
  <1>0. "WriteWorld" \in Operations /\ {"Ok"} \cup Errors("WriteWorld") \subseteq Outcomes
    BY ErrorsAreOutcomes DEF Operations, WriteOps
  <1>1. ASSUME BeginWrite PROVE Types'
    <2>1. ResourcesType'
      BY <1>1, WriteKeepsResources DEF BeginWrite
    <2>2. CurrentType'
      BY <1>1 DEF BeginWrite, CurrentType
    <2>3. CallDiscipline'
      BY <1>1 DEF BeginWrite, CallDiscipline, Enter, Borrowable, Exclusive, ReadOps, Admits, public
    <2> QED BY <1>1, <2>1, <2>2, <2>3, GroupsKept DEF BeginWrite
  <1>2. ASSUME EndWrite PROVE Types'
    <2>1. ClocksType' /\ ResourcesType'
      BY <1>2, GroupsKept, WriteKeepsResources DEF EndWrite
    <2> QED BY <1>0, <1>2, <2>1, AnswerTypes DEF EndWrite
  <1>3. ASSUME NEW kind \in Payloads, WriteUnwinds(kind) PROVE Types'
    <2>1. ClocksType' /\ ResourcesType'
      BY <1>3, GroupsKept DEF WriteUnwinds
    <2>2. UnwindOutcome(kind) \in Outcomes
      BY <1>0, UnwindAnswers DEF WriteOps
    <2> QED BY <1>0, <1>3, <2>1, <2>2, AnswerTypes DEF WriteUnwinds
  <1>4. ASSUME NativeResources PROVE Types'
    <2>1. ResourcesType'
      BY <1>4 DEF NativeResources, ResourcesType
    <2> QED BY <1>4, <2>1, GroupsKept DEF NativeResources, current
  <1>5. ASSUME NEW e \in Entities, NEW v \in Values, NativeSetValue(e, v) PROVE Types'
    <2>1. ClocksType'
      BY <1>5, SetValueTypes DEF NativeSetValue
    <2> QED BY <1>5, <2>1, GroupsKept DEF NativeSetValue, current
  <1>6. ASSUME NEW e \in Entities, NEW f \in Entities, NativeReplace(e, f) PROVE Types'
    <2>1. ClocksType' /\ HistoryType'
      BY <1>6, EntityFacts DEF NativeReplace, ClocksType
    <2> QED BY <1>6, <2>1, GroupsKept DEF NativeReplace, current
  <1>7. ASSUME NEW e \in Entities, NativeDespawn(e) PROVE Types'
    <2>1. ClocksType' /\ HistoryType'
      BY <1>7, EntityFacts DEF NativeDespawn, ClocksType
    <2>2. RunType'
      BY <1>7 DEF NativeDespawn, RunType
    <2> QED BY <1>7, <2>1, <2>2, GroupsKept DEF NativeDespawn, current
  <1> QED BY <1>1, <1>2, <1>3, <1>4, <1>5, <1>6, <1>7 DEF Native
-----------------------------------------------------------------------------
LEMMA InitTypes == Init => Types
  <1> SUFFICES ASSUME Init PROVE Types
    OBVIOUS
  <1>1. PublicType
    BY BoundAssumption DEF Init, PublicType, Statuses, Operations
  <1>2. ClocksType
    BY EntityFacts DEF Init, ClocksType
  <1>3. ResourcesType
    BY DEF Init, ResourcesType
  <1>4. CurrentType
    BY DEF Init, CurrentType, Apis
  <1>5. RunType
    BY DEF Init, RunType, EmptySink, NoOutputs
  <1>6. HistoryType
    BY <1>2 DEF Init, HistoryType, ClocksType, Clocks
  <1>7. CallDiscipline
    BY DEF Init, CallDiscipline
  <1> QED BY <1>1, <1>2, <1>3, <1>4, <1>5, <1>6, <1>7 DEF Types, TypeOK

LEMMA NextTypes == Types /\ [Next]_vars => Types'
  <1> SUFFICES ASSUME Types, [Next]_vars PROVE Types'
    OBVIOUS
  <1>1. CASE UNCHANGED vars
    BY <1>1, GroupsKept DEF vars, Types, TypeOK, current
  <1>2. CASE Next
    BY <1>2, RefuseTypes, ReadsTypes, WritesTypes, AdvancesTypes, ExecutesTypes,
       SchedulesTypes, NativeTypes
    DEF Next
  <1> QED BY <1>1, <1>2

\* The types and the discipline of calls, for any modules, clocks, systems and
\* schedules: whatever user code does, a write call runs alone on an Active
\* simulation and a batch never reads past its targets.
THEOREM TypesInvariant == Spec => []Types
  BY InitTypes, NextTypes, PTL DEF Spec

\* Every variable of the Bevy backend stays in its type.
THEOREM TypeCorrect == Spec => []TypeOK
  <1>1. Types => TypeOK
    BY DEF Types
  <1> QED BY <1>1, TypesInvariant, PTL
-----------------------------------------------------------------------------
(* The lifecycle has no way back *)

\* Once the simulation is not Active no write call is in progress and none
\* begins: what is left is refusals, reads and Stop.
LEMMA OnlyReadsRemain ==
  ASSUME Types, status # "Active", Next
  PROVE  (\E op \in Operations : Refuse(op)) \/ Reads \/ Stop
  <1>1. call = "none" /\ phase = "none"
    BY DEF Types, CallDiscipline
  <1>2. \A op \in WriteOps : ~Admits(op, status)
    BY DEF Admits, WriteOps, ReadOps
  <1>3. ~Executes
    BY <1>2 DEF Executes, BeginExecute, RejectExecute, Enter, WriteOps
  <1>4. ~Advances
    BY <1>1, <1>2 DEF Advances, RejectAdvance, BeginAdvance, PrepareTarget, RejectTarget,
                      ApplyTarget, RunAdvance, AdvanceUnwinds, Enter, WriteOps
  <1>5. ~Schedules
    BY <1>1 DEF Schedules, StartSystem, SetOutput, FinishSystem, SystemUnwinds, ApplyDeferred,
                FinishSchedule, UnwindSchedule, Running, InSystems
  <1>6. ~Native
    BY <1>1, <1>2 DEF Native, BeginWrite, EndWrite, NativeResources, WriteUnwinds,
                      NativeSetValue, NativeReplace, NativeDespawn, NativeTurn, Running,
                      InSystems, Enter, WriteOps
  <1>7. Writes => Stop
    BY <1>2 DEF Writes, InsertClock, InsertClockUnwinds, RemoveClock, RemoveClockUnwinds,
                Enter, WriteOps
  <1> QED BY <1>3, <1>4, <1>5, <1>6, <1>7 DEF Next

LEMMA NoWayBackStep ==
  ASSUME Types, status # "Active", Next
  PROVE  /\ status = "Stopped" => status' # "Active" /\ UNCHANGED clocks
         /\ status = "Faulted" => UNCHANGED <<status, clocks>>
  <1>1. status \in {"Stopped", "Faulted"}
    BY DEF Types, TypeOK, PublicType, Statuses
  <1>2. ASSUME NEW op \in Operations, Refuse(op)
        PROVE  status' = status /\ UNCHANGED clocks
    BY <1>1, <1>2 DEF Refuse, Answer, Return, StatusAfter, Refusal, Fatal
  <1>3. ASSUME Stop PROVE status = "Stopped" /\ status' = "Stopped" /\ UNCHANGED clocks
    BY <1>1, <1>3 DEF Stop, Enter, Admits, Answer, Return, StatusAfter, Fatal
  <1>4. ASSUME NEW a \in Apis, NEW k \in Keys, ReadClock(a, k)
        PROVE  status = "Stopped" /\ status' # "Active" /\ UNCHANGED clocks
    BY <1>1, <1>4 DEF ReadClock, Enter, Admits, Return, StatusAfter
  <1>5. ASSUME NEW k \in Keys, ReadClockUnwinds(k)
        PROVE  status = "Stopped" /\ status' # "Active" /\ UNCHANGED clocks
    BY <1>1, <1>5 DEF ReadClockUnwinds, Enter, Admits, Answer, Return, StatusAfter
  <1>6. ASSUME BeginInspect PROVE status' = status /\ UNCHANGED clocks
    BY <1>6 DEF BeginInspect
  <1>7. ASSUME NEW out \in {"Ok", "BackendPanicked"}, EndInspect(out)
        PROVE  status' \in {status, "Faulted"} /\ UNCHANGED clocks
    BY <1>7 DEF EndInspect, Answer, Return, StatusAfter
  <1> QED BY <1>1, <1>2, <1>3, <1>4, <1>5, <1>6, <1>7, OnlyReadsRemain DEF Reads

\* A stopped simulation never becomes active again and its clocks never change;
\* a faulted one stays faulted and its clocks never change.
THEOREM LifecycleIsFinal == Spec => NoWayBack
  <1>1. Types /\ [Next]_vars =>
          [/\ status = "Stopped" => status' # "Active" /\ UNCHANGED clocks
           /\ status = "Faulted" => UNCHANGED <<status, clocks>>]_vars
    <2> SUFFICES ASSUME Types, Next
                 PROVE  /\ status = "Stopped" => status' # "Active" /\ UNCHANGED clocks
                        /\ status = "Faulted" => UNCHANGED <<status, clocks>>
      OBVIOUS
    <2> QED BY NoWayBackStep
  <1> QED BY <1>1, TypesInvariant, PTL DEF Spec, NoWayBack
-----------------------------------------------------------------------------
(* Schedules and context resources are scoped to the call that runs them *)

\* A call that answers without having run a schedule leaves them where they are.
LEMMA ScopeOfAnswer ==
  ASSUME ScheduleScope, ~InSystems, status # "Faulted",
         NEW op, NEW out, NEW key, NEW system, Return(op, out, key, system),
         UNCHANGED <<contexts, schedules>>
  PROVE  ScheduleScope'
  BY DEF ScheduleScope, InSystems, Return

\* A call that ends in a fault owes nothing.
LEMMA ScopeOfFault ==
  ASSUME NEW op, NEW out \in Fatal, NEW key, NEW system, Return(op, out, key, system)
  PROVE  ScheduleScope'
  BY DEF ScheduleScope, InSystems, Return, StatusAfter

LEMMA ScopeKept ==
  ASSUME ScheduleScope, UNCHANGED <<status, handler, collector, contexts, schedules, phase, trigger>>
  PROVE  ScheduleScope'
  BY DEF ScheduleScope, InSystems

\* What Enter grants: nothing else is in progress and nothing has faulted.
LEMMA EntryFacts ==
  ASSUME Types, NEW op, Enter(op)
  PROVE  call = "none" /\ phase = "none" /\ status # "Faulted" /\ ~InSystems
  BY DEF Types, CallDiscipline, Enter, Borrowable, Exclusive, Shared, Admits, InSystems

LEMMA ScopeStep ==
  ASSUME Types, ScheduleScope, Next PROVE ScheduleScope'
  <1>1. ASSUME NEW op \in Operations, Refuse(op) PROVE ScheduleScope'
    <2>1. phase = "none" /\ phase' = "none" /\ status' = status
      BY <1>1 DEF Refuse, Borrowable, Exclusive, Shared, Types, CallDiscipline, Answer, Return,
                  StatusAfter, Refusal, Fatal
    <2> QED BY <1>1, <2>1 DEF Refuse, resources, ScheduleScope, InSystems
  <1>2. ASSUME Reads PROVE ScheduleScope'
    <2>1. ASSUME NEW a \in Apis, NEW k \in Keys, ReadClock(a, k) PROVE ScheduleScope'
      BY <2>1, EntryFacts, ScopeOfAnswer DEF ReadClock, resources
    <2>2. ASSUME NEW k \in Keys, ReadClockUnwinds(k) PROVE ScheduleScope'
      BY <2>2, ScopeOfFault DEF ReadClockUnwinds, Answer, Fatal
    <2>3. ASSUME BeginInspect PROVE ScheduleScope'
      BY <2>3, ScopeKept DEF BeginInspect, resources, current
    <2>4. ASSUME NEW out \in {"Ok", "BackendPanicked"}, EndInspect(out) PROVE ScheduleScope'
      <3>1. phase = "none" /\ phase' = "none" /\ status' \in {status, "Faulted"}
        BY <2>4 DEF EndInspect, Types, TypeOK, PublicType, CallDiscipline, Answer, Return,
                    StatusAfter
      <3> QED BY <2>4, <3>1 DEF EndInspect, resources, ScheduleScope, InSystems
    <2> QED BY <1>2, <2>1, <2>2, <2>3, <2>4 DEF Reads
  <1>3. ASSUME Writes PROVE ScheduleScope'
    <2>1. ASSUME NEW a \in Apis, NEW k \in Keys, NEW v \in Values, InsertClock(a, k, v)
          PROVE  ScheduleScope'
      BY <2>1, EntryFacts, ScopeOfAnswer DEF InsertClock, Answer
    <2>2. ASSUME NEW k \in Keys, NEW v \in Values, NEW kind \in Payloads,
                 InsertClockUnwinds(k, v, kind)
          PROVE  ScheduleScope'
      BY <2>2, EntryFacts, ScopeOfAnswer DEF InsertClockUnwinds, Answer
    <2>3. ASSUME NEW a \in Apis, NEW k \in Keys, RemoveClock(a, k) PROVE ScheduleScope'
      BY <2>3, EntryFacts, ScopeOfAnswer DEF RemoveClock, Answer
    <2>4. ASSUME NEW k \in Keys, NEW kind \in Payloads, RemoveClockUnwinds(k, kind)
          PROVE  ScheduleScope'
      BY <2>4, EntryFacts, ScopeOfAnswer DEF RemoveClockUnwinds, Answer
    <2>5. ASSUME Stop PROVE ScheduleScope'
      BY <2>5, EntryFacts, ScopeOfAnswer DEF Stop, Answer, resources
    <2> QED BY <1>3, <2>1, <2>2, <2>3, <2>4, <2>5 DEF Writes
  <1>4. ASSUME Advances PROVE ScheduleScope'
    <2> USE DEF InSystems
    <2>0. phase \in {"prepare", "apply"} =>
            /\ status # "Faulted" /\ trigger \in ClockTypes
            /\ handler = "redacting" /\ collector /\ contexts = {} /\ schedules = Triggers
      BY DEF Types, TypeOK, CurrentType, CallDiscipline, ScheduleScope
    <2>1. ASSUME NEW a \in Apis, NEW t \in AskedTypes, NEW ts \in Requests,
                 RejectAdvance(a, t, ts)
          PROVE  ScheduleScope'
      BY <2>1, EntryFacts, ScopeOfAnswer DEF RejectAdvance, Answer, resources
    <2>2. ASSUME NEW a \in Apis, NEW t \in AskedTypes, NEW ts \in Requests,
                 BeginAdvance(a, t, ts)
          PROVE  ScheduleScope'
      BY <2>2, EntryFacts DEF BeginAdvance, RestoreResources, ScheduleScope, public
    <2>3. ASSUME PrepareTarget PROVE ScheduleScope'
      BY <2>0, <2>3 DEF PrepareTarget, ScheduleScope, public, resources
    <2>4. ASSUME RejectTarget PROVE ScheduleScope'
      BY <2>0, <2>4, ScopeOfAnswer DEF RejectTarget, Answer, resources
    <2>5. ASSUME ApplyTarget PROVE ScheduleScope'
      <3>1. CASE HasComponent(prepared[applied + 1].entity, trigger)
        BY <2>5, <3>1, ScopeKept DEF ApplyTarget, public, resources
      <3>2. CASE ~HasComponent(prepared[applied + 1].entity, trigger)
        BY <2>0, <2>5, <3>2, ScopeOfAnswer DEF ApplyTarget, Answer, resources
      <3> QED BY <3>1, <3>2
    <2>6. ASSUME RunAdvance PROVE ScheduleScope'
      <3>1. Runnable(trigger)
        BY <2>0, <2>6 DEF RunAdvance, Runnable, Triggers
      <3> QED BY <2>0, <2>6, <3>1 DEF RunAdvance, RunSchedule, ScheduleScope, public
    <2>7. ASSUME AdvanceUnwinds PROVE ScheduleScope'
      BY <2>0, <2>7, ScopeOfAnswer DEF AdvanceUnwinds, Answer, resources
    <2> QED BY <1>4, <2>1, <2>2, <2>3, <2>4, <2>5, <2>6, <2>7 DEF Advances
  <1>5. ASSUME Executes PROVE ScheduleScope'
    <2>1. ASSUME NEW e \in AskedEntries, NEW inputOk \in BOOLEAN, RejectExecute(e, inputOk)
          PROVE  ScheduleScope'
      BY <2>1, EntryFacts, ScopeOfAnswer DEF RejectExecute, Answer
    <2>2. ASSUME NEW e \in AskedEntries, BeginExecute(e) PROVE ScheduleScope'
      <3>1. phase = "none" /\ contexts = {} /\ schedules = Triggers /\ e \in schedules
        BY <2>2, EntryFacts DEF BeginExecute, ScheduleScope, InSystems, Triggers
      <3> QED BY <2>2, <3>1
          DEF BeginExecute, RunSchedule, RestoreResources, ScheduleScope, InSystems, public
    <2> QED BY <1>5, <2>1, <2>2 DEF Executes
  <1>6. ASSUME Schedules PROVE ScheduleScope'
    <2>1. ASSUME NEW s \in Systems, StartSystem(s) PROVE ScheduleScope'
      BY <2>1, ScopeKept DEF StartSystem, public, resources, current
    <2>2. ASSUME NEW s \in Systems, NEW kind \in OutputKinds, SetOutput(s, kind)
          PROVE  ScheduleScope'
      BY <2>2, ScopeKept DEF SetOutput, public, resources, current
    <2>3. ASSUME NEW s \in Systems, NEW ok \in BOOLEAN, FinishSystem(s, ok)
          PROVE  ScheduleScope'
      BY <2>3, ScopeKept DEF FinishSystem, public, current
    <2>4. ASSUME NEW s \in Systems, NEW kind \in Payloads, SystemUnwinds(s, kind)
          PROVE  ScheduleScope'
      BY <2>4, ScopeKept DEF SystemUnwinds, public, resources, current
    <2>5. ASSUME ApplyDeferred PROVE ScheduleScope'
      BY <2>5, ScopeKept DEF ApplyDeferred, public, resources, current
    <2>6. ASSUME FinishSchedule PROVE ScheduleScope'
      <3>1. contexts' = {} /\ schedules' = Triggers
        BY <2>6 DEF FinishSchedule, ScheduleScope, InSystems, Types, TypeOK, CurrentType,
                    CallDiscipline, Triggers
      <3>2. phase' = "none"
        BY <2>6, FinishAnswers DEF Return
      <3> QED BY <3>1, <3>2 DEF ScheduleScope, InSystems
    <2>7. ASSUME NEW kind \in Payloads, UnwindSchedule(kind) PROVE ScheduleScope'
      BY <2>7, ScopeOfFault DEF UnwindSchedule, UnwindOutcome, Answer, Fatal
    <2> QED BY <1>6, <2>1, <2>2, <2>3, <2>4, <2>5, <2>6, <2>7 DEF Schedules
  <1>7. ASSUME Native PROVE ScheduleScope'
    <2>0. phase = "native" => status # "Faulted" /\ ~InSystems
      BY DEF Types, CallDiscipline, InSystems
    <2>1. ASSUME BeginWrite PROVE ScheduleScope'
      BY <2>1, EntryFacts DEF BeginWrite, ScheduleScope, InSystems, public
    <2>2. ASSUME EndWrite PROVE ScheduleScope'
      BY <2>0, <2>2, ScopeOfAnswer DEF EndWrite, Answer
    <2>3. ASSUME NEW kind \in Payloads, WriteUnwinds(kind) PROVE ScheduleScope'
      BY <2>3, ScopeOfFault DEF WriteUnwinds, UnwindOutcome, Answer, Fatal
    <2>4. ASSUME NativeResources PROVE ScheduleScope'
      BY <2>4 DEF NativeResources, ScheduleScope, InSystems, public, current
    <2>5. ASSUME NEW e \in Entities, NEW v \in Values, NativeSetValue(e, v) PROVE ScheduleScope'
      BY <2>5, ScopeKept DEF NativeSetValue, public, resources, current
    <2>6. ASSUME NEW e \in Entities, NEW f \in Entities, NativeReplace(e, f)
          PROVE  ScheduleScope'
      BY <2>6, ScopeKept DEF NativeReplace, public, resources, current
    <2>7. ASSUME NEW e \in Entities, NativeDespawn(e) PROVE ScheduleScope'
      BY <2>7, ScopeKept DEF NativeDespawn, public, resources, current
    <2> QED BY <1>7, <2>1, <2>2, <2>3, <2>4, <2>5, <2>6, <2>7 DEF Native
  <1> QED BY <1>1, <1>2, <1>3, <1>4, <1>5, <1>6, <1>7 DEF Next

\* A schedule is out of its map and its context in the world exactly while it
\* runs, under the adapter's own resources; an unfaulted simulation between
\* calls owns every schedule and holds no context.
THEOREM SchedulesAreScoped == Spec => []ScheduleScope
  <1>1. Init => ScheduleScope
    BY DEF Init, ScheduleScope, InSystems
  <1>2. Types /\ ScheduleScope /\ [Next]_vars => ScheduleScope'
    <2>1. CASE UNCHANGED vars
      BY <2>1, ScopeKept DEF vars, public, resources, current
    <2> QED BY <2>1, ScopeStep
  <1> QED BY <1>1, <1>2, TypesInvariant, PTL DEF Spec
-----------------------------------------------------------------------------
(* The backend implements the contract of armillae-simulate *)

LEMMA SameVocabulary ==
  /\ Contract!Operations = Operations /\ Contract!ReadOps = ReadOps
  /\ Contract!Outcomes = Outcomes
  /\ \A op : Contract!Errors(op) = Errors(op)
  /\ \A op, st : Contract!Admits(op, st) = Admits(op, st)
  /\ \A st : Contract!Refusal(st) = Refusal(st)
  /\ \A op, out, st : Contract!StatusAfter(op, out, st) = StatusAfter(op, out, st)
  <1>1. /\ Contract!Fatal = Fatal /\ Contract!Outcomes = Outcomes
        /\ Contract!Operations = Operations /\ Contract!ReadOps = ReadOps
    BY DEF Contract!Fatal, Fatal, Contract!Outcomes, Outcomes, Contract!Benign, Benign,
           Contract!Refusals, Refusals, Contract!Operations, Operations, Contract!ReadOps,
           ReadOps, Contract!WriteOps, WriteOps
  <1>2. /\ Contract!ClockLookup = ClockLookup /\ Contract!BackendFault = BackendFault
    BY DEF Contract!ClockLookup, ClockLookup, Contract!BackendFault, BackendFault
  <1>3. ASSUME NEW op PROVE Contract!Errors(op) = Errors(op)
    BY <1>1, <1>2, Zenon DEF Contract!Errors, Errors
  <1>4. ASSUME NEW op, NEW st PROVE Contract!Admits(op, st) = Admits(op, st)
    BY <1>1 DEF Contract!Admits, Admits
  <1>5. ASSUME NEW st PROVE Contract!Refusal(st) = Refusal(st)
    BY DEF Contract!Refusal, Refusal
  <1>6. ASSUME NEW op, NEW out, NEW st
        PROVE  Contract!StatusAfter(op, out, st) = StatusAfter(op, out, st)
    BY <1>1 DEF Contract!StatusAfter, StatusAfter
  <1> QED BY <1>1, <1>3, <1>4, <1>5, <1>6

\* An admitted call that answers with one of its outcomes completes the
\* abstract call.
LEMMA ReturnCompletes ==
  ASSUME NEW op \in Operations \ {"InspectWorld"}, op \in ReadOps \/ open = 0,
         Admits(op, status), NEW out \in {"Ok"} \cup Errors(op),
         NEW key, NEW system, Return(op, out, key, system), UNCHANGED open
  PROVE  Contract!Next
  <1>1. out \in Outcomes
    BY ErrorsAreOutcomes
  <1>2. Contract!Complete(op, out)
    BY SameVocabulary DEF Contract!Complete, Contract!Borrowable, Contract!Call, Return
  <1> QED BY <1>1, <1>2, SameVocabulary DEF Contract!Next

\* Enter is the abstract admission.
LEMMA EnterAdmits ==
  ASSUME NEW op, Enter(op)
  PROVE  Admits(op, status) /\ (op \in ReadOps \/ open = 0)
  BY DEF Enter, Borrowable, Exclusive

\* A call in progress was admitted, and nothing has closed the door since.
LEMMA InProgressAdmits ==
  ASSUME Types, call # "none", NEW op
  PROVE  Admits(op, status) /\ open = 0
  BY DEF Types, CallDiscipline, Admits

LEMMA StutterImplements ==
  ASSUME UNCHANGED public PROVE UNCHANGED Contract!vars
  BY DEF public, Contract!vars

LEMMA ImplementationStep ==
  ASSUME Types, Next PROVE [Contract!Next]_(Contract!vars)
  <1> DEFINE Simulated == Contract!Next \/ UNCHANGED Contract!vars
  <1>1. ASSUME NEW op \in Operations, Refuse(op) PROVE Simulated
    <2>1. Contract!Refuse(op)
      <3>1. op \in ReadOps \/ open = 0
        BY <1>1 DEF Refuse, Borrowable, Exclusive
      <3>2. status' = status
        BY <1>1 DEF Refuse, Answer, Return, StatusAfter, Refusal, Fatal
      <3> QED BY <1>1, <3>1, <3>2, SameVocabulary
          DEF Refuse, Answer, Return, Contract!Refuse, Contract!Borrowable, Contract!Call
    <2> QED BY <2>1, SameVocabulary DEF Contract!Next
  <1>2. ASSUME Reads PROVE Simulated
    <2>1. ASSUME NEW a \in Apis, NEW k \in Keys, ReadClock(a, k) PROVE Simulated
      <3>1. ReadVerdict(a, k) \in {"Ok"} \cup Errors("ReadClock")
        BY ReadVerdictAnswers
      <3> QED BY <2>1, <3>1, EnterAdmits, ReturnCompletes DEF ReadClock, Operations, ReadOps
    <2>2. ASSUME NEW k \in Keys, ReadClockUnwinds(k) PROVE Simulated
      <3>1. "BackendPanicked" \in {"Ok"} \cup Errors("ReadClock")
        BY DEF Errors, BackendFault
      <3> QED BY <2>2, <3>1, EnterAdmits, ReturnCompletes
          DEF ReadClockUnwinds, Answer, Operations, ReadOps
    <2>3. ASSUME BeginInspect PROVE Simulated
      <3>1. Contract!BeginInspect
        BY <2>3, EnterAdmits, SameVocabulary DEF BeginInspect, Contract!BeginInspect
      <3> QED BY <3>1 DEF Contract!Next
    <2>4. ASSUME NEW out \in {"Ok", "BackendPanicked"}, EndInspect(out) PROVE Simulated
      <3>1. out \in {"Ok"} \cup Errors("InspectWorld") /\ out \in Outcomes
        BY DEF Errors, Outcomes, Fatal
      <3>2. Contract!EndInspect(out)
        BY <2>4, <3>1, SameVocabulary
        DEF EndInspect, Answer, Return, Contract!EndInspect, Contract!Call
      <3> QED BY <3>1, <3>2, SameVocabulary DEF Contract!Next
    <2> QED BY <1>2, <2>1, <2>2, <2>3, <2>4 DEF Reads
  <1>3. ASSUME Writes PROVE Simulated
    <2>1. ASSUME NEW a \in Apis, NEW k \in Keys, NEW v \in Values, InsertClock(a, k, v)
          PROVE  Simulated
      <3>1. InsertVerdict(a, k, v) \in {"Ok"} \cup Errors("InsertClock")
        BY InsertVerdictAnswers
      <3> QED BY <2>1, <3>1, EnterAdmits, ReturnCompletes
          DEF InsertClock, Answer, Operations, WriteOps
    <2>2. ASSUME NEW k \in Keys, NEW v \in Values, NEW kind \in Payloads,
                 InsertClockUnwinds(k, v, kind)
          PROVE  Simulated
      <3>1. UnwindOutcome(kind) \in {"Ok"} \cup Errors("InsertClock")
        BY UnwindAnswers DEF WriteOps
      <3> QED BY <2>2, <3>1, EnterAdmits, ReturnCompletes
          DEF InsertClockUnwinds, Answer, Operations, WriteOps
    <2>3. ASSUME NEW a \in Apis, NEW k \in Keys, RemoveClock(a, k) PROVE Simulated
      <3>1. ReadVerdict(a, k) \in {"Ok"} \cup Errors("RemoveClock")
        BY ReadVerdictAnswers
      <3> QED BY <2>3, <3>1, EnterAdmits, ReturnCompletes
          DEF RemoveClock, Answer, Operations, WriteOps
    <2>4. ASSUME NEW k \in Keys, NEW kind \in Payloads, RemoveClockUnwinds(k, kind)
          PROVE  Simulated
      <3>1. UnwindOutcome(kind) \in {"Ok"} \cup Errors("RemoveClock")
        BY UnwindAnswers DEF WriteOps
      <3> QED BY <2>4, <3>1, EnterAdmits, ReturnCompletes
          DEF RemoveClockUnwinds, Answer, Operations, WriteOps
    <2>5. ASSUME Stop PROVE Simulated
      BY <2>5, EnterAdmits, ReturnCompletes DEF Stop, Answer, Operations, ReadOps
    <2> QED BY <1>3, <2>1, <2>2, <2>3, <2>4, <2>5 DEF Writes
  <1>4. ASSUME Advances PROVE Simulated
    <2>0. /\ "Advance" \in Operations \ {"InspectWorld"}
          /\ {"BackendFailure", "BackendPanicked"} \subseteq {"Ok"} \cup Errors("Advance")
      BY DEF Operations, WriteOps, Errors, BackendFault
    <2>a. phase \in {"prepare", "apply"} => call # "none"
      BY DEF Types, CallDiscipline
    <2>1. ASSUME NEW a \in Apis, NEW t \in AskedTypes, NEW ts \in Requests,
                 RejectAdvance(a, t, ts)
          PROVE  Simulated
      BY <2>0, <2>1, EnterAdmits, AdvanceRequestVerdictAnswers, ReturnCompletes
      DEF RejectAdvance, Answer
    <2>2. ASSUME NEW a \in Apis, NEW t \in AskedTypes, NEW ts \in Requests,
                 BeginAdvance(a, t, ts)
          PROVE  Simulated
      BY <2>2, StutterImplements DEF BeginAdvance
    <2>3. ASSUME PrepareTarget PROVE Simulated
      BY <2>3, StutterImplements DEF PrepareTarget
    <2>4. ASSUME RejectTarget PROVE Simulated
      BY <2>0, <2>a, <2>4, InProgressAdmits, PrepareVerdictAnswers, ReturnCompletes
      DEF RejectTarget, Answer
    <2>5. ASSUME ApplyTarget PROVE Simulated
      BY <2>0, <2>a, <2>5, InProgressAdmits, ReturnCompletes, StutterImplements
      DEF ApplyTarget, Answer
    <2>6. ASSUME RunAdvance PROVE Simulated
      BY <2>0, <2>a, <2>6, InProgressAdmits, ReturnCompletes, StutterImplements
      DEF RunAdvance, Unrunnable, Answer
    <2>7. ASSUME AdvanceUnwinds PROVE Simulated
      BY <2>0, <2>a, <2>7, InProgressAdmits, ReturnCompletes DEF AdvanceUnwinds, Answer
    <2> QED BY <1>4, <2>1, <2>2, <2>3, <2>4, <2>5, <2>6, <2>7 DEF Advances
  <1>5. ASSUME Executes PROVE Simulated
    <2>0. /\ "Execute" \in Operations \ {"InspectWorld"}
          /\ {"UnknownExecuteEntry", "InvalidExecuteInput", "BackendFailure"}
                \subseteq {"Ok"} \cup Errors("Execute")
      BY DEF Operations, WriteOps, Errors, Fatal
    <2>1. ASSUME NEW e \in AskedEntries, NEW inputOk \in BOOLEAN, RejectExecute(e, inputOk)
          PROVE  Simulated
      BY <2>0, <2>1, EnterAdmits, ReturnCompletes DEF RejectExecute, Answer
    <2>2. ASSUME NEW e \in AskedEntries, BeginExecute(e) PROVE Simulated
      BY <2>0, <2>2, EnterAdmits, ReturnCompletes, StutterImplements DEF BeginExecute, Answer
    <2> QED BY <1>5, <2>1, <2>2 DEF Executes
  <1>6. ASSUME Schedules PROVE Simulated
    <2>1. ASSUME NEW s \in Systems, StartSystem(s) PROVE Simulated
      BY <2>1, StutterImplements DEF StartSystem
    <2>2. ASSUME NEW s \in Systems, NEW kind \in OutputKinds, SetOutput(s, kind)
          PROVE  Simulated
      BY <2>2, StutterImplements DEF SetOutput
    <2>3. ASSUME NEW s \in Systems, NEW ok \in BOOLEAN, FinishSystem(s, ok) PROVE Simulated
      BY <2>3, StutterImplements DEF FinishSystem
    <2>4. ASSUME NEW s \in Systems, NEW kind \in Payloads, SystemUnwinds(s, kind)
          PROVE  Simulated
      BY <2>4, StutterImplements DEF SystemUnwinds
    <2>5. ASSUME ApplyDeferred PROVE Simulated
      BY <2>5, StutterImplements DEF ApplyDeferred
    <2>6. ASSUME FinishSchedule PROVE Simulated
      <3>1. PICK out, system :
              /\ out \in {"Ok"} \cup Errors(call) /\ call \in {"Execute", "Advance"}
              /\ system \in Systems \cup {NoSystem}
              /\ Return(call, out, NoKey, system)
        BY <2>6, FinishAnswers
      <3>2. call \in Operations \ {"InspectWorld"} /\ call # "none" /\ UNCHANGED open
        BY <2>6, <3>1 DEF FinishSchedule, Operations, WriteOps
      <3> QED BY <3>1, <3>2, InProgressAdmits, ReturnCompletes
    <2>7. ASSUME NEW kind \in Payloads, UnwindSchedule(kind) PROVE Simulated
      <3>1. call \in {"Execute", "Advance"} /\ UNCHANGED open
        BY <2>7 DEF UnwindSchedule, Types, TypeOK, CurrentType, CallDiscipline, InSystems
      <3>2. UnwindOutcome(kind) \in {"Ok"} \cup Errors(call)
        BY <3>1, UnwindAnswers DEF WriteOps
      <3>3. call \in Operations \ {"InspectWorld"} /\ call # "none"
        BY <3>1 DEF Operations, WriteOps
      <3> QED BY <2>7, <3>1, <3>2, <3>3, InProgressAdmits, ReturnCompletes
          DEF UnwindSchedule, Answer
    <2> QED BY <1>6, <2>1, <2>2, <2>3, <2>4, <2>5, <2>6, <2>7 DEF Schedules
  <1>7. ASSUME Native PROVE Simulated
    <2>0. "WriteWorld" \in Operations \ {"InspectWorld"}
      BY DEF Operations, WriteOps
    <2>a. phase = "native" => call # "none"
      BY DEF Types, CallDiscipline
    <2>1. ASSUME BeginWrite PROVE Simulated
      BY <2>1, StutterImplements DEF BeginWrite
    <2>2. ASSUME EndWrite PROVE Simulated
      BY <2>0, <2>a, <2>2, InProgressAdmits, ReturnCompletes DEF EndWrite, Answer
    <2>3. ASSUME NEW kind \in Payloads, WriteUnwinds(kind) PROVE Simulated
      <3>1. UnwindOutcome(kind) \in {"Ok"} \cup Errors("WriteWorld")
        BY UnwindAnswers DEF WriteOps
      <3> QED BY <2>0, <2>a, <2>3, <3>1, InProgressAdmits, ReturnCompletes
          DEF WriteUnwinds, Answer
    <2>4. ASSUME NativeResources PROVE Simulated
      BY <2>4, StutterImplements DEF NativeResources
    <2>5. ASSUME NEW e \in Entities, NEW v \in Values, NativeSetValue(e, v) PROVE Simulated
      BY <2>5, StutterImplements DEF NativeSetValue
    <2>6. ASSUME NEW e \in Entities, NEW f \in Entities, NativeReplace(e, f) PROVE Simulated
      BY <2>6, StutterImplements DEF NativeReplace
    <2>7. ASSUME NEW e \in Entities, NativeDespawn(e) PROVE Simulated
      BY <2>7, StutterImplements DEF NativeDespawn
    <2> QED BY <1>7, <2>1, <2>2, <2>3, <2>4, <2>5, <2>6, <2>7 DEF Native
  <1> QED BY <1>1, <1>2, <1>3, <1>4, <1>5, <1>6, <1>7 DEF Next

\* The Bevy backend implements the contract: every call is refused by the
\* lifecycle or answers with one of its operation's outcomes, the outcome alone
\* decides the next status, and what happens inside a call is not observable.
THEOREM ImplementsContract == Spec => RefinesContract
  <1>1. Init => Contract!Init
    BY DEF Init, Contract!Init, Contract!Call
  <1>2. Types /\ [Next]_vars => [Contract!Next]_(Contract!vars)
    <2>1. CASE UNCHANGED vars
      BY <2>1, StutterImplements DEF vars
    <2> QED BY <2>1, ImplementationStep
  <1> QED BY <1>1, <1>2, TypesInvariant, PTL DEF Spec, RefinesContract, Contract!Spec
-----------------------------------------------------------------------------
(* All reads of an open inspection are of one world *)

\* A backend fault was told by a call, and that call has faulted the simulation.
FaultRecorded == last.out \in BackendFault => status = "Faulted"

LEMMA FaultRecordedStep ==
  ASSUME Types, FaultRecorded, Next PROVE FaultRecorded'
  <1> USE DEF Contract!vars, Contract!Call
  <1>1. BackendFault \subseteq Fatal /\ BackendFault \cap (Refusals \cup {"Ok"}) = {}
    BY DEF BackendFault, Fatal, Refusals
  <1>2. CASE UNCHANGED Contract!vars
    BY <1>2 DEF FaultRecorded
  <1>3. ASSUME NEW op \in Operations, Contract!Refuse(op) PROVE FaultRecorded'
    BY <1>1, <1>3, SameVocabulary DEF Contract!Refuse, FaultRecorded, Refusal, Refusals
  <1>4. ASSUME NEW op, NEW out, Contract!Complete(op, out) PROVE FaultRecorded'
    BY <1>1, <1>4, SameVocabulary DEF Contract!Complete, FaultRecorded, StatusAfter
  <1>5. ASSUME Contract!BeginInspect PROVE FaultRecorded'
    BY <1>5 DEF Contract!BeginInspect, FaultRecorded
  <1>6. ASSUME NEW out, Contract!EndInspect(out) PROVE FaultRecorded'
    BY <1>1, <1>6, SameVocabulary DEF Contract!EndInspect, FaultRecorded, StatusAfter
  <1>7. Contract!Next \/ UNCHANGED Contract!vars
    BY ImplementationStep
  <1> QED BY <1>2, <1>3, <1>4, <1>5, <1>6, <1>7, SameVocabulary DEF Contract!Next

\* Under an open inspection there is no write call, and none begins.
LEMMA OnlyReadsInside ==
  ASSUME Types, open > 0, Next
  PROVE  (\E op \in Operations : Refuse(op)) \/ Reads
  <1>1. call = "none" /\ phase = "none" /\ open # 0
    BY DEF Types, TypeOK, PublicType, CallDiscipline
  <1>2. \A op \in WriteOps \cup {"Stop"} : ~Enter(op)
    BY <1>1 DEF Enter, Borrowable, Exclusive, WriteOps, ReadOps
  <1>3. ~Executes
    BY <1>2 DEF Executes, BeginExecute, RejectExecute, WriteOps
  <1>4. ~Advances
    BY <1>1, <1>2 DEF Advances, RejectAdvance, BeginAdvance, PrepareTarget, RejectTarget,
                      ApplyTarget, RunAdvance, AdvanceUnwinds, WriteOps
  <1>5. ~Schedules
    BY <1>1 DEF Schedules, StartSystem, SetOutput, FinishSystem, SystemUnwinds, ApplyDeferred,
                FinishSchedule, UnwindSchedule, Running, InSystems
  <1>6. ~Native
    BY <1>1, <1>2 DEF Native, BeginWrite, EndWrite, NativeResources, WriteUnwinds,
                      NativeSetValue, NativeReplace, NativeDespawn, NativeTurn, Running,
                      InSystems, WriteOps
  <1>7. ~Writes
    BY <1>2 DEF Writes, InsertClock, InsertClockUnwinds, RemoveClock, RemoveClockUnwinds,
                Stop, WriteOps
  <1> QED BY <1>3, <1>4, <1>5, <1>6, <1>7 DEF Next

\* What a read would be answered depends on the clocks and the status alone.
LEMMA AnswerKept ==
  ASSUME NEW a, NEW k, UNCHANGED clocks, status' = status
  PROVE  WouldAnswer(a, k)' = WouldAnswer(a, k)
  BY DEF WouldAnswer, ReadVerdict, HasComponent, clocks

LEMMA AnswerFaulted ==
  ASSUME NEW a, NEW k, status' = "Faulted" PROVE WouldAnswer(a, k)' = "Faulted"
  BY DEF WouldAnswer, Admits, Refusal

\* A call inside an inspection that answers out: a backend fault turns all reads
\* away, any other answer a read may get changes none of them.
LEMMA AnswerInside ==
  ASSUME NEW op \in ReadOps, NEW out \in Outcomes \ (Fatal \ BackendFault),
         NEW key, NEW system, Return(op, out, key, system),
         UNCHANGED clocks, NEW a, NEW k
  PROVE  WouldAnswer(a, k)' =
           IF last'.out \in BackendFault THEN "Faulted" ELSE WouldAnswer(a, k)
  <1>1. last'.out = out /\ status' = StatusAfter(op, out, status)
    BY DEF Return
  <1>2. CASE out \in BackendFault
    <2>1. status' = "Faulted"
      BY <1>1, <1>2 DEF StatusAfter, BackendFault, Fatal
    <2> QED BY <1>1, <1>2, <2>1, AnswerFaulted
  <1>3. CASE out \notin BackendFault
    <2>1. status' = status
      BY <1>1, <1>3 DEF StatusAfter, ReadOps
    <2> QED BY <1>1, <1>3, <2>1, AnswerKept
  <1> QED BY <1>2, <1>3

LEMMA InspectionStep ==
  ASSUME Types, FaultRecorded, open > 0, Next, NEW a \in Apis, NEW k \in Keys
  PROVE  WouldAnswer(a, k)' =
           IF last'.out \in BackendFault THEN "Faulted" ELSE WouldAnswer(a, k)
  <1> DEFINE Goal == WouldAnswer(a, k)' =
                       IF last'.out \in BackendFault THEN "Faulted" ELSE WouldAnswer(a, k)
  <1>1. ASSUME NEW op \in Operations, Refuse(op) PROVE Goal
    <2>1. last'.out = Refusal(status) /\ status' = status
      BY <1>1 DEF Refuse, Answer, Return, StatusAfter, Refusal, Fatal
    <2>2. Refusal(status) \notin BackendFault
      BY DEF Refusal, BackendFault
    <2> QED BY <1>1, <2>1, <2>2, AnswerKept DEF Refuse
  <1>2. ASSUME NEW b \in Apis, NEW j \in Keys, ReadClock(b, j) PROVE Goal
    <2>1. ReadVerdict(b, j) \in Outcomes \ (Fatal \ BackendFault)
      BY DEF ReadVerdict, Unbound, Outcomes, Benign, Fatal, BackendFault
    <2> QED BY <1>2, <2>1, AnswerInside DEF ReadClock, ReadOps
  <1>3. ASSUME NEW j \in Keys, ReadClockUnwinds(j) PROVE Goal
    <2>1. "BackendPanicked" \in Outcomes \ (Fatal \ BackendFault)
      BY DEF Outcomes, Fatal, BackendFault
    <2> QED BY <1>3, <2>1, AnswerInside DEF ReadClockUnwinds, Answer, ReadOps
  <1>4. ASSUME BeginInspect PROVE Goal
    <2>1. last.out \notin BackendFault
      BY <1>4 DEF FaultRecorded, BeginInspect, Enter, Admits
    <2> QED BY <1>4, <2>1, AnswerKept DEF BeginInspect
  <1>5. ASSUME NEW out \in {"Ok", "BackendPanicked"}, EndInspect(out) PROVE Goal
    <2>1. out \in Outcomes \ (Fatal \ BackendFault)
      BY DEF Outcomes, Fatal, BackendFault
    <2> QED BY <1>5, <2>1, AnswerInside DEF EndInspect, Answer, ReadOps
  <1> HIDE DEF Goal
  <1>6. Goal
    BY <1>1, <1>2, <1>3, <1>4, <1>5, OnlyReadsInside DEF Reads
  <1> QED BY <1>6 DEF Goal

\* All reads under an open inspection, nested to any depth, are of one world
\* and one lifecycle state, but for the fault a read or a nested closure raises,
\* which from that step on refuses every read.
THEOREM InspectionsAreStable == Spec => InspectionsReadOneWorld
  <1>1. Init => FaultRecorded
    BY DEF Init, FaultRecorded, BackendFault
  <1>2. Types /\ FaultRecorded /\ [Next]_vars => FaultRecorded'
    <2>1. CASE UNCHANGED vars
      BY <2>1 DEF vars, public, FaultRecorded
    <2> QED BY <2>1, FaultRecordedStep
  <1>3. Types /\ FaultRecorded /\ [Next]_vars =>
          [open > 0 =>
             \A a \in Apis, k \in Keys :
               WouldAnswer(a, k)' =
                 IF last'.out \in BackendFault THEN "Faulted" ELSE WouldAnswer(a, k)]_vars
    BY InspectionStep
  <1> QED BY <1>1, <1>2, <1>3, TypesInvariant, PTL DEF Spec, InspectionsReadOneWorld
-----------------------------------------------------------------------------
(* The clock index and the world agree *)

\* The steps that touch the index, the world or the history of native damage.
ClockSteps ==
  \/ \E a \in Apis, k \in Keys, v \in Values : InsertClock(a, k, v)
  \/ \E k \in Keys, v \in Values, kind \in Payloads : InsertClockUnwinds(k, v, kind)
  \/ \E a \in Apis, k \in Keys : RemoveClock(a, k)
  \/ \E k \in Keys, kind \in Payloads : RemoveClockUnwinds(k, kind)
  \/ ApplyTarget \/ ApplyDeferred \/ FinishSchedule
  \/ \E e \in Entities, v \in Values : NativeSetValue(e, v)
  \/ \E e, f \in Entities : NativeReplace(e, f)
  \/ \E e \in Entities : NativeDespawn(e)

LEMMA OtherStepsKeepClocks ==
  ASSUME Next, ~ClockSteps PROVE UNCHANGED <<clocks, tampered>>
  <1> USE DEF clocks, history
  <1>1. ASSUME NEW op \in Operations, Refuse(op) PROVE UNCHANGED <<clocks, tampered>>
    BY <1>1 DEF Refuse
  <1>2. ASSUME Reads PROVE UNCHANGED <<clocks, tampered>>
    BY <1>2 DEF Reads, ReadClock, ReadClockUnwinds, BeginInspect, EndInspect
  <1>3. ASSUME Stop PROVE UNCHANGED <<clocks, tampered>>
    BY <1>3 DEF Stop
  <1>4. ASSUME Advances, ~ApplyTarget PROVE UNCHANGED <<clocks, tampered>>
    BY <1>4 DEF Advances, RejectAdvance, BeginAdvance, PrepareTarget, RejectTarget, RunAdvance,
                AdvanceUnwinds
  <1>5. ASSUME Executes PROVE UNCHANGED <<clocks, tampered>>
    BY <1>5 DEF Executes, RejectExecute, BeginExecute
  <1>6. ASSUME Schedules, ~ApplyDeferred, ~FinishSchedule PROVE UNCHANGED <<clocks, tampered>>
    BY <1>6 DEF Schedules, StartSystem, SetOutput, FinishSystem, SystemUnwinds, UnwindSchedule
  <1>7. ASSUME BeginWrite \/ EndWrite \/ NativeResources \/ \E kind \in Payloads : WriteUnwinds(kind)
        PROVE  UNCHANGED <<clocks, tampered>>
    BY <1>7 DEF BeginWrite, EndWrite, NativeResources, WriteUnwinds
  <1> QED BY <1>1, <1>2, <1>3, <1>4, <1>5, <1>6, <1>7 DEF Next, Writes, Native, ClockSteps

\* The part of IndexSound that holds whatever native code does.
IndexInjective ==
  /\ \A k \in Keys : index[k] <= spawned
  /\ \A j, k \in Keys : index[j] = index[k] /\ index[k] # NoEntity => j = k

\* The part that holds of an undamaged, unfaulted simulation.
OneToOne ==
  /\ \A k \in Keys : index[k] # NoEntity => comps[index[k]].key = k
  /\ \A e \in Entities : Live(e) => comps[e].key \in Keys /\ index[comps[e].key] = e

LEMMA IndexParts ==
  IndexSound <=> IndexInjective /\ (~tampered /\ status # "Faulted" => OneToOne)
  BY DEF IndexSound, IndexInjective, OneToOne

LEMMA InsertKeepsIndex ==
  ASSUME Types, IndexInjective, NEW k \in Keys, NEW v \in Values, index[k] = NoEntity,
         spawned < MaxEntities, spawned' = spawned + 1,
         comps' = [comps EXCEPT ![spawned + 1] = [key |-> k, value |-> v]],
         index' = [index EXCEPT ![k] = spawned + 1]
  PROVE  IndexInjective' /\ (OneToOne => OneToOne')
  <1>0. spawned \in Nat /\ \A j \in Keys : index[j] \in Nat
    BY BoundAssumption DEF Types, TypeOK, ClocksType
  <1>1. /\ index'[k] = spawned + 1
        /\ \A j \in Keys : j # k => index'[j] = index[j] /\ index'[j] # spawned + 1
    BY <1>0 DEF Types, TypeOK, ClocksType, IndexInjective
  <1>2. IndexInjective'
    BY <1>0, <1>1 DEF IndexInjective
  <1>3. /\ spawned + 1 \in Entities /\ comps'[spawned + 1].key = k
        /\ \A e \in Entities : e # spawned + 1 => comps'[e] = comps[e]
    BY <1>0, BoundAssumption DEF Types, TypeOK, ClocksType, Entities
  <1>4. ASSUME OneToOne PROVE OneToOne'
    <2>1. ASSUME NEW j \in Keys, index'[j] # NoEntity PROVE comps'[index'[j]].key = j
      <3>1. CASE j = k
        BY <1>1, <1>3, <3>1
      <3>2. CASE j # k
        <4>1. index[j] \in Entities
          BY <1>1, <2>1, <3>2, BoundAssumption DEF Types, TypeOK, ClocksType, Entities, NoEntity
        <4> QED BY <1>1, <1>3, <1>4, <2>1, <3>2, <4>1 DEF OneToOne
      <3> QED BY <3>1, <3>2
    <2>2. ASSUME NEW e \in Entities, Live(e)'
          PROVE  comps'[e].key \in Keys /\ index'[comps'[e].key] = e
      <3>1. CASE e = spawned + 1
        BY <1>1, <1>3, <3>1
      <3>2. CASE e # spawned + 1
        <4>1. comps[e].key \in Keys /\ index[comps[e].key] = e
          BY <1>3, <1>4, <2>2, <3>2 DEF OneToOne, Live
        <4>2. comps[e].key # k
          BY <4>1 DEF NoEntity, Entities
        <4> QED BY <1>1, <1>3, <3>2, <4>1, <4>2
      <3> QED BY <3>1, <3>2
    <2> QED BY <2>1, <2>2 DEF OneToOne
  <1> QED BY <1>2, <1>4

LEMMA RemoveKeepsIndex ==
  ASSUME Types, IndexInjective, NEW k \in Keys, index[k] # NoEntity, UNCHANGED spawned,
         index' = [index EXCEPT ![k] = NoEntity],
         comps' = [comps EXCEPT ![index[k]] = Vacant]
  PROVE  IndexInjective' /\ (OneToOne => OneToOne')
  <1>0. spawned \in Nat /\ \A j \in Keys : index[j] \in Nat
    BY BoundAssumption DEF Types, TypeOK, ClocksType
  <1>1. index'[k] = NoEntity /\ \A j \in Keys : j # k => index'[j] = index[j]
    BY DEF Types, TypeOK, ClocksType
  <1>2. IndexInjective'
    BY <1>0, <1>1 DEF IndexInjective, NoEntity
  <1>3. /\ index[k] \in Entities /\ comps'[index[k]] = Vacant
        /\ \A e \in Entities : e # index[k] => comps'[e] = comps[e]
    BY <1>0, BoundAssumption DEF Types, TypeOK, ClocksType, Entities, NoEntity
  <1>4. ASSUME OneToOne PROVE OneToOne'
    <2>1. ASSUME NEW j \in Keys, index'[j] # NoEntity PROVE comps'[index'[j]].key = j
      <3>1. j # k /\ index'[j] = index[j] /\ index[j] # index[k]
        BY <1>1, <2>1 DEF IndexInjective
      <3>2. index[j] \in Entities
        BY <2>1, <3>1, BoundAssumption DEF Types, TypeOK, ClocksType, Entities, NoEntity
      <3> QED BY <1>3, <1>4, <2>1, <3>1, <3>2 DEF OneToOne
    <2>2. ASSUME NEW e \in Entities, Live(e)'
          PROVE  comps'[e].key \in Keys /\ index'[comps'[e].key] = e
      <3>1. e # index[k]
        BY <1>3, <2>2 DEF Live, Vacant
      <3>2. comps[e].key \in Keys /\ index[comps[e].key] = e /\ comps'[e] = comps[e]
        BY <1>3, <1>4, <2>2, <3>1 DEF OneToOne, Live
      <3> QED BY <1>1, <3>1, <3>2
    <2> QED BY <2>1, <2>2 DEF OneToOne
  <1> QED BY <1>2, <1>4

\* Writing a value leaves every key where it is.
LEMMA SetValueKeepsIndex ==
  ASSUME Types, NEW e \in Entities, NEW v, UNCHANGED <<index, spawned>>,
         comps' = [comps EXCEPT ![e] = [@ EXCEPT !.value = v]]
  PROVE  (IndexInjective => IndexInjective') /\ (OneToOne => OneToOne')
  <1>1. \A f \in Entities : comps'[f].key = comps[f].key
    BY DEF Types, TypeOK, ClocksType, Component
  <1>2. \A k \in Keys : index[k] # NoEntity => index[k] \in Entities
    BY BoundAssumption DEF Types, TypeOK, ClocksType, Entities, NoEntity
  <1> QED BY <1>1, <1>2 DEF IndexInjective, OneToOne, Live

\* Damage and faults are never forgotten.
LEMMA DamageIsFinal ==
  ASSUME Types, Next
  PROVE  /\ status = "Faulted" => status' = "Faulted"
         /\ tampered => tampered'
  <1>1. status = "Faulted" => status' = "Faulted"
    BY NoWayBackStep
  <1>2. ASSUME ClockSteps, tampered PROVE tampered'
    BY <1>2 DEF ClockSteps, InsertClock, InsertClockUnwinds, RemoveClock, RemoveClockUnwinds,
                ApplyTarget, ApplyDeferred, FinishSchedule, NativeSetValue, NativeReplace,
                NativeDespawn, history
  <1> QED BY <1>1, <1>2, OtherStepsKeepClocks

LEMMA IndexStep ==
  ASSUME Types, IndexSound, Next PROVE IndexSound'
  <1> DEFINE Kept == (IndexInjective => IndexInjective') /\ (OneToOne => OneToOne')
             Damaged == IndexInjective' /\ (tampered' \/ status' = "Faulted")
  <1>0. ASSUME Kept \/ Damaged PROVE IndexSound'
    BY <1>0, DamageIsFinal, IndexParts DEF IndexSound, IndexInjective, OneToOne
  <1>a. IndexInjective
    BY IndexParts
  <1>b. UNCHANGED clocks => Kept
    BY DEF clocks, IndexInjective, OneToOne, Live
  <1>c. UNCHANGED <<index, spawned>> => IndexInjective'
    BY <1>a DEF IndexInjective
  <1>d. ASSUME NEW op, NEW kind, Answer(op, UnwindOutcome(kind)) PROVE status' = "Faulted"
    BY <1>d DEF Answer, Return, UnwindOutcome, StatusAfter, Fatal
  <1>1. ASSUME NEW a \in Apis, NEW k \in Keys, NEW v \in Values, InsertClock(a, k, v) PROVE Kept
    <2>1. CASE InsertVerdict(a, k, v) = "Ok"
      <3>1. index[k] = NoEntity
        BY <2>1 DEF InsertVerdict, Unbound
      <3> QED BY <1>1, <1>a, <2>1, <3>1, InsertKeepsIndex DEF InsertClock
    <2>2. CASE InsertVerdict(a, k, v) # "Ok"
      BY <1>1, <1>b, <2>2 DEF InsertClock
    <2> QED BY <2>1, <2>2
  <1>2. ASSUME NEW k \in Keys, NEW v \in Values, NEW kind \in Payloads,
               InsertClockUnwinds(k, v, kind)
        PROVE  Damaged
    <2>1. spawned \in Nat /\ index \in [Keys -> Nat]
      BY BoundAssumption DEF Types, TypeOK, ClocksType
    <2>2. IndexInjective'
      BY <1>2, <1>a, <2>1 DEF InsertClockUnwinds, clocks, IndexInjective
    <2> QED BY <1>2, <1>d, <2>2 DEF InsertClockUnwinds
  <1>3. ASSUME NEW a \in Apis, NEW k \in Keys, RemoveClock(a, k) PROVE Kept
    <2>1. CASE ReadVerdict(a, k) = "Ok"
      <3>1. index[k] # NoEntity
        BY <2>1 DEF ReadVerdict, Unbound
      <3> QED BY <1>3, <1>a, <2>1, <3>1, RemoveKeepsIndex DEF RemoveClock
    <2>2. CASE ReadVerdict(a, k) # "Ok"
      BY <1>3, <1>b, <2>2 DEF RemoveClock
    <2> QED BY <2>1, <2>2
  <1>4. ASSUME NEW k \in Keys, NEW kind \in Payloads, RemoveClockUnwinds(k, kind) PROVE Damaged
    <2>1. spawned \in Nat /\ index \in [Keys -> Nat]
      BY BoundAssumption DEF Types, TypeOK, ClocksType
    <2>2. IndexInjective'
      BY <1>4, <1>a, <2>1 DEF RemoveClockUnwinds, clocks, IndexInjective, NoEntity
    <2> QED BY <1>4, <1>d, <2>2 DEF RemoveClockUnwinds
  <1>5. ASSUME ApplyTarget PROVE Kept
    <2> DEFINE update == prepared[applied + 1]
    <2>1. CASE HasComponent(update.entity, trigger)
      <3>1. applied < Len(prepared) /\ applied \in Nat
            /\ prepared \in Seq([entity : Entities, before : Values, after : Values])
        BY <1>5 DEF ApplyTarget, Types, TypeOK, CurrentType
      <3>2. update \in [entity : Entities, before : Values, after : Values]
        BY <3>1, ElementAt
      <3>3. update.entity \in Entities
        BY <3>2
      <3> QED BY <1>5, <2>1, <3>3, SetValueKeepsIndex DEF ApplyTarget
    <2>2. CASE ~HasComponent(update.entity, trigger)
      BY <1>5, <1>b, <2>2 DEF ApplyTarget
    <2> QED BY <2>1, <2>2
  <1>6. ASSUME ApplyDeferred PROVE Damaged
    BY <1>6, <1>c DEF ApplyDeferred
  <1>7. ASSUME FinishSchedule PROVE Kept \/ Damaged
    <2>1. CASE deferred = {}
      <3>1. comps' = comps
        BY <1>7, <2>1 DEF FinishSchedule, Despawned, Types, TypeOK, ClocksType
      <3> QED BY <1>7, <1>b, <3>1 DEF FinishSchedule, clocks
    <2>2. CASE deferred # {}
      BY <1>7, <1>c, <2>2 DEF FinishSchedule
    <2> QED BY <2>1, <2>2
  <1>8. ASSUME NEW e \in Entities, NEW v \in Values, NativeSetValue(e, v) PROVE Kept
    BY <1>8, SetValueKeepsIndex DEF NativeSetValue
  <1>9. ASSUME NEW e \in Entities, NEW f \in Entities, NativeReplace(e, f) PROVE Damaged
    BY <1>9, <1>c DEF NativeReplace
  <1>10. ASSUME NEW e \in Entities, NativeDespawn(e) PROVE Kept \/ Damaged
    BY <1>10, <1>b, <1>c DEF NativeDespawn, clocks
  <1>11. ASSUME ~ClockSteps PROVE Kept
    BY <1>11, <1>b, OtherStepsKeepClocks
  <1> HIDE DEF Kept, Damaged
  <1> QED BY <1>0, <1>1, <1>2, <1>3, <1>4, <1>5, <1>6, <1>7, <1>8, <1>9, <1>10, <1>11
      DEF ClockSteps

\* No two clock keys ever share an entity, and as long as native code has not
\* despawned or replaced a clock and no call has faulted, keys and live clock
\* components are in one-to-one correspondence.
THEOREM IndexIsSound == Spec => []IndexSound
  <1>1. Init => IndexSound
    BY EntityFacts DEF Init, IndexSound, NoEntity, Live, Vacant
  <1>2. Types /\ IndexSound /\ [Next]_vars => IndexSound'
    <2>1. CASE UNCHANGED vars
      BY <2>1 DEF vars, public, clocks, history, IndexSound, Live
    <2> QED BY <2>1, IndexStep
  <1> QED BY <1>1, <1>2, TypesInvariant, PTL DEF Spec
-----------------------------------------------------------------------------
(* Errors that do not fault leave no trace *)

\* The clocks are those the last call left, until a call writes to them: as
\* long as no call is in progress, and while an Advance prepares its targets.
SnapKept == phase \in {"none", "prepare"} => snap = Clocks

\* A step that ends its call takes the snapshot; the others leave it.
LEMMA ReturnSnaps ==
  ASSUME NEW op, NEW out, NEW key, NEW system, Return(op, out, key, system)
  PROVE  SnapKept' /\ phase' = "none"
  BY DEF Return, SnapKept, Clocks

LEMMA AnswerSnaps ==
  ASSUME NEW op, NEW out, Answer(op, out) PROVE SnapKept' /\ phase' = "none"
  BY ReturnSnaps DEF Answer

LEMMA SnapStep ==
  ASSUME Types, SnapKept, Next PROVE SnapKept'
  <1> USE AnswerSnaps, ReturnSnaps
  <1>0. UNCHANGED <<clocks, snap, phase>> => SnapKept'
    BY DEF clocks, SnapKept, Clocks
  <1>1. ASSUME NEW op \in Operations, Refuse(op) PROVE SnapKept'
    BY <1>1 DEF Refuse
  <1>2. ASSUME Reads PROVE SnapKept'
    BY <1>0, <1>2
    DEF Reads, ReadClock, ReadClockUnwinds, BeginInspect, EndInspect, current, history
  <1>3. ASSUME Writes PROVE SnapKept'
    BY <1>3 DEF Writes, InsertClock, InsertClockUnwinds, RemoveClock, RemoveClockUnwinds, Stop
  <1>4. ASSUME Advances PROVE SnapKept'
    <2>1. ASSUME NEW a \in Apis, NEW t \in AskedTypes, NEW ts \in Requests,
                 RejectAdvance(a, t, ts) \/ BeginAdvance(a, t, ts)
          PROVE  SnapKept'
      <3>1. CASE RejectAdvance(a, t, ts)
        BY <3>1 DEF RejectAdvance
      <3>2. CASE BeginAdvance(a, t, ts)
        <4>1. phase = "none"
          BY <3>2 DEF BeginAdvance, Enter, Borrowable, Exclusive, ReadOps, Types, CallDiscipline
        <4> QED BY <3>2, <4>1 DEF BeginAdvance, SnapKept, Clocks, clocks, history
      <3> QED BY <2>1, <3>1, <3>2
    <2>2. ASSUME PrepareTarget PROVE SnapKept'
      BY <2>2 DEF PrepareTarget, SnapKept, Clocks, clocks, history
    <2>3. ASSUME RejectTarget \/ AdvanceUnwinds PROVE SnapKept'
      BY <2>3 DEF RejectTarget, AdvanceUnwinds
    <2>4. ASSUME ApplyTarget PROVE SnapKept'
      BY <2>4 DEF ApplyTarget, SnapKept
    <2>5. ASSUME RunAdvance PROVE SnapKept'
      BY <2>5 DEF RunAdvance, RunSchedule, SnapKept
    <2> QED BY <1>4, <2>1, <2>2, <2>3, <2>4, <2>5 DEF Advances
  <1>5. ASSUME Executes PROVE SnapKept'
    BY <1>5 DEF Executes, RejectExecute, BeginExecute, RunSchedule, SnapKept
  <1>6. ASSUME Schedules PROVE SnapKept'
    <2>1. ASSUME NEW s \in Systems,
                 \/ StartSystem(s) \/ \E kind \in OutputKinds : SetOutput(s, kind)
                 \/ \E ok \in BOOLEAN : FinishSystem(s, ok)
                 \/ \E kind \in Payloads : SystemUnwinds(s, kind)
          PROVE  SnapKept'
      BY <1>0, <2>1 DEF StartSystem, SetOutput, FinishSystem, SystemUnwinds, current, history
    <2>2. ASSUME ApplyDeferred PROVE SnapKept'
      BY <2>2 DEF ApplyDeferred, InSystems, current, SnapKept
    <2>3. ASSUME FinishSchedule \/ \E kind \in Payloads : UnwindSchedule(kind) PROVE SnapKept'
      BY <2>3 DEF FinishSchedule, UnwindSchedule
    <2> QED BY <1>6, <2>1, <2>2, <2>3 DEF Schedules
  <1>7. ASSUME Native PROVE SnapKept'
    <2>1. ASSUME BeginWrite PROVE SnapKept'
      BY <2>1 DEF BeginWrite, SnapKept
    <2>2. ASSUME EndWrite \/ \E kind \in Payloads : WriteUnwinds(kind) PROVE SnapKept'
      BY <2>2 DEF EndWrite, WriteUnwinds
    <2>3. ASSUME phase \in {"native", "systems"}, phase' = phase PROVE SnapKept'
      BY <2>3 DEF SnapKept
    <2>4. ASSUME \/ NativeResources
                 \/ \E e \in Entities, v \in Values : NativeSetValue(e, v)
                 \/ \E e, f \in Entities : NativeReplace(e, f)
                 \/ \E e \in Entities : NativeDespawn(e)
          PROVE  phase \in {"native", "systems"} /\ phase' = phase
      BY <2>4 DEF NativeResources, NativeSetValue, NativeReplace, NativeDespawn, NativeTurn,
                  Running, InSystems, current
    <2> QED BY <1>7, <2>1, <2>2, <2>3, <2>4 DEF Native
  <1> QED BY <1>1, <1>2, <1>3, <1>4, <1>5, <1>6, <1>7 DEF Next

\* Between calls, and until an Advance writes, the clocks of the world are those
\* the last call left.
THEOREM SnapAlwaysKept == Spec => []SnapKept
  <1>1. Init => SnapKept
    BY DEF Init, SnapKept
  <1>2. Types /\ SnapKept /\ [Next]_vars => SnapKept'
    <2>1. CASE UNCHANGED vars
      BY <2>1 DEF vars, clocks, current, history, SnapKept, Clocks
    <2> QED BY <2>1, SnapStep
  <1> QED BY <1>1, <1>2, TypesInvariant, PTL DEF Spec

\* What cannot be the answer of a call that wrote.
LEMMA NotBenign ==
  /\ "Ok" \notin Benign /\ Fatal \cap Benign = {}
  /\ \A kind : UnwindOutcome(kind) \notin Benign
  /\ ExecuteVerdict \notin Benign /\ AdvanceVerdict \notin Benign
  /\ Unrunnable \notin Benign
  BY DEF Benign, Fatal, UnwindOutcome, ExecuteVerdict, AdvanceVerdict, Unrunnable

LEMMA BenignStep ==
  ASSUME Types, SnapKept, Next, call' = "none", last'.out \in Benign
  PROVE  Clocks' = snap
  <1> USE NotBenign
  <1>0. /\ UNCHANGED clocks => Clocks' = Clocks
        /\ call = "none" => snap = Clocks
        /\ phase = "prepare" => snap = Clocks
    BY DEF clocks, Clocks, SnapKept, Types, CallDiscipline
  <1>a. ASSUME NEW op, NEW out, NEW key, NEW system, Return(op, out, key, system)
        PROVE  out \in Benign
    BY <1>a DEF Return
  <1>b. ASSUME NEW op, NEW out, Answer(op, out) PROVE out \in Benign
    BY <1>a, <1>b DEF Answer
  <1>1. ASSUME NEW op \in Operations, Refuse(op) PROVE Clocks' = snap
    BY <1>0, <1>1 DEF Refuse, Borrowable, Shared, Exclusive
  <1>2. ASSUME Reads PROVE Clocks' = snap
    <2>1. UNCHANGED clocks
      BY <1>2 DEF Reads, ReadClock, ReadClockUnwinds, BeginInspect, EndInspect
    <2>2. call = "none"
      BY <1>2 DEF Reads, ReadClock, ReadClockUnwinds, BeginInspect, EndInspect, Enter,
                  Borrowable, Shared, Exclusive, Types, TypeOK, PublicType, CallDiscipline
    <2> QED BY <1>0, <2>1, <2>2
  <1>3. ASSUME Writes PROVE Clocks' = snap
    <2>1. call = "none"
      BY <1>3 DEF Writes, InsertClock, InsertClockUnwinds, RemoveClock, RemoveClockUnwinds,
                  Stop, Enter, Borrowable, Shared, Exclusive
    <2>2. ASSUME NEW a \in Apis, NEW k \in Keys, NEW v \in Values, InsertClock(a, k, v)
          PROVE  UNCHANGED clocks
      BY <1>b, <2>2 DEF InsertClock
    <2>3. ASSUME NEW a \in Apis, NEW k \in Keys, RemoveClock(a, k) PROVE UNCHANGED clocks
      BY <1>b, <2>3 DEF RemoveClock
    <2>4. ASSUME \/ \E k \in Keys, v \in Values, kind \in Payloads : InsertClockUnwinds(k, v, kind)
                 \/ \E k \in Keys, kind \in Payloads : RemoveClockUnwinds(k, kind)
          PROVE  FALSE
      BY <1>b, <2>4 DEF InsertClockUnwinds, RemoveClockUnwinds
    <2>5. ASSUME Stop PROVE UNCHANGED clocks
      BY <2>5 DEF Stop
    <2> QED BY <1>0, <1>3, <2>1, <2>2, <2>3, <2>4, <2>5 DEF Writes
  <1>4. ASSUME Advances PROVE Clocks' = snap
    <2>1. ASSUME NEW a \in Apis, NEW t \in AskedTypes, NEW ts \in Requests,
                 RejectAdvance(a, t, ts) \/ BeginAdvance(a, t, ts)
          PROVE  Clocks' = snap
      BY <1>0, <2>1 DEF RejectAdvance, BeginAdvance, Enter, Borrowable, Shared, Exclusive
    <2>2. ASSUME RejectTarget PROVE Clocks' = snap
      BY <1>0, <2>2 DEF RejectTarget
    <2>3. ASSUME PrepareTarget PROVE FALSE
      BY <2>3 DEF PrepareTarget, Types, CallDiscipline
    <2>4. ASSUME ApplyTarget \/ RunAdvance \/ AdvanceUnwinds PROVE FALSE
      <3>1. "BackendFailure" \notin Benign /\ "BackendPanicked" \notin Benign
        BY DEF Benign
      <3>2. call # "none"
        BY <2>4 DEF ApplyTarget, RunAdvance, AdvanceUnwinds, Types, CallDiscipline
      <3> QED BY <1>b, <2>4, <3>1, <3>2 DEF ApplyTarget, RunAdvance, AdvanceUnwinds
    <2> QED BY <1>4, <2>1, <2>2, <2>3, <2>4 DEF Advances
  <1>5. ASSUME Executes PROVE Clocks' = snap
    <2>1. ASSUME NEW e \in AskedEntries, NEW inputOk \in BOOLEAN,
                 RejectExecute(e, inputOk) \/ BeginExecute(e)
          PROVE  UNCHANGED clocks /\ call = "none"
      BY <2>1 DEF RejectExecute, BeginExecute, Enter, Borrowable, Shared, Exclusive
    <2> QED BY <1>0, <1>5, <2>1 DEF Executes
  <1>6. ASSUME Schedules PROVE FALSE
    <2>1. call # "none"
      BY <1>6 DEF Schedules, StartSystem, SetOutput, FinishSystem, SystemUnwinds, ApplyDeferred,
                  FinishSchedule, UnwindSchedule, Running, InSystems, Types, CallDiscipline
    <2>2. FinishSchedule \/ \E kind \in Payloads : UnwindSchedule(kind)
      BY <1>6, <2>1 DEF Schedules, StartSystem, SetOutput, FinishSystem, SystemUnwinds,
                        ApplyDeferred, current
    <2> QED BY <1>a, <1>b, <2>2 DEF FinishSchedule, UnwindSchedule
  <1>7. ASSUME Native PROVE FALSE
    <2>1. ~BeginWrite
      BY DEF BeginWrite
    <2>2. ~EndWrite /\ \A kind \in Payloads : ~WriteUnwinds(kind)
      BY <1>b DEF EndWrite, WriteUnwinds
    <2>3. ASSUME \/ NativeResources
                 \/ \E e \in Entities, v \in Values : NativeSetValue(e, v)
                 \/ \E e, f \in Entities : NativeReplace(e, f)
                 \/ \E e \in Entities : NativeDespawn(e)
          PROVE  FALSE
      BY <2>3 DEF NativeResources, NativeSetValue, NativeReplace, NativeDespawn, NativeTurn,
                  Running, InSystems, current, Types, CallDiscipline
    <2> QED BY <1>7, <2>1, <2>2, <2>3 DEF Native
  <1> QED BY <1>1, <1>2, <1>3, <1>4, <1>5, <1>6, <1>7 DEF Next

\* A call that fails without faulting the simulation leaves the clocks exactly
\* as they were when it was made: whatever was inserted, removed or advanced is
\* validated and encoded before the world is touched (insert_clock, remove_clock,
\* prepare_target).
THEOREM BenignErrorsLeaveNoTrace == Spec => BenignLeavesNoTrace
  <1>1. Types /\ SnapKept /\ [Next]_vars =>
          [call' = "none" /\ last'.out \in Benign => Clocks' = snap]_vars
    BY BenignStep
  <1> QED BY <1>1, TypesInvariant, SnapAlwaysKept, PTL DEF Spec, BenignLeavesNoTrace
-----------------------------------------------------------------------------
(* A batch advances all of its clocks or none *)

\* The steps of a batch between its admission and the run of its schedule, and
\* the one step that brings a call there.
LEMMA BatchSteps ==
  ASSUME Types, Next, phase \in {"prepare", "apply"}
  PROVE  PrepareTarget \/ RejectTarget \/ ApplyTarget \/ RunAdvance \/ AdvanceUnwinds
  <1>1. call = "Advance" /\ open = 0
    BY DEF Types, TypeOK, CurrentType, CallDiscipline
  <1>2. \A op \in Operations : ~Refuse(op) /\ ~Enter(op)
    BY <1>1 DEF Refuse, Enter, Borrowable, Shared, Exclusive
  <1>3. ~Reads
    BY <1>1 DEF Reads, ReadClock, ReadClockUnwinds, BeginInspect, EndInspect, Enter,
                Borrowable, Shared, Exclusive
  <1>4. ~Writes
    BY <1>1 DEF Writes, InsertClock, InsertClockUnwinds, RemoveClock, RemoveClockUnwinds, Stop,
                Enter, Borrowable, Shared, Exclusive
  <1>5. ~Executes /\ \A a \in Apis, t \in AskedTypes, ts \in Requests :
                       ~RejectAdvance(a, t, ts) /\ ~BeginAdvance(a, t, ts)
    BY <1>1 DEF Executes, RejectExecute, BeginExecute, RejectAdvance, BeginAdvance, Enter,
                Borrowable, Shared, Exclusive
  <1>6. ~Schedules
    BY DEF Schedules, StartSystem, SetOutput, FinishSystem, SystemUnwinds, ApplyDeferred,
           FinishSchedule, UnwindSchedule, Running, InSystems
  <1>7. ~Native
    BY <1>1 DEF Native, BeginWrite, EndWrite, WriteUnwinds, NativeResources, NativeSetValue,
                NativeReplace, NativeDespawn, NativeTurn, Running, InSystems, Enter,
                Borrowable, Shared, Exclusive
  <1> QED BY <1>2, <1>3, <1>4, <1>5, <1>6, <1>7 DEF Next, Advances

LEMMA BatchBegins ==
  ASSUME Types, Next, phase \notin {"prepare", "apply"}, phase' \in {"prepare", "apply"}
  PROVE  \E a \in Apis, t \in AskedTypes, ts \in Requests : BeginAdvance(a, t, ts)
  <1>1. \A op, out, key, system : ~Return(op, out, key, system)
    BY DEF Return
  <1>2. \A op, out : ~Answer(op, out)
    BY DEF Answer, Return
  <1>3. \A op \in Operations : ~Refuse(op)
    BY <1>2 DEF Refuse
  <1>4. ~Reads
    BY <1>1, <1>2 DEF Reads, ReadClock, ReadClockUnwinds, BeginInspect, EndInspect, current,
                      Return
  <1>5. ~Writes
    BY <1>2 DEF Writes, InsertClock, InsertClockUnwinds, RemoveClock, RemoveClockUnwinds, Stop
  <1>6. ~Executes
    BY <1>2 DEF Executes, RejectExecute, BeginExecute, RunSchedule
  <1>7. ~Schedules
    BY <1>2 DEF Schedules, StartSystem, SetOutput, FinishSystem, SystemUnwinds, ApplyDeferred,
                FinishSchedule, UnwindSchedule, current, Return
  <1>8. ~Native
    BY <1>2 DEF Native, BeginWrite, EndWrite, WriteUnwinds, NativeResources, NativeSetValue,
                NativeReplace, NativeDespawn, current
  <1>9. ~(PrepareTarget \/ RejectTarget \/ ApplyTarget \/ RunAdvance \/ AdvanceUnwinds)
    BY DEF PrepareTarget, RejectTarget, ApplyTarget, RunAdvance, AdvanceUnwinds
  <1>10. \A a \in Apis, t \in AskedTypes, ts \in Requests : ~RejectAdvance(a, t, ts)
    BY <1>2 DEF RejectAdvance
  <1> QED BY <1>3, <1>4, <1>5, <1>6, <1>7, <1>8, <1>9, <1>10 DEF Next, Advances

\* What is prepared is the prefix of the request, each transition computed for
\* the entity of its own target from the value the call found there.
PreparedFromSnap ==
  phase \in {"prepare", "apply"} =>
    /\ index = snap.index
    /\ Len(prepared) <= Len(targets)
    /\ phase = "apply" => Len(prepared) = Len(targets)
    /\ \A i \in 1..Len(prepared) :
         /\ prepared[i].entity = snap.index[TargetKey(targets[i])]
         /\ prepared[i].after = Reached(targets[i])

\* The world is the one the call found, with the transitions applied so far.
AppliedSoFar ==
  phase = "apply" =>
    \A e \in Entities :
      IF \E i \in 1..applied : prepared[i].entity = e
      THEN \E i \in 1..applied :
             /\ prepared[i].entity = e
             /\ comps[e] = [snap.comps[e] EXCEPT !.value = prepared[i].after]
      ELSE comps[e] = snap.comps[e]

Batch == SnapKept /\ PreparedFromSnap /\ AppliedSoFar

LEMMA PrepareKeepsBatch ==
  ASSUME Types, Batch, PrepareTarget
  PROVE  PreparedFromSnap' /\ AppliedSoFar'
  <1> DEFINE k == TargetKey(NextTarget)
             update == [entity |-> index[k], before |-> comps[index[k]].value,
                        after |-> Advanced(comps[index[k]].value, NextTarget.step)]
  <1>1. /\ phase = "prepare" /\ prepared' = Append(prepared, update)
        /\ UNCHANGED <<index, comps, trigger, targets, applied, snap>>
        /\ phase' = IF Len(prepared) + 1 = Len(targets) THEN "apply" ELSE "prepare"
    BY DEF PrepareTarget, clocks, history
  <1>2. /\ snap = Clocks
        /\ Len(prepared) < Len(targets) /\ applied = 0
        /\ prepared \in Seq([entity : Entities, before : Values, after : Values])
        /\ targets \in Seq(Target)
    BY <1>1 DEF Batch, SnapKept, Types, TypeOK, CurrentType, CallDiscipline
  <1>3. /\ Len(prepared') = Len(prepared) + 1
        /\ \A i \in 1..Len(prepared) : prepared'[i] = prepared[i]
        /\ prepared'[Len(prepared) + 1] = update
    <2> HIDE DEF update
    <2> QED BY <1>1, <1>2
  <1>4. /\ update.entity = snap.index[TargetKey(targets[Len(prepared) + 1])]
        /\ update.after = Reached(targets[Len(prepared) + 1])
    BY <1>2 DEF Clocks, Reached, NextTarget
  <1>5. PreparedFromSnap'
    <2>1. ASSUME NEW i \in 1..Len(prepared')
          PROVE  /\ prepared'[i].entity = snap'.index[TargetKey(targets[i])']
                 /\ prepared'[i].after = Reached(targets[i])'
      <3>1. TargetKey(targets[i])' = TargetKey(targets[i])
            /\ Reached(targets[i])' = Reached(targets[i])
        BY <1>1 DEF TargetKey, Reached
      <3>2. CASE i = Len(prepared) + 1
        BY <1>1, <1>3, <1>4, <3>1, <3>2
      <3>3. CASE i # Len(prepared) + 1
        <4>1. i \in 1..Len(prepared)
          BY <1>2, <1>3, <3>3
        <4>2. /\ prepared[i].entity = snap.index[TargetKey(targets[i])]
              /\ prepared[i].after = Reached(targets[i])
          BY <1>1, <4>1 DEF Batch, PreparedFromSnap
        <4> QED BY <1>1, <1>3, <3>1, <4>1, <4>2
      <3> QED BY <3>2, <3>3
    <2>2. index' = snap'.index /\ Len(prepared') <= Len(targets')
          /\ (phase' = "apply" => Len(prepared') = Len(targets'))
      <3>1. index = snap.index
        BY <1>2 DEF Clocks
      <3>2. Len(prepared) \in Nat /\ Len(targets) \in Nat
        BY <1>2
      <3> QED BY <1>1, <1>2, <1>3, <3>1, <3>2
    <2> QED BY <2>1, <2>2 DEF PreparedFromSnap
  <1>6. AppliedSoFar'
    <2>1. comps' = snap'.comps /\ applied' = 0
      BY <1>1, <1>2 DEF Clocks
    <2> QED BY <2>1 DEF AppliedSoFar
  <1> QED BY <1>5, <1>6

LEMMA ApplyKeepsBatch ==
  ASSUME Types, Batch, ApplyTarget
  PROVE  PreparedFromSnap' /\ AppliedSoFar'
  <1> DEFINE update == prepared[applied + 1]
  <1>1. CASE ~HasComponent(update.entity, trigger)
    BY <1>1, AnswerSnaps DEF ApplyTarget, PreparedFromSnap, AppliedSoFar
  <1>2. CASE HasComponent(update.entity, trigger)
    <2>1. /\ phase = "apply" /\ applied < Len(prepared) /\ applied' = applied + 1
          /\ comps' = [comps EXCEPT ![update.entity] = [@ EXCEPT !.value = update.after]]
          /\ UNCHANGED <<index, phase, trigger, targets, prepared, snap>>
      BY <1>2 DEF ApplyTarget, history
    <2>2. /\ applied \in Nat
          /\ prepared \in Seq([entity : Entities, before : Values, after : Values])
          /\ comps \in [Entities -> Component]
      BY DEF Types, TypeOK, CurrentType, ClocksType
    <2>3. update \in [entity : Entities, before : Values, after : Values]
      BY <2>1, <2>2, ElementAt
    <2>4. PreparedFromSnap'
      BY <2>1 DEF Batch, PreparedFromSnap, TargetKey, Reached
    <2>5. ASSUME NEW e \in Entities
          PROVE  IF \E i \in 1..applied' : prepared'[i].entity = e
                 THEN \E i \in 1..applied' :
                        /\ prepared'[i].entity = e
                        /\ comps'[e] = [snap'.comps[e] EXCEPT !.value = prepared'[i].after]
                 ELSE comps'[e] = snap'.comps[e]
      <3>1. applied + 1 \in 1..applied' /\ \A i \in 1..applied : i \in 1..applied'
        BY <2>1, <2>2
      <3>2. \A i \in 1..applied' : i # applied + 1 => i \in 1..applied
        BY <2>1, <2>2
      <3>3. IF \E i \in 1..applied : prepared[i].entity = e
            THEN \E i \in 1..applied :
                   /\ prepared[i].entity = e
                   /\ comps[e] = [snap.comps[e] EXCEPT !.value = prepared[i].after]
            ELSE comps[e] = snap.comps[e]
        BY <2>1 DEF Batch, AppliedSoFar
      <3>4. CASE e = update.entity
        <4>1. comps'[e] = [comps[e] EXCEPT !.value = update.after]
          BY <2>1, <2>2, <3>4
        <4>2. \/ comps[e] = snap.comps[e]
              \/ \E v : comps[e] = [snap.comps[e] EXCEPT !.value = v]
          BY <3>3
        <4>3. snap.comps[e] \in Component
          BY DEF Types, TypeOK, HistoryType
        <4>4. comps'[e] = [snap.comps[e] EXCEPT !.value = update.after]
          BY <4>1, <4>2, <4>3 DEF Component
        <4> QED BY <2>1, <3>1, <3>4, <4>4
      <3>5. CASE e # update.entity
        <4>1. comps'[e] = comps[e]
          BY <2>1, <2>2, <3>5
        <4> QED BY <2>1, <3>1, <3>2, <3>3, <3>5, <4>1
      <3> QED BY <3>4, <3>5
    <2> QED BY <2>4, <2>5 DEF AppliedSoFar
  <1> QED BY <1>1, <1>2

LEMMA BatchStep ==
  ASSUME Types, Batch, Next PROVE Batch'
  <1>1. SnapKept'
    BY SnapStep DEF Batch
  <1>2. CASE phase' \notin {"prepare", "apply"}
    BY <1>1, <1>2 DEF Batch, PreparedFromSnap, AppliedSoFar
  <1>3. CASE phase' \in {"prepare", "apply"}
    <2>1. CASE phase \notin {"prepare", "apply"}
      <3>1. PICK a \in Apis, t \in AskedTypes, ts \in Requests : BeginAdvance(a, t, ts)
        BY <1>3, <2>1, BatchBegins
      <3>2. phase' = "prepare" /\ UNCHANGED prepared /\ targets' = ts /\ call = "none"
        BY <3>1 DEF BeginAdvance, Enter, Borrowable, Exclusive, ReadOps
      <3>3. prepared' = <<>> /\ Len(prepared') = 0 /\ Len(targets') \in Nat
        BY <3>2, RequestIsSequence DEF Types, CallDiscipline
      <3>4. index' = snap'.index
        BY <1>1, <3>2 DEF SnapKept, Clocks
      <3> QED BY <1>1, <3>2, <3>3, <3>4 DEF Batch, PreparedFromSnap, AppliedSoFar
    <2>2. CASE phase \in {"prepare", "apply"}
      <3>1. PrepareTarget \/ ApplyTarget
        BY <1>3, <2>2, BatchSteps, AnswerSnaps
        DEF RejectTarget, RunAdvance, RunSchedule, AdvanceUnwinds
      <3> QED BY <1>1, <3>1, PrepareKeepsBatch, ApplyKeepsBatch DEF Batch
    <2> QED BY <2>1, <2>2
  <1> QED BY <1>2, <1>3

LEMMA BatchStarts ==
  ASSUME Types, Batch, Next, phase = "apply", phase' = "systems", NEW e \in Entities
  PROVE  IF \E i \in DOMAIN targets : TargetedBy(e, targets[i])
         THEN \E i \in DOMAIN targets :
                /\ TargetedBy(e, targets[i])
                /\ comps'[e] = [snap.comps[e] EXCEPT !.value = Reached(targets[i])]
         ELSE comps'[e] = snap.comps[e]
  <1>1. RunAdvance
    BY BatchSteps, AnswerSnaps DEF PrepareTarget, RejectTarget, ApplyTarget, AdvanceUnwinds
  <1>2. applied = Len(prepared) /\ UNCHANGED comps
    BY <1>1 DEF RunAdvance, clocks
  <1>3. Len(prepared) = Len(targets) /\ DOMAIN targets = 1..applied
    BY <1>2 DEF Batch, PreparedFromSnap, Types, TypeOK, CurrentType
  <1>4. \A i \in 1..applied : /\ (TargetedBy(e, targets[i]) <=> prepared[i].entity = e)
                              /\ prepared[i].after = Reached(targets[i])
    BY <1>2 DEF Batch, PreparedFromSnap, TargetedBy
  <1>5. IF \E i \in 1..applied : prepared[i].entity = e
        THEN \E i \in 1..applied :
               /\ prepared[i].entity = e
               /\ comps[e] = [snap.comps[e] EXCEPT !.value = prepared[i].after]
        ELSE comps[e] = snap.comps[e]
    BY DEF Batch, AppliedSoFar
  <1>6. CASE \E i \in 1..applied : prepared[i].entity = e
    <2>1. PICK i \in 1..applied :
            /\ prepared[i].entity = e
            /\ comps[e] = [snap.comps[e] EXCEPT !.value = prepared[i].after]
      BY <1>5, <1>6
    <2>2. i \in DOMAIN targets /\ TargetedBy(e, targets[i])
          /\ comps'[e] = [snap.comps[e] EXCEPT !.value = Reached(targets[i])]
      BY <1>2, <1>3, <1>4, <2>1
    <2> QED BY <2>2
  <1>7. CASE ~\E i \in 1..applied : prepared[i].entity = e
    <2>1. ~\E i \in DOMAIN targets : TargetedBy(e, targets[i])
      BY <1>3, <1>4, <1>7
    <2> QED BY <1>2, <1>5, <1>7, <2>1
  <1> QED BY <1>6, <1>7

\* Until an Advance has computed every transition it writes nothing; when its
\* response systems start, each targeted clock has advanced by the step of its
\* own target from the value the call found, and no other clock has moved
\* (advance_json_for, advance_typed_for): for any number of targets.
THEOREM AdvanceIsAllOrNothing == Spec => BatchIsAllOrNothing
  <1>1. Init => Batch
    BY DEF Init, Batch, SnapKept, PreparedFromSnap, AppliedSoFar
  <1>2. Types /\ Batch /\ [Next]_vars => Batch'
    <2>1. CASE UNCHANGED vars
      BY <2>1 DEF vars, clocks, current, history, Batch, SnapKept, Clocks, PreparedFromSnap,
                  AppliedSoFar, TargetKey, Reached
    <2> QED BY <2>1, BatchStep
  <1>3. ASSUME Types, Batch, Next, phase = "prepare", phase' # "none"
        PROVE  comps' = snap.comps
    <2>1. snap = Clocks
      BY <1>3 DEF Batch, SnapKept
    <2>2. PrepareTarget
      BY <1>3, BatchSteps, AnswerSnaps DEF RejectTarget, ApplyTarget, RunAdvance, AdvanceUnwinds
    <2> QED BY <2>1, <2>2 DEF PrepareTarget, clocks, Clocks
  <1>4. Types /\ Batch /\ [Next]_vars =>
          [/\ phase = "prepare" /\ phase' # "none" => comps' = snap.comps
           /\ phase = "apply" /\ phase' = "systems" =>
                \A e \in Entities :
                  IF \E i \in DOMAIN targets : TargetedBy(e, targets[i])
                  THEN \E i \in DOMAIN targets :
                         /\ TargetedBy(e, targets[i])
                         /\ comps'[e] = [snap.comps[e] EXCEPT !.value = Reached(targets[i])]
                  ELSE comps'[e] = snap.comps[e]]_vars
    BY <1>3, BatchStarts
  <1> QED BY <1>1, <1>2, <1>4, TypesInvariant, PTL DEF Spec, BatchIsAllOrNothing
-----------------------------------------------------------------------------
(* A schedule runs in the declared order and never waits for itself *)

\* Nothing moves outside a schedule; in it, what has started finds all its
\* direct predecessors ended.
OrderKept ==
  /\ ~InSystems => \A s \in Systems : sys[s] = "waiting"
  /\ \A s \in Systems : sys[s] # "waiting" => \A p \in Predecessors(s) : sys[p] = "done"

LEMMA AllWaitingKept ==
  ASSUME \A s \in Systems : sys'[s] = "waiting" PROVE OrderKept'
  BY DEF OrderKept

LEMMA NothingStarted ==
  ASSUME OrderKept, ~InSystems, sys' = sys PROVE OrderKept'
  BY DEF OrderKept

\* Who moves the systems: the three steps of a system, and the end of a call.
LEMMA SystemSteps ==
  ASSUME Types, Next
  PROVE  \/ UNCHANGED <<sys, phase>>
         \/ ~InSystems /\ sys' = sys
         \/ \A s \in Systems : sys'[s] = "waiting"
         \/ \E s \in Systems :
              \/ StartSystem(s)
              \/ \E ok \in BOOLEAN : FinishSystem(s, ok)
              \/ \E kind \in Payloads : SystemUnwinds(s, kind)
  <1> DEFINE Ends == \A s \in Systems : sys'[s] = "waiting"
             Keeps == UNCHANGED <<sys, phase>>
             Elsewhere == ~InSystems /\ sys' = sys
             Moves == \E s \in Systems :
                        \/ StartSystem(s)
                        \/ \E ok \in BOOLEAN : FinishSystem(s, ok)
                        \/ \E kind \in Payloads : SystemUnwinds(s, kind)
  <1>1. ASSUME NEW op, NEW out, NEW key, NEW system, Return(op, out, key, system) PROVE Ends
    BY <1>1 DEF Return
  <1>2. ASSUME NEW op, NEW out, Answer(op, out) PROVE Ends
    BY <1>1, <1>2 DEF Answer
  <1>3. ASSUME NEW op \in WriteOps, Enter(op) PROVE ~InSystems
    BY <1>3 DEF Enter, Borrowable, Exclusive, ReadOps, WriteOps, Types, CallDiscipline, InSystems
  <1>4. ASSUME NEW op \in Operations, Refuse(op) PROVE Ends
    BY <1>2, <1>4 DEF Refuse
  <1>5. ASSUME Reads PROVE Ends \/ Keeps
    BY <1>1, <1>2, <1>5
    DEF Reads, ReadClock, ReadClockUnwinds, BeginInspect, EndInspect, current, run
  <1>6. ASSUME Writes PROVE Ends
    BY <1>2, <1>6
    DEF Writes, InsertClock, InsertClockUnwinds, RemoveClock, RemoveClockUnwinds, Stop
  <1>7. ASSUME Advances PROVE Ends \/ Elsewhere
    <2>1. ASSUME NEW a \in Apis, NEW t \in AskedTypes, NEW ts \in Requests,
                 RejectAdvance(a, t, ts) \/ BeginAdvance(a, t, ts)
          PROVE  Ends \/ Elsewhere
      BY <1>2, <1>3, <2>1 DEF RejectAdvance, BeginAdvance, run, WriteOps
    <2> QED BY <1>2, <1>7, <2>1 DEF Advances, PrepareTarget, RejectTarget, ApplyTarget,
                                    RunAdvance, AdvanceUnwinds, run, InSystems
  <1>8. ASSUME Executes PROVE Ends \/ Elsewhere
    BY <1>2, <1>3, <1>8 DEF Executes, RejectExecute, BeginExecute, run, WriteOps
  <1>9. ASSUME Schedules, ~Moves PROVE Ends \/ Keeps
    BY <1>1, <1>2, <1>9 DEF Schedules, SetOutput, ApplyDeferred, FinishSchedule,
                            UnwindSchedule, current
  <1>10. ASSUME Native PROVE Ends \/ Keeps \/ Elsewhere
    BY <1>2, <1>3, <1>10
    DEF Native, BeginWrite, EndWrite, WriteUnwinds, NativeResources, NativeSetValue,
        NativeReplace, NativeDespawn, current, run, WriteOps
  <1> HIDE DEF Ends, Keeps, Elsewhere, Moves
  <1>11. Ends \/ Keeps \/ Elsewhere \/ Moves
    BY <1>4, <1>5, <1>6, <1>7, <1>8, <1>9, <1>10 DEF Next
  <1> QED BY <1>11 DEF Ends, Keeps, Elsewhere, Moves

LEMMA OrderStep ==
  ASSUME Types, OrderKept, Next PROVE OrderKept'
  <1>0. sys \in [Systems -> {"waiting", "running", "done"}]
    BY DEF Types, TypeOK, RunType
  <1>1. CASE UNCHANGED <<sys, phase>>
    BY <1>1 DEF OrderKept, InSystems
  <1>2. CASE ~InSystems /\ sys' = sys
    BY <1>2, NothingStarted
  <1>3. CASE \A s \in Systems : sys'[s] = "waiting"
    BY <1>3, AllWaitingKept
  <1>4. ASSUME NEW s \in Systems, StartSystem(s) PROVE OrderKept'
    BY <1>0, <1>4 DEF StartSystem, OrderKept, InSystems, current, Predecessors, SystemsOf
  <1>5. ASSUME NEW s \in Systems, Running(s), UNCHANGED current,
               sys' = [sys EXCEPT ![s] = "done"]
        PROVE  OrderKept'
    BY <1>0, <1>5 DEF Running, OrderKept, InSystems, current, Predecessors, SystemsOf
  <1>6. ASSUME NEW s \in Systems, NEW ok \in BOOLEAN, FinishSystem(s, ok) PROVE OrderKept'
    BY <1>5, <1>6 DEF FinishSystem
  <1>7. ASSUME NEW s \in Systems, NEW kind \in Payloads, SystemUnwinds(s, kind)
        PROVE  OrderKept'
    BY <1>5, <1>7 DEF SystemUnwinds
  <1> QED BY <1>1, <1>2, <1>3, <1>4, <1>6, <1>7, SystemSteps

\* The edges given to the executor are those declared among its systems.
LEMMA PredecessorsDeclared ==
  ASSUME NEW s \in Systems
  PROVE  \A p \in Systems : p \in Predecessors(s) <=> DeclaredBefore(p, s)
  BY DEF Predecessors, DeclaredBefore, SystemsOf

\* The ended systems hold every direct predecessor of what they and a started
\* system wait for, so they hold its ancestors, the smallest such set.
LEMMA AncestorsEnded ==
  ASSUME OrderKept, NEW s \in Systems, sys[s] # "waiting"
  PROVE  \A p \in Ancestors[s] : sys[p] = "done"
  <1> DEFINE Ended == {p \in Systems : sys[p] = "done"}
  <1>1. ASSUME NEW q \in Ended \cup {s}, NEW r \in Systems, DeclaredBefore(r, q)
        PROVE  r \in Ended
    <2>1. q \in Systems /\ sys[q] # "waiting"
      OBVIOUS
    <2>2. r \in Predecessors(q)
      BY <1>1, <2>1, PredecessorsDeclared
    <2> QED BY <2>1, <2>2 DEF OrderKept
  <1>2. Ended \in SUBSET Systems
    OBVIOUS
  <1>3. ASSUME NEW p \in Ancestors[s] PROVE p \in Ended
    <2> HIDE DEF Ended
    <2> QED BY <1>1, <1>2, <1>3 DEF Ancestors
  <1> QED BY <1>3

\* Of the systems that have not ended one waits for none of the others, since
\* the declared order has no circle: it runs, or it can start.
LEMMA NeverStuck ==
  ASSUME Types, NEW w \in SystemsOf(trigger), sys[w] # "done"
  PROVE  \E s \in SystemsOf(trigger) :
           \/ sys[s] = "running"
           \/ sys[s] = "waiting" /\ \A p \in Predecessors(s) : sys[p] = "done"
  <1> DEFINE Left == {s \in SystemsOf(trigger) : sys[s] # "done"}
  <1>1. Left \in (SUBSET Systems) \ {{}}
    <2>1. Left \subseteq Systems
      BY DEF SystemsOf
    <2>2. w \in Left
      OBVIOUS
    <2> HIDE DEF Left
    <2>3. Left # {}
      BY <2>2
    <2> QED BY <2>1, <2>3
  <1>2. PICK s \in Left : \A p \in Left : ~DeclaredBefore(p, s)
    <2> HIDE DEF Left
    <2> QED BY <1>1, OrderAssumption
  <1>3. s \in Systems /\ TriggerOf[s] = trigger /\ sys[s] \in {"waiting", "running"}
    BY <1>2 DEF SystemsOf, Types, TypeOK, RunType
  <1>4. ASSUME NEW p \in Predecessors(s) PROVE sys[p] = "done"
    <2>1. p \in SystemsOf(trigger) /\ DeclaredBefore(p, s)
      BY <1>3, <1>4, PredecessorsDeclared DEF Predecessors, SystemsOf
    <2> QED BY <1>2, <2>1
  <1> QED BY <1>2, <1>3, <1>4

\* Every schedule, of any number of systems in any order without a circle, runs
\* in the declared order, through chains declared from either end, and always
\* has a system that runs or can start until all have ended.
THEOREM DeclaredOrderAlwaysHolds == Spec => []DeclaredOrderHolds
  <1>1. Init => OrderKept
    BY DEF Init, OrderKept
  <1>2. Types /\ OrderKept /\ [Next]_vars => OrderKept'
    <2>1. CASE UNCHANGED vars
      BY <2>1 DEF vars, current, run, OrderKept, InSystems
    <2> QED BY <2>1, OrderStep
  <1>3. Types /\ OrderKept => DeclaredOrderHolds
    BY AncestorsEnded, NeverStuck DEF DeclaredOrderHolds, SystemsOf
  <1> QED BY <1>1, <1>2, <1>3, TypesInvariant, PTL DEF Spec
-----------------------------------------------------------------------------
(* The verdict on a schedule depends on what its systems did, not on when *)

\* Who moves the sink: a system that calls set_output, and the end of a call.
LEMMA OfferSteps ==
  ASSUME Types, Next
  PROVE  \/ UNCHANGED <<sink, outputs, trigger, phase>>
         \/ phase # "systems" /\ UNCHANGED <<sink, outputs>>
         \/ phase' # "systems" /\ sink' = EmptySink /\ outputs' = NoOutputs
         \/ \E s \in Systems, kind \in OutputKinds : SetOutput(s, kind)
  <1> DEFINE Ends == phase' # "systems" /\ sink' = EmptySink /\ outputs' = NoOutputs
             Keeps == UNCHANGED <<sink, outputs, trigger, phase>>
             Elsewhere == phase # "systems" /\ UNCHANGED <<sink, outputs>>
  <1>1. ASSUME NEW op, NEW out, NEW key, NEW system, Return(op, out, key, system) PROVE Ends
    BY <1>1 DEF Return
  <1>2. ASSUME NEW op, NEW out, Answer(op, out) PROVE Ends
    BY <1>1, <1>2 DEF Answer
  <1>3. ASSUME NEW op \in WriteOps, Enter(op) PROVE phase # "systems"
    BY <1>3 DEF Enter, Borrowable, Exclusive, ReadOps, WriteOps, Types, CallDiscipline
  <1>4. ASSUME NEW op \in Operations, Refuse(op) PROVE Ends
    BY <1>2, <1>4 DEF Refuse
  <1>5. ASSUME Reads PROVE Ends \/ Keeps
    BY <1>1, <1>2, <1>5
    DEF Reads, ReadClock, ReadClockUnwinds, BeginInspect, EndInspect, current, run
  <1>6. ASSUME Writes PROVE Ends
    BY <1>2, <1>6
    DEF Writes, InsertClock, InsertClockUnwinds, RemoveClock, RemoveClockUnwinds, Stop
  <1>7. ASSUME Advances PROVE Ends \/ Elsewhere
    <2>1. ASSUME NEW a \in Apis, NEW t \in AskedTypes, NEW ts \in Requests,
                 RejectAdvance(a, t, ts) \/ BeginAdvance(a, t, ts)
          PROVE  Ends \/ Elsewhere
      BY <1>2, <1>3, <2>1 DEF RejectAdvance, BeginAdvance, run, WriteOps
    <2> QED BY <1>2, <1>7, <2>1 DEF Advances, PrepareTarget, RejectTarget, ApplyTarget,
                                    RunAdvance, AdvanceUnwinds, run
  <1>8. ASSUME Executes PROVE Ends \/ Elsewhere
    BY <1>2, <1>3, <1>8 DEF Executes, RejectExecute, BeginExecute, run, WriteOps
  <1>9. ASSUME Schedules, ~\E s \in Systems, kind \in OutputKinds : SetOutput(s, kind)
        PROVE  Ends \/ Keeps
    BY <1>1, <1>2, <1>9 DEF Schedules, StartSystem, FinishSystem, SystemUnwinds, ApplyDeferred,
                            FinishSchedule, UnwindSchedule, current
  <1>10. ASSUME Native PROVE Ends \/ Keeps \/ Elsewhere
    BY <1>2, <1>3, <1>10
    DEF Native, BeginWrite, EndWrite, WriteUnwinds, NativeResources, NativeSetValue,
        NativeReplace, NativeDespawn, current, run, WriteOps
  <1> HIDE DEF Ends, Keeps, Elsewhere
  <1>11. Ends \/ Keeps \/ Elsewhere
           \/ \E s \in Systems, kind \in OutputKinds : SetOutput(s, kind)
    BY <1>4, <1>5, <1>6, <1>7, <1>8, <1>9, <1>10 DEF Next
  <1> QED BY <1>11 DEF Ends, Keeps, Elsewhere

\* The sink against what was offered: how many, whether one was undeclared,
\* and, when there was a single one, of which kind.  The first of several
\* decides encodingFailed and output, and no verdict looks at them.
SinkCounts ==
  /\ sink.attempts = Offered
  /\ sink.notDeclared <=> Offered > 0 /\ trigger \notin Declared
  /\ trigger \notin Declared \/ Offered = 0 => sink.output = "none" /\ ~sink.encodingFailed
  /\ trigger \in Declared /\ Offered = 1 =>
       /\ sink.encodingFailed <=> outputs.unencodable = 1
       /\ sink.output = "invalid" <=> outputs.invalid = 1
       /\ sink.output = "none" <=> outputs.unencodable = 1

SinkTellsOffers ==
  /\ phase # "systems" => sink = EmptySink /\ outputs = NoOutputs
  /\ SinkCounts

LEMMA EmptySinkCounts ==
  ASSUME sink = EmptySink, outputs = NoOutputs PROVE SinkCounts
  BY DEF SinkCounts, Offered, EmptySink, NoOutputs

LEMMA SetOutputCounts ==
  ASSUME Types, SinkCounts, NEW s \in Systems, NEW kind \in OutputKinds, SetOutput(s, kind)
  PROVE  SinkCounts'
  <1>1. /\ sink' = SinkAfter(kind) /\ outputs' = [outputs EXCEPT ![kind] = @ + 1]
        /\ UNCHANGED trigger
    BY DEF SetOutput, current
  <1>2. /\ sink \in [attempts : Nat, notDeclared : BOOLEAN, encodingFailed : BOOLEAN,
                     output : {"none", "valid", "invalid"}]
        /\ outputs \in [valid : Nat, invalid : Nat, unencodable : Nat]
    BY DEF Types, TypeOK, RunType
  <1>3. Offered \in Nat /\ Offered' = Offered + 1
    BY <1>1, <1>2 DEF Offered, OutputKinds
  <1>4. sink'.attempts = sink.attempts + 1
    BY <1>1, <1>2 DEF SinkAfter
  <1>5. CASE trigger \notin Declared
    <2>1. /\ sink'.notDeclared /\ sink'.output = sink.output
          /\ sink'.encodingFailed = sink.encodingFailed
      BY <1>1, <1>2, <1>5 DEF SinkAfter
    <2> QED BY <1>1, <1>3, <1>4, <1>5, <2>1 DEF SinkCounts
  <1>6. CASE trigger \in Declared /\ Offered > 0
    <2>1. sink'.notDeclared = sink.notDeclared
      BY <1>1, <1>2, <1>3, <1>6 DEF SinkAfter, SinkCounts
    <2> QED BY <1>1, <1>3, <1>4, <1>6, <2>1 DEF SinkCounts
  <1>7. CASE trigger \in Declared /\ Offered = 0
    <2>1. /\ sink.attempts = 0 /\ ~sink.notDeclared /\ sink.output = "none"
          /\ ~sink.encodingFailed
      BY <1>7 DEF SinkCounts
    <2>2. outputs.valid = 0 /\ outputs.invalid = 0 /\ outputs.unencodable = 0
      BY <1>2, <1>7 DEF Offered
    <2>3. /\ outputs'.invalid = IF kind = "invalid" THEN 1 ELSE 0
          /\ outputs'.unencodable = IF kind = "unencodable" THEN 1 ELSE 0
      BY <1>1, <1>2, <2>2 DEF OutputKinds
    <2>4. /\ sink'.notDeclared = FALSE
          /\ sink'.encodingFailed <=> kind = "unencodable"
          /\ sink'.output = IF kind = "unencodable" THEN "none" ELSE kind
      BY <1>1, <1>2, <1>7, <2>1 DEF SinkAfter, OutputKinds
    <2>5. kind \in {"valid", "invalid", "unencodable"}
      BY DEF OutputKinds
    <2> QED BY <1>1, <1>3, <1>4, <1>7, <2>1, <2>3, <2>4, <2>5 DEF SinkCounts
  <1> QED BY <1>3, <1>5, <1>6, <1>7

LEMMA SinkStep ==
  ASSUME Types, SinkTellsOffers, Next PROVE SinkTellsOffers'
  <1>1. CASE UNCHANGED <<sink, outputs, trigger, phase>>
    BY <1>1 DEF SinkTellsOffers, SinkCounts, Offered
  <1>2. CASE phase # "systems" /\ UNCHANGED <<sink, outputs>>
    <2>1. sink' = EmptySink /\ outputs' = NoOutputs
      BY <1>2 DEF SinkTellsOffers
    <2>2. SinkCounts'
      BY <2>1 DEF SinkCounts, Offered, EmptySink, NoOutputs
    <2> QED BY <2>1, <2>2 DEF SinkTellsOffers, EmptySink, NoOutputs
  <1>3. CASE phase' # "systems" /\ sink' = EmptySink /\ outputs' = NoOutputs
    <2>1. SinkCounts'
      BY <1>3 DEF SinkCounts, Offered, EmptySink, NoOutputs
    <2> QED BY <1>3, <2>1 DEF SinkTellsOffers, EmptySink, NoOutputs
  <1>4. ASSUME NEW s \in Systems, NEW kind \in OutputKinds, SetOutput(s, kind)
        PROVE  SinkTellsOffers'
    <2>1. phase' = "systems"
      BY <1>4 DEF SetOutput, Running, InSystems, current
    <2>2. SinkCounts'
      BY <1>4, SetOutputCounts DEF SinkTellsOffers
    <2> QED BY <2>1, <2>2 DEF SinkTellsOffers
  <1> QED BY <1>1, <1>2, <1>3, <1>4, OfferSteps

\* A schedule nothing unwound ends by itself.
LEMMA OnlyFinishEnds ==
  ASSUME Types, Next, InSystems, phase' = "none", panics = {}
  PROVE  FinishSchedule
  <1>1. phase = "systems" /\ call # "none" /\ open = 0
    BY DEF InSystems, Types, CallDiscipline
  <1>2. \A op : ~Refuse(op) /\ ~Enter(op)
    BY <1>1 DEF Refuse, Enter, Borrowable, Shared, Exclusive
  <1>3. ~Reads
    BY <1>1, <1>2 DEF Reads, ReadClock, ReadClockUnwinds, BeginInspect, EndInspect
  <1>a. ~Writes
    BY <1>2 DEF Writes, InsertClock, InsertClockUnwinds, RemoveClock, RemoveClockUnwinds, Stop
  <1>b. ~Executes
    BY <1>2 DEF Executes, RejectExecute, BeginExecute
  <1>4. ~Advances
    BY <1>1, <1>2 DEF Advances, RejectAdvance, BeginAdvance, PrepareTarget, RejectTarget,
         ApplyTarget, RunAdvance, AdvanceUnwinds
  <1>5. ~Native
    BY <1>1, <1>2 DEF Native, BeginWrite, EndWrite, WriteUnwinds, NativeResources,
         NativeSetValue, NativeReplace, NativeDespawn, current
  <1> QED BY <1>1, <1>2, <1>3, <1>a, <1>b, <1>4, <1>5
      DEF Next, Schedules, StartSystem, SetOutput, FinishSystem, SystemUnwinds, ApplyDeferred,
          UnwindSchedule, current

LEMMA VerdictIsExpected ==
  ASSUME Types, SinkTellsOffers, call = "Execute"
  PROVE  ExecuteVerdict = ExpectedOutcome
  <1>1. failures # <<>> <=> Failed # {}
    BY FailuresRecorded DEF Types, TypeOK, ResourcesType
  <1>2. /\ outputs.valid \in Nat /\ outputs.invalid \in Nat /\ outputs.unencodable \in Nat
        /\ sink.output \in {"none", "valid", "invalid"}
    BY DEF Types, TypeOK, RunType
  <1>3. Offered \in Nat /\ (Offered = 0 => outputs.unencodable = 0 /\ outputs.invalid = 0)
    <2> DEFINE v == outputs.valid
               i == outputs.invalid
               u == outputs.unencodable
    <2>1. Offered = v + i + u /\ v \in Nat /\ i \in Nat /\ u \in Nat
      BY <1>2 DEF Offered
    <2> HIDE DEF v, i, u
    <2>2. Offered \in Nat /\ (Offered = 0 => u = 0 /\ i = 0)
      BY <2>1
    <2> QED BY <2>2 DEF u, i
  <1>4. CASE trigger \notin Declared
    <2>1. CASE Offered > 0
      BY <1>4, <2>1 DEF ExecuteVerdict, ExpectedOutcome, SinkTellsOffers, SinkCounts
    <2>2. CASE Offered = 0
      BY <1>1, <1>3, <1>4, <2>2
      DEF ExecuteVerdict, ExpectedOutcome, SinkTellsOffers, SinkCounts
    <2> QED BY <1>3, <2>1, <2>2
  <1>5. CASE trigger \in Declared
    <2>1. CASE Offered > 1
      BY <1>5, <2>1 DEF ExecuteVerdict, ExpectedOutcome, SinkTellsOffers, SinkCounts
    <2>2. CASE Offered = 1
      BY <1>1, <1>5, <2>2 DEF ExecuteVerdict, ExpectedOutcome, SinkTellsOffers, SinkCounts
    <2>3. CASE Offered = 0
      BY <1>1, <1>3, <1>5, <2>3
      DEF ExecuteVerdict, ExpectedOutcome, SinkTellsOffers, SinkCounts
    <2> QED BY <1>3, <2>1, <2>2, <2>3
  <1> QED BY <1>4, <1>5

LEMMA VerdictStep ==
  ASSUME Types, SinkTellsOffers, Next, InSystems, phase' = "none", panics = {}
  PROVE  /\ last'.out = ExpectedOutcome
         /\ last'.out = "SystemFailed" =>
              last'.system \in Failed /\ \A s \in Failed : last'.system <= s
  <1> DEFINE out == IF call = "Execute" THEN ExecuteVerdict ELSE AdvanceVerdict
  <1>1. Return(call, out, NoKey, IF out = "SystemFailed" THEN SmallestFailure ELSE NoSystem)
    BY OnlyFinishEnds DEF FinishSchedule
  <1>2. /\ last'.out = out
        /\ last'.system = IF out = "SystemFailed" THEN SmallestFailure ELSE NoSystem
    BY <1>1 DEF Return
  <1>3. failures \in Seq(Systems) /\ (failures # <<>> <=> Failed # {})
    BY FailuresRecorded DEF Types, TypeOK, ResourcesType
  <1>4. out = ExpectedOutcome
    BY <1>3, VerdictIsExpected DEF AdvanceVerdict, ExpectedOutcome
  <1>5. out = "SystemFailed" => failures # <<>>
    BY DEF ExecuteVerdict, AdvanceVerdict
  <1> HIDE DEF out
  <1> QED BY <1>2, <1>3, <1>4, <1>5, SmallestFailureFails

\* Parallel systems may offer outputs and fail in any order: execute() answers
\* what the numbers of outputs of each kind and the set of failed systems call
\* for, and the failure it reports is the smallest system id, for any systems,
\* any declared order between them and any number of set_output calls.
THEOREM VerdictsIgnoreArrivalOrder == Spec => VerdictIgnoresArrivalOrder
  <1>1. Init => SinkTellsOffers
    BY EmptySinkCounts DEF Init, SinkTellsOffers
  <1>2. Types /\ SinkTellsOffers /\ [Next]_vars => SinkTellsOffers'
    <2>1. CASE UNCHANGED vars
      BY <2>1 DEF vars, current, run, SinkTellsOffers, SinkCounts, Offered
    <2> QED BY <2>1, SinkStep
  <1>3. Types /\ SinkTellsOffers /\ [Next]_vars =>
          [InSystems /\ phase' = "none" /\ panics = {} =>
             /\ last'.out = ExpectedOutcome
             /\ last'.out = "SystemFailed" =>
                  last'.system \in Failed /\ \A s \in Failed : last'.system <= s]_vars
    BY VerdictStep
  <1> QED BY <1>1, <1>2, <1>3, TypesInvariant, PTL DEF Spec, VerdictIgnoresArrivalOrder
=============================================================================

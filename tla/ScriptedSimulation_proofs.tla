--------------------- MODULE ScriptedSimulation_proofs ---------------------
(***************************************************************************)
(* Theorems about ScriptedSimulation, for every set of lawful replies and  *)
(* scripts and sessions of every length.                                   *)
(***************************************************************************)
EXTENDS ScriptedSimulation, FiniteSetTheorems, SequenceTheorems, TLAPS

\* What the next call rests on: a mismatch has faulted the simulation.
MismatchFaults == \A i \in DOMAIN answers : answers[i] = "mismatch" => status = "Faulted"
-----------------------------------------------------------------------------
(* Types *)

LEMMA ReplyFacts ==
  ASSUME NEW r \in Replies
  PROVE  r.op \in DataOps /\ r.out \in {"Ok"} \cup Errors(r.op) /\ r.out \in Outcomes
  <1>1. r.op \in DataOps /\ r.out \in {"Ok"} \cup Errors(r.op)
    BY ScriptAssumption
  <1> QED BY <1>1 DEF DataOps, Errors, Outcomes, Benign, Fatal, ClockLookup, BackendFault

LEMMA ScriptIsSequence == ASSUME NEW s \in Scripts PROVE s \in Seq(Replies)
  <1>1. PICK n \in 0..MaxScript : s \in [1..n -> Replies]
    BY DEF Scripts
  <1>2. n \in Nat
    BY ScriptAssumption
  <1> QED BY <1>1, <1>2, SeqDef

LEMMA RefusalIsOutcome == ASSUME NEW st PROVE Refusal(st) \in Outcomes
  BY DEF Refusal, Outcomes, Refusals

LEMMA TypeInit == Init => TypeOK
  BY ScriptIsSequence DEF Init, TypeOK, Statuses, Methods, DataOps

LEMMA TypeStep == TypeOK /\ [Next]_vars => TypeOK'
  <1> SUFFICES ASSUME TypeOK, [Next]_vars PROVE TypeOK'
    OBVIOUS
  <1> USE DEF TypeOK
  <1>1. ASSUME NEW op \in Methods, Reject(op) PROVE TypeOK'
    BY <1>1, RefusalIsOutcome DEF Reject, Record, Answer
  <1>2. ASSUME NEW op \in DataOps, Serve(op) PROVE TypeOK'
    <2>1. replies # <<>> /\ Head(replies) \in Replies /\ Tail(replies) \in Seq(Replies)
      BY <1>2 DEF Serve, Matches
    <2> QED BY <1>2, <2>1, ReplyFacts DEF Serve, Record, Answer, Methods, Statuses
  <1>3. ASSUME NEW op \in DataOps, Mismatch(op) PROVE TypeOK'
    BY <1>3 DEF Mismatch, Record, Answer, Methods, Statuses, Outcomes, Fatal
  <1>4. CASE Stop
    BY <1>4 DEF Stop, Record, Answer, Methods, Statuses, Outcomes
  <1>5. CASE UNCHANGED vars
    BY <1>5 DEF vars
  <1> QED BY <1>1, <1>2, <1>3, <1>4, <1>5 DEF Next

\* Every variable keeps its type, whatever the script and the calls.
THEOREM ScriptTypes == Spec => []TypeOK
  BY TypeInit, TypeStep, PTL DEF Spec
-----------------------------------------------------------------------------
(* The script is followed *)

LEMMA ServedIsFinite ==
  ASSUME TypeOK
  PROVE  /\ IsFiniteSet(Served) /\ Cardinality(Served) \in Nat
         /\ \A i \in DOMAIN answers : IsFiniteSet(ServedUpTo(i))
  <1>1. IsFiniteSet(1..Len(answers)) /\ Served \subseteq 1..Len(answers)
    BY FS_Interval DEF TypeOK, Served
  <1>2. IsFiniteSet(Served) /\ \A i \in DOMAIN answers : IsFiniteSet(ServedUpTo(i))
    BY <1>1, FS_Subset DEF ServedUpTo
  <1> QED BY <1>2, FS_CardinalityType

\* What appending one answer does to the calls served.
LEMMA ServedAfter ==
  ASSUME TypeOK, NEW how \in {"served", "refused", "mismatch", "stopped"},
         answers' = Append(answers, how)
  PROVE  /\ Served' = IF how = "served" THEN Served \cup {Len(answers) + 1} ELSE Served
         /\ \A i \in DOMAIN answers : ServedUpTo(i)' = ServedUpTo(i)
         /\ \A i : i = Len(answers) + 1 => ServedUpTo(i)' = Served'
  <1> DEFINE n == Len(answers)
  <1>1. /\ n \in Nat /\ DOMAIN answers = 1..n /\ DOMAIN answers' = 1..n + 1
        /\ answers'[n + 1] = how /\ \A i \in 1..n : answers'[i] = answers[i]
    BY DEF TypeOK
  <1>2. Served' = IF how = "served" THEN Served \cup {n + 1} ELSE Served
    BY <1>1 DEF Served
  <1>3. \A i \in 1..n : ServedUpTo(i)' = ServedUpTo(i)
    BY <1>1, <1>2 DEF ServedUpTo, Served
  <1>4. \A i : i = n + 1 => ServedUpTo(i)' = Served'
    BY <1>1 DEF ServedUpTo, Served
  <1> QED BY <1>1, <1>2, <1>3, <1>4

\* The two logs grow together.
LEMMA LogLengths ==
  ASSUME TypeOK, Len(calls) = Len(answers), NEW op, NEW how,
         calls' = Append(calls, op), answers' = Append(answers, how)
  PROVE  (Len(calls) = Len(answers))'
  <1>1. calls \in Seq(Methods) /\ answers \in Seq({"served", "refused", "mismatch", "stopped"})
    BY DEF TypeOK
  <1>2. Len(Append(calls, op)) = Len(calls) + 1 /\ Len(Append(answers, how)) = Len(answers) + 1
    BY <1>1
  <1> QED BY <1>2

\* A call that consumes nothing keeps log and script in step.
LEMMA UnservedStep ==
  ASSUME TypeOK, ScriptFollowed, NEW op \in Methods,
         NEW how \in {"refused", "mismatch", "stopped"},
         answers' = Append(answers, how), calls' = Append(calls, op),
         UNCHANGED <<replies, script>>,
         how # "refused" => \A i \in DOMAIN answers : answers[i] # "mismatch"
  PROVE  ScriptFollowed'
  <1>1. /\ Served' = Served
        /\ \A i \in DOMAIN answers : ServedUpTo(i)' = ServedUpTo(i)
    BY ServedAfter
  <1>2. Served \subseteq DOMAIN answers /\ DOMAIN answers = DOMAIN calls
    BY DEF Served, ScriptFollowed, TypeOK
  <1>3. (Len(calls) = Len(answers))'
    BY LogLengths DEF ScriptFollowed
  <1>4. (replies = SubSeq(script, Cardinality(Served) + 1, Len(script)))'
    BY <1>1 DEF ScriptFollowed
  <1>5. (\A i \in Served : script[Cardinality(ServedUpTo(i))].op = calls[i])'
    BY <1>1, <1>2 DEF ScriptFollowed, TypeOK
  <1>6. (\A i, j \in DOMAIN answers :
           i < j /\ answers[i] = "mismatch" => answers[j] = "refused")'
    BY DEF ScriptFollowed, TypeOK
  <1> QED BY <1>3, <1>4, <1>5, <1>6 DEF ScriptFollowed

LEMMA FollowedInit == Init => ScriptFollowed /\ MismatchFaults
  <1> SUFFICES ASSUME Init PROVE ScriptFollowed /\ MismatchFaults
    OBVIOUS
  <1>1. Served = {}
    BY DEF Init, Served
  <1>2. script \in Seq(Replies) /\ script = SubSeq(script, 1, Len(script))
    BY ScriptIsSequence DEF Init
  <1> QED BY <1>1, <1>2, FS_EmptySet DEF Init, ScriptFollowed, MismatchFaults

LEMMA ServeFollows ==
  ASSUME TypeOK, ScriptFollowed, MismatchFaults, NEW op \in DataOps, Serve(op)
  PROVE  ScriptFollowed'
  <1> DEFINE n == Len(answers)
             k == Cardinality(Served)
  <1>1. /\ n \in Nat /\ DOMAIN answers = 1..n /\ DOMAIN calls = 1..n
        /\ answers' = Append(answers, "served") /\ calls' = Append(calls, op)
        /\ replies' = Tail(replies) /\ script' = script
        /\ replies # <<>> /\ Head(replies).op = op
    BY DEF TypeOK, ScriptFollowed, Serve, Record, Answer, Matches
  <1>2. /\ Served' = Served \cup {n + 1}
        /\ \A i \in 1..n : ServedUpTo(i)' = ServedUpTo(i)
        /\ \A i : i = n + 1 => ServedUpTo(i)' = Served'
    BY <1>1, ServedAfter
  <1>3. k \in Nat /\ IsFiniteSet(Served) /\ n + 1 \notin Served /\ Served \subseteq 1..n
    BY <1>1, ServedIsFinite DEF Served
  <1>4. Cardinality(Served') = k + 1
    BY <1>2, <1>3, FS_AddElement
  <1>5. script \in Seq(Replies) /\ replies = SubSeq(script, k + 1, Len(script))
    BY ScriptIsSequence DEF TypeOK, ScriptFollowed
  <1>6. k + 1 <= Len(script) /\ Head(replies) = script[k + 1]
        /\ Tail(replies) = SubSeq(script, k + 2, Len(script))
    <2>1. Len(script) \in Nat /\ script = [i \in 1..Len(script) |-> script[i]]
      BY <1>5
    <2>2. k + 1 <= Len(script)
      <3>1. ASSUME k + 1 > Len(script) PROVE SubSeq(script, k + 1, Len(script)) = <<>>
        BY <1>3, <1>5, <2>1, <3>1, SubSeqEmpty
      <3> QED BY <3>1, <1>1, <1>3, <1>5, <2>1
    <2>3. k + 1 \in 1..Len(script) /\ Len(script) \in k + 1..Len(script) /\ (k + 1) + 1 = k + 2
      BY <1>3, <2>1, <2>2
    <2>4. /\ Head(SubSeq(script, k + 1, Len(script))) = script[k + 1]
          /\ Tail(SubSeq(script, k + 1, Len(script))) = SubSeq(script, (k + 1) + 1, Len(script))
      BY <1>5, <2>3, HeadTailOfSubSeq
    <2> QED BY <1>5, <2>2, <2>3, <2>4
  <1>7. (Len(calls) = Len(answers))'
    BY <1>1, LogLengths DEF ScriptFollowed
  <1>8. (replies = SubSeq(script, Cardinality(Served) + 1, Len(script)))'
    <2>1. (k + 1) + 1 = k + 2
      BY <1>3
    <2> QED BY <1>1, <1>4, <1>6, <2>1
  <1>9. ASSUME NEW i \in Served' PROVE script'[Cardinality(ServedUpTo(i)')].op = calls'[i]
    <2>1. CASE i = n + 1
      <3>1. calls \in Seq(Methods) /\ op \in Methods /\ Len(calls) = n
        BY DEF TypeOK, ScriptFollowed, Methods
      <3>2. calls'[n + 1] = op
        BY <3>1, <1>1
      <3>3. Cardinality(ServedUpTo(i)') = k + 1
        BY <2>1, <1>2, <1>4
      <3> QED BY <2>1, <3>2, <3>3, <1>1, <1>6
    <2>2. CASE i \in Served
      <3>1. i \in 1..n /\ calls'[i] = calls[i]
        BY <2>2, <1>1, <1>3 DEF TypeOK
      <3> QED BY <2>2, <3>1, <1>1, <1>2 DEF ScriptFollowed
    <2> QED BY <2>1, <2>2, <1>2
  <1>10. (\A i, j \in DOMAIN answers :
            i < j /\ answers[i] = "mismatch" => answers[j] = "refused")'
    <2>1. \A i \in DOMAIN answers : answers[i] # "mismatch"
      BY DEF Serve, Admits, MismatchFaults
    <2> QED BY <2>1, <1>1 DEF TypeOK
  <1> QED BY <1>7, <1>8, <1>9, <1>10 DEF ScriptFollowed

LEMMA FollowedStep ==
  TypeOK /\ ScriptFollowed /\ MismatchFaults /\ [Next]_vars
    => ScriptFollowed' /\ MismatchFaults'
  <1> SUFFICES ASSUME TypeOK, ScriptFollowed, MismatchFaults, [Next]_vars
               PROVE  ScriptFollowed' /\ MismatchFaults'
    OBVIOUS
  <1>1. ASSUME NEW op \in Methods, Reject(op) PROVE ScriptFollowed' /\ MismatchFaults'
    <2>1. ScriptFollowed'
      BY <1>1, UnservedStep DEF Reject, Record, Answer
    <2>2. MismatchFaults'
      BY <1>1 DEF Reject, Answer, MismatchFaults, TypeOK
    <2> QED BY <2>1, <2>2
  <1>2. ASSUME NEW op \in DataOps, Serve(op) PROVE ScriptFollowed' /\ MismatchFaults'
    <2>1. MismatchFaults'
      BY <1>2 DEF Serve, Answer, Admits, MismatchFaults, TypeOK
    <2> QED BY <1>2, <2>1, ServeFollows
  <1>3. ASSUME NEW op \in DataOps, Mismatch(op) PROVE ScriptFollowed' /\ MismatchFaults'
    <2>1. \A i \in DOMAIN answers : answers[i] # "mismatch"
      BY <1>3 DEF Mismatch, Admits, MismatchFaults
    <2>2. ScriptFollowed'
      BY <1>3, <2>1, UnservedStep DEF Mismatch, Record, Answer, Methods
    <2>3. MismatchFaults'
      BY <1>3 DEF Mismatch, MismatchFaults
    <2> QED BY <2>2, <2>3
  <1>4. CASE Stop
    <2>1. \A i \in DOMAIN answers : answers[i] # "mismatch"
      BY <1>4 DEF Stop, Admits, MismatchFaults
    <2>2. ScriptFollowed'
      BY <1>4, <2>1, UnservedStep DEF Stop, Record, Answer, Methods
    <2>3. MismatchFaults'
      BY <1>4, <2>1 DEF Stop, Answer, MismatchFaults, TypeOK
    <2> QED BY <2>2, <2>3
  <1>5. CASE UNCHANGED vars
    BY <1>5 DEF vars, ScriptFollowed, MismatchFaults, Served, ServedUpTo
  <1> QED BY <1>1, <1>2, <1>3, <1>4, <1>5 DEF Next

\* Call log and script stay in step for scripts and sessions of every length.
THEOREM ScriptIsFollowed == Spec => []ScriptFollowed
  BY ScriptTypes, FollowedInit, FollowedStep, PTL DEF Spec
-----------------------------------------------------------------------------
(* The lifecycle *)

\* The contract's copy of the protocol is this module's.
LEMMA SameVocabulary ==
  /\ Contract!Operations = Operations /\ Contract!ReadOps = ReadOps
  /\ Contract!Outcomes = Outcomes
  /\ \A op : Contract!Errors(op) = Errors(op)
  /\ \A op, st : Contract!Admits(op, st) = Admits(op, st)
  /\ \A st : Contract!Refusal(st) = Refusal(st)
  /\ \A op, out, st : Contract!StatusAfter(op, out, st) = StatusAfter(op, out, st)
  <1>1. /\ Contract!Fatal = Fatal /\ Contract!Outcomes = Outcomes
        /\ Contract!Operations = Operations /\ Contract!ReadOps = ReadOps
    BY DEF Contract!Fatal, Fatal, Contract!Outcomes, Outcomes, Contract!Benign, Benign,
           Contract!Refusals, Refusals, Contract!Operations, Operations, Contract!ReadOps,
           ReadOps, Contract!WriteOps, WriteOps
  <1>2. /\ Contract!ClockLookup = ClockLookup /\ Contract!BackendFault = BackendFault
    BY DEF Contract!ClockLookup, ClockLookup, Contract!BackendFault, BackendFault
  <1>3. ASSUME NEW op PROVE Contract!Errors(op) = Errors(op)
    BY <1>1, <1>2, Zenon DEF Contract!Errors, Errors
  <1>4. ASSUME NEW op, NEW st PROVE Contract!Admits(op, st) = Admits(op, st)
    BY <1>1 DEF Contract!Admits, Admits
  <1>5. ASSUME NEW st PROVE Contract!Refusal(st) = Refusal(st)
    BY DEF Contract!Refusal, Refusal
  <1>6. ASSUME NEW op, NEW out, NEW st
        PROVE  Contract!StatusAfter(op, out, st) = StatusAfter(op, out, st)
    BY <1>1 DEF Contract!StatusAfter, StatusAfter
  <1> QED BY <1>1, <1>3, <1>4, <1>5, <1>6

LEMMA AnswerCompletes ==
  ASSUME NEW op \in Methods, NEW out \in Outcomes, NEW how, Answer(op, out, how),
         Admits(op, status), out \in {"Ok"} \cup Errors(op),
         status' = StatusAfter(op, out, status)
  PROVE  Contract!Next
  <1>1. op \in Operations /\ op # "InspectWorld"
    BY DEF Operations, WriteOps, ReadOps, Methods, DataOps
  <1>2. Contract!Complete(op, out)
    BY <1>1, SameVocabulary DEF Contract!Complete, Contract!Borrowable, Contract!Call, Answer
  <1> QED BY <1>1, <1>2, SameVocabulary DEF Contract!Next

LEMMA ContractStep == TypeOK /\ [Next]_vars => [Contract!Next]_(Contract!vars)
  <1> SUFFICES ASSUME TypeOK, [Next]_vars PROVE [Contract!Next]_(Contract!vars)
    OBVIOUS
  <1>1. ASSUME NEW op \in Methods, Reject(op) PROVE Contract!Next
    <2>1. op \in Operations
      BY DEF Operations, WriteOps, ReadOps, Methods, DataOps
    <2>2. Contract!Refuse(op)
      BY <1>1, SameVocabulary
      DEF Reject, Answer, Contract!Refuse, Contract!Borrowable, Contract!Call
    <2> QED BY <2>1, <2>2, SameVocabulary DEF Contract!Next
  <1>2. ASSUME NEW op \in DataOps, Serve(op) PROVE Contract!Next
    <2> DEFINE out == Head(replies).out
    <2>1. Head(replies) \in Replies /\ Head(replies).op = op
      BY <1>2 DEF Serve, Matches, TypeOK
    <2>2. out \in {"Ok"} \cup Errors(op) /\ out \in Outcomes
      BY <2>1, ReplyFacts
    <2>3. status' = StatusAfter(op, out, status)
      BY <1>2 DEF Serve, StatusAfter, DataOps
    <2> QED BY <1>2, <2>2, <2>3, AnswerCompletes DEF Serve, Methods
  <1>3. ASSUME NEW op \in DataOps, Mismatch(op) PROVE Contract!Next
    <2>1. "BackendFailure" \in Errors(op) /\ "BackendFailure" \in Outcomes
      BY DEF Errors, DataOps, BackendFault, Fatal, Outcomes
    <2>2. status' = StatusAfter(op, "BackendFailure", status)
      BY <1>3 DEF Mismatch, StatusAfter, Fatal
    <2> QED BY <1>3, <2>1, <2>2, AnswerCompletes DEF Mismatch, Methods
  <1>4. CASE Stop
    <2>1. "Ok" \in Outcomes /\ "Stop" \in Methods /\ status' = StatusAfter("Stop", "Ok", status)
      BY <1>4 DEF Stop, StatusAfter, Fatal, Outcomes, Methods
    <2> QED BY <1>4, <2>1, AnswerCompletes DEF Stop
  <1>5. CASE UNCHANGED vars
    BY <1>5 DEF vars, Contract!vars
  <1> QED BY <1>1, <1>2, <1>3, <1>4, <1>5 DEF Next

LEMMA ContractInit == Init => Contract!Init
  BY DEF Init, Contract!Init, Contract!Call

\* The test double keeps the contract of a backend, whatever lawful script it
\* is given: what a host learns from it about the lifecycle is true of backends.
THEOREM ScriptKeepsContract == Spec => RefinesContract
  BY ScriptTypes, ContractInit, ContractStep, PTL DEF Spec, RefinesContract, Contract!Spec
=============================================================================

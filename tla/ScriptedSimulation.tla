------------------------- MODULE ScriptedSimulation -------------------------
(***************************************************************************)
(* ScriptedSimulation, the test double of armillae-simulate: it records    *)
(* every call and answers it from a script.  Each method holds the lock    *)
(* from its first line to its last, so every call is one action, whichever *)
(* threads read_clock is called from.                                      *)
(***************************************************************************)
EXTENDS SimulationProtocol, Naturals, Sequences, FiniteSets

CONSTANTS
  Replies,   \* the replies a script is made of: method and outcome
  MaxScript, \* bound: length of the script
  MaxCalls   \* bound: calls made

\* stop and the native accesses are not scripted.
DataOps == {"Execute", "ReadClock", "InsertClock", "RemoveClock", "Advance"}
Methods == DataOps \cup {"Stop"}
Reply == [op : DataOps, out : {"Ok"} \cup Benign \cup Fatal]
Scripts == UNION {[1..n -> Replies] : n \in 0..MaxScript}

ASSUME ScriptAssumption ==
  /\ \A r \in Replies : r.op \in DataOps /\ r.out \in {"Ok"} \cup Errors(r.op)
  /\ MaxScript \in Nat /\ MaxCalls \in Nat

VARIABLES
  status,   \* ScriptState.status
  replies,  \* ScriptState.replies
  calls,    \* ScriptState.calls: the methods called
  last,     \* the last call and its outcome
  script,   \* history: the replies the simulation was built with
  answers   \* history: how each recorded call was answered

vars == <<status, replies, calls, last, script, answers>>

Init ==
  /\ status = "Active"
  /\ script \in Scripts /\ replies = script
  /\ calls = <<>> /\ answers = <<>>
  /\ last = [op |-> "Stop", out |-> "None"]

\* The call returns out; how it was answered is remembered beside it.
Answer(op, out, how) ==
  /\ last' = [op |-> op, out |-> out]
  /\ answers' = Append(answers, how)
  /\ UNCHANGED script

Record(op) == Len(calls) < MaxCalls /\ calls' = Append(calls, op)

\* Defect: the lifecycle is checked before the call is recorded.
RejectUnrecorded(op) ==
  /\ Len(answers) < MaxCalls /\ ~Admits(op, status)
  /\ UNCHANGED <<calls, status, replies>>
  /\ Answer(op, Refusal(status), "refused")

\* The call is recorded, then turned away by the lifecycle: no reply is consumed.
Reject(op) ==
  /\ Record(op)
  /\ ~Admits(op, status)
  /\ UNCHANGED <<status, replies>>
  /\ Answer(op, Refusal(status), "refused")

Matches(op) == replies # <<>> /\ Head(replies).op = op

\* Defect: the status is left as it was.
MismatchUnfaulted(op) ==
  /\ Record(op)
  /\ op \in DataOps /\ Admits(op, status) /\ ~Matches(op)
  /\ UNCHANGED <<status, replies>>
  /\ Answer(op, "BackendFailure", "mismatch")

\* Another method is at the head of the script, or the script is over: the
\* simulation faults and keeps what is left of the script.
Mismatch(op) ==
  /\ Record(op)
  /\ op \in DataOps /\ Admits(op, status) /\ ~Matches(op)
  /\ status' = "Faulted"
  /\ UNCHANGED replies
  /\ Answer(op, "BackendFailure", "mismatch")

\* scripted_method, read_clock and remove_clock with their reply at the head;
\* update_status faults on the errors of faults_simulation.
Serve(op) ==
  /\ Record(op)
  /\ op \in DataOps /\ Admits(op, status) /\ Matches(op)
  /\ replies' = Tail(replies)
  /\ status' = IF Head(replies).out \in Fatal THEN "Faulted" ELSE status
  /\ Answer(op, Head(replies).out, "served")

Stop ==
  /\ Record("Stop")
  /\ Admits("Stop", status)
  /\ status' = "Stopped"
  /\ UNCHANGED replies
  /\ Answer("Stop", "Ok", "stopped")

Next ==
  \/ \E op \in Methods : Reject(op)
  \/ \E op \in DataOps : Serve(op) \/ Mismatch(op)
  \/ Stop

Spec == Init /\ [][Next]_vars
-----------------------------------------------------------------------------
(* Properties *)

TypeOK ==
  /\ status \in Statuses
  /\ script \in Scripts /\ replies \in Seq(Replies)
  /\ calls \in Seq(Methods)
  /\ answers \in Seq({"served", "refused", "mismatch", "stopped"})
  /\ last \in [op : Methods, out : Outcomes \cup {"None"}]

Served == {i \in DOMAIN answers : answers[i] = "served"}
ServedUpTo(i) == {j \in Served : j <= i}

\* The log and the script tell one story: every call is in the log, the i-th
\* reply went to the i-th call that was served and is of its method, the replies
\* not yet served are the end of the script, and nothing is served, and no
\* second mismatch reported, once a call mismatched.
ScriptFollowed ==
  /\ Len(calls) = Len(answers)
  /\ replies = SubSeq(script, Cardinality(Served) + 1, Len(script))
  /\ \A i \in Served : script[Cardinality(ServedUpTo(i))].op = calls[i]
  /\ \A i, j \in DOMAIN answers :
       i < j /\ answers[i] = "mismatch" => answers[j] = "refused"

\* The lifecycle is the one of every backend: a script cannot get around it.
Contract == INSTANCE SimulationContract WITH open <- 0
RefinesContract == Contract!Spec
=============================================================================

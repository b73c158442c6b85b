----------------------------- MODULE MockBridge -----------------------------
(***************************************************************************)
(* MockBridge, the scripted bridge of armillae-llm, called from several    *)
(* threads.  A call takes the lock of the recording, releases it, checks   *)
(* the request, and takes the lock of the script: other calls run in       *)
(* between.  It awaits nothing, so one poll runs it to its end.            *)
(*                                                                         *)
(* Calls are numbered in the order of their recording; a recorded request  *)
(* is represented by that number.                                          *)
(***************************************************************************)
EXTENDS BridgeCapabilities, Naturals, FiniteSets

CONSTANTS
  Callers,    \* threads
  Grants,     \* capability sets with_capabilities is offered
  Requests,   \* requests callers make
  MaxScript,  \* bound: length of the script
  MaxCalls    \* bound: calls made

ASSUME MockAssumption ==
  /\ \A caps \in Grants : caps \subseteq Capabilities
  /\ \A r \in Requests : r \in Request
  /\ MaxScript \in Nat /\ MaxCalls \in Nat

\* A completion conforms when it passes the output validation of the request.
Responses == {"conforming", "nonconforming", "stream", "error"}
Methods == {"complete", "stream"}
Plans == {"fixed", "scripted"}
Calls == 1..MaxCalls
Idle == 0
Unanswered == "none"

VARIABLES
  caps,       \* MockBridge.capabilities
  plan,       \* MockBridge.plan: fixed repeats the first response
  replies,    \* the queue of MockPlan::Scripted
  requests,   \* MockBridge.requests
  running,    \* the call each caller is in, after the recording
  asked,      \* method and request of each call
  outcome,    \* how each call was answered
  script,     \* history: the responses the bridge was built with
  taken,      \* history: the requests take_requests has returned
  replyOf,    \* history: the position in the script of the reply of each call, or 0
  preceded    \* history: the calls that had returned when each call was recorded

bridge == <<caps, plan>>
vars == <<bridge, replies, requests, running, asked, outcome, script, taken, replyOf, preceded>>

Count == Len(asked)
Returned == {n \in 1..Count : outcome[n] # Unanswered}

\* with_capabilities refuses what does not validate.
Init ==
  /\ caps \in {g \in Grants : CapabilitiesVerdict(g) = "Ok"}
  /\ plan \in Plans
  /\ script \in UNION {[1..n -> Responses] : n \in 0..MaxScript}
  /\ plan = "fixed" => Len(script) = 1
  /\ replies = IF plan = "fixed" THEN <<>> ELSE script
  /\ requests = <<>> /\ taken = <<>>
  /\ running = [c \in Callers |-> Idle]
  /\ asked = <<>> /\ outcome = <<>> /\ replyOf = <<>> /\ preceded = <<>>

\* record_request: every request received, checked or not.
Record(c, method, r) ==
  /\ running[c] = Idle /\ Count < MaxCalls
  /\ requests' = Append(requests, Count + 1)
  /\ running' = [running EXCEPT ![c] = Count + 1]
  /\ asked' = Append(asked, [method |-> method, request |-> r])
  /\ outcome' = Append(outcome, Unanswered)
  /\ replyOf' = Append(replyOf, 0)
  /\ preceded' = Append(preceded, Returned)
  /\ UNCHANGED <<bridge, replies, script, taken>>

Preflight(n) ==
  LET call == asked[n] IN
  FirstError(<<IF call.method = "stream" THEN StreamingVerdict(caps, call.request)
               ELSE RequestVerdict(caps, call.request),
               PrepareVerdict(call.request)>>)

Answer(c, out) ==
  /\ outcome' = [outcome EXCEPT ![running[c]] = out]
  /\ running' = [running EXCEPT ![c] = Idle]
  /\ UNCHANGED <<bridge, requests, asked, script, taken, preceded>>

\* The request fails a check: the script is not touched.
Refuse(c) ==
  /\ running[c] # Idle /\ Preflight(running[c]) # "Ok"
  /\ UNCHANGED <<replies, replyOf>>
  /\ Answer(c, Preflight(running[c]))

\* What a response answers a call of this method and request.
Served(method, r, response) ==
  CASE response = "error" -> "Error"
    [] method = "stream" -> IF response = "stream" THEN "Ok" ELSE "Mismatch"
    [] response = "stream" -> "Mismatch"
    [] response = "nonconforming" /\ r.format \in
         {"native_strict_schema", "json_object_schema_validation"} -> "StructuredOutput"
    [] OTHER -> "Ok"

Ready(c) == running[c] # Idle /\ Preflight(running[c]) = "Ok"

\* Defect: the most recent item of the script is served.
TakeLast(c) ==
  LET call == asked[running[c]] IN
  /\ Ready(c) /\ plan = "scripted" /\ replies # <<>>
  /\ replies' = SubSeq(replies, 1, Len(replies) - 1)
  /\ replyOf' = [replyOf EXCEPT ![running[c]] = Len(replies)]
  /\ Answer(c, Served(call.method, call.request, replies[Len(replies)]))

\* next_response pops before the kind of the item is looked at: a mismatch
\* consumes it.
Take(c) ==
  LET call == asked[running[c]] IN
  /\ Ready(c) /\ plan = "scripted" /\ replies # <<>>
  /\ replies' = Tail(replies)
  /\ replyOf' = [replyOf EXCEPT ![running[c]] = Len(script) - Len(replies) + 1]
  /\ Answer(c, Served(call.method, call.request, Head(replies)))

Exhausted(c) ==
  /\ Ready(c) /\ plan = "scripted" /\ replies = <<>>
  /\ UNCHANGED <<replies, replyOf>>
  /\ Answer(c, "Exhausted")

Repeat(c) ==
  LET call == asked[running[c]] IN
  /\ Ready(c) /\ plan = "fixed"
  /\ UNCHANGED <<replies, replyOf>>
  /\ Answer(c, Served(call.method, call.request, script[1]))

\* Defect: the recording is copied, as by requests(), and not cleared.
CopyRequests ==
  /\ requests # <<>>
  /\ taken' = taken \o requests
  /\ UNCHANGED <<bridge, replies, requests, running, asked, outcome, script, replyOf, preceded>>

TakeRequests ==
  /\ requests # <<>>
  /\ taken' = taken \o requests /\ requests' = <<>>
  /\ UNCHANGED <<bridge, replies, running, asked, outcome, script, replyOf, preceded>>

Next ==
  \/ \E c \in Callers :
       \/ \E method \in Methods, r \in Requests : Record(c, method, r)
       \/ Refuse(c) \/ Take(c) \/ Exhausted(c) \/ Repeat(c)
  \/ TakeRequests

Spec == Init /\ [][Next]_vars
-----------------------------------------------------------------------------
(* Properties *)

Consumers == {n \in 1..Count : replyOf[n] # 0}

\* Under any interleaving no item of the script is lost or served twice, the
\* items left are its end, and a call that does not overlap another gets its
\* item before or after it as the calls went: a test that drives its calls one
\* after the other sees the script in order.
ScriptServedOnce ==
  /\ \A m, n \in Consumers : replyOf[m] = replyOf[n] => m = n
  /\ plan = "scripted" => replies = SubSeq(script, Cardinality(Consumers) + 1, Len(script))
  /\ {replyOf[n] : n \in Consumers} = 1..Cardinality(Consumers)
  /\ \A m, n \in Consumers : m \in preceded[n] => replyOf[m] < replyOf[n]

\* Every request received is in the recording or was taken from it, once and
\* in the order of arrival, also the ones that were refused.
RequestsRecordedOnce == taken \o requests = [n \in 1..Count |-> n]

Uses(call) ==
  ({call.request.thinking, call.request.effort, call.request.choice, call.request.format}
     \ {"default", "unset", "text"})
  \cup call.request.roles
  \cup (IF call.request.tools \/ call.request.history THEN {"tool_calling"} ELSE {})
  \cup (IF call.method = "stream" THEN {"streaming"} ELSE {})

\* A call reaches the script only if the bridge has every capability it uses
\* (a tool choice implies tool calling), and never fails on the configuration
\* of a bridge that was accepted when it was built.
OnlySupportedServed ==
  \A n \in Returned :
    /\ outcome[n] # "InvalidConfiguration"
    /\ outcome[n] \in {"Ok", "Mismatch", "Error", "StructuredOutput", "Exhausted"} =>
         /\ Uses(asked[n]) \subseteq caps
         /\ asked[n].request.choice # "unset" => "tool_calling" \in caps
=============================================================================

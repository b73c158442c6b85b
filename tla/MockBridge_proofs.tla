-------------------------- MODULE MockBridge_proofs --------------------------
(***************************************************************************)
(* Theorems about MockBridge, for any number of callers and calls, scripts *)
(* of any length and every set of requests and capabilities.               *)
(***************************************************************************)
EXTENDS MockBridge, SequenceFacts, FiniteSetTheorems, SequenceTheorems, TLAPS

Outcomes ==
  {"none", "Ok", "Mismatch", "Error", "StructuredOutput", "Exhausted",
   "UnsupportedCapability", "InvalidRequest", "InvalidOutputSchema"}

\* What the variables hold.  No two callers are in the same call, and a call
\* somebody is in has not been answered and has no reply.
Types ==
  /\ caps \subseteq Capabilities /\ CapabilitiesVerdict(caps) = "Ok"
  /\ plan \in Plans
  /\ script \in Seq(Responses) /\ replies \in Seq(Responses) /\ Len(replies) <= Len(script)
  /\ plan = "fixed" => Len(script) = 1
  /\ requests \in Seq(Nat) /\ taken \in Seq(Nat)
  /\ asked \in Seq([method : Methods, request : Request])
  /\ outcome \in Seq(Outcomes) /\ Len(outcome) = Count
  /\ replyOf \in Seq(Nat) /\ Len(replyOf) = Count
  /\ preceded \in Seq(SUBSET (1..Count)) /\ Len(preceded) = Count
  /\ running \in [Callers -> 0..Count]
Occupied ==
  /\ \A c \in Callers : running[c] # Idle =>
       outcome[running[c]] = Unanswered /\ replyOf[running[c]] = 0
  /\ \A c, d \in Callers : running[c] = running[d] /\ running[c] # Idle => c = d
  /\ \A n \in 1..Count : \A m \in preceded[n] : outcome[m] # Unanswered
Bridged == Types /\ Occupied
-----------------------------------------------------------------------------
(* What the preflight answers *)

\* validate_request passes exactly if each of its checks does.
LEMMA RequestVerdictFacts ==
  ASSUME NEW r, CapabilitiesVerdict(caps) = "Ok"
  PROVE  /\ RequestVerdict(caps, r) \in {"Ok", "UnsupportedCapability", "InvalidRequest"}
         /\ RequestVerdict(caps, r) = "Ok" =>
              /\ {r.thinking, r.effort} \ {"default"} \subseteq caps
              /\ UsesTools(r) => "tool_calling" \in caps
              /\ {r.choice} \ {"unset"} \subseteq caps
              /\ {r.format} \ {"text"} \subseteq caps
              /\ r.roles \subseteq caps
  <1> DEFINE V == {"Ok", "UnsupportedCapability", "InvalidRequest"}
             tools == IF UsesTools(r) THEN Needs(caps, {"tool_calling"}) ELSE "Ok"
             vs == <<CapabilitiesVerdict(caps), Needs(caps, {r.thinking, r.effort} \ {"default"}),
                     tools, ChoiceVerdict(r), Needs(caps, {r.choice} \ {"unset"}),
                     Needs(caps, {r.format} \ {"text"}), Needs(caps, r.roles)>>
  <1>1. \A used : Needs(caps, used) \in V /\ (Needs(caps, used) = "Ok" => used \subseteq caps)
    BY DEF Needs
  <1>2. ChoiceVerdict(r) \in V /\ CapabilitiesVerdict(caps) \in V /\ tools \in V
    BY <1>1 DEF ChoiceVerdict
  <1>3. vs \in Seq(V)
    <2> HIDE DEF V, tools
    <2> QED BY <1>1, <1>2
  <1>4. RequestVerdict(caps, r) = FirstError(vs)
    BY DEF RequestVerdict
  <1>5. FirstError(vs) \in V
    <2>1. FirstError(vs) \in V \cup {"Ok"}
      <3> HIDE DEF vs, V
      <3> QED BY <1>3, FirstErrorFacts
    <2> QED BY <2>1
  <1>6. ASSUME FirstError(vs) = "Ok"
        PROVE  /\ Needs(caps, {r.thinking, r.effort} \ {"default"}) = "Ok" /\ tools = "Ok"
               /\ Needs(caps, {r.choice} \ {"unset"}) = "Ok"
               /\ Needs(caps, {r.format} \ {"text"}) = "Ok" /\ Needs(caps, r.roles) = "Ok"
    <2>1. \A i \in DOMAIN vs : vs[i] = "Ok"
      <3> HIDE DEF vs, V
      <3> QED BY <1>3, <1>6, EveryCheckPasses
    <2>2. DOMAIN vs = 1..7
      OBVIOUS
    <2>3. vs[2] = "Ok" /\ vs[3] = "Ok" /\ vs[5] = "Ok" /\ vs[6] = "Ok" /\ vs[7] = "Ok"
      <3> HIDE DEF vs
      <3> QED BY <2>1, <2>2
    <2> QED BY <2>3
  <1> QED BY <1>1, <1>4, <1>5, <1>6

\* A call that passes the preflight uses what the bridge has; one that does not
\* fails with an error of its request.
LEMMA PreflightFacts ==
  ASSUME Types, NEW n \in 1..Count
  PROVE  /\ Preflight(n) \in
              {"Ok", "UnsupportedCapability", "InvalidRequest", "InvalidOutputSchema"}
         /\ Preflight(n) = "Ok" =>
              /\ Uses(asked[n]) \subseteq caps
              /\ asked[n].request.choice # "unset" => "tool_calling" \in caps
  <1> DEFINE V == {"Ok", "UnsupportedCapability", "InvalidRequest", "InvalidOutputSchema"}
             method == asked[n].method
             r == asked[n].request
             streaming == <<Needs(caps, {"streaming"}), RequestVerdict(caps, r)>>
             local == IF method = "stream" THEN FirstError(streaming) ELSE RequestVerdict(caps, r)
             vs == <<local, PrepareVerdict(r)>>
  <1>1. CapabilitiesVerdict(caps) = "Ok"
    BY DEF Types
  <1>2. /\ RequestVerdict(caps, r) \in V
        /\ Needs(caps, {"streaming"}) \in V /\ PrepareVerdict(r) \in V
    BY <1>1, RequestVerdictFacts DEF Needs, PrepareVerdict
  <1>3. streaming \in Seq(V)
    <2> HIDE DEF V, r
    <2> QED BY <1>2
  <1>4. /\ FirstError(streaming) \in V
        /\ FirstError(streaming) = "Ok" =>
             "streaming" \in caps /\ RequestVerdict(caps, r) = "Ok"
    <2>1. FirstError(streaming) \in V \cup {"Ok"}
      <3> HIDE DEF streaming, V
      <3> QED BY <1>3, FirstErrorFacts
    <2>2. ASSUME FirstError(streaming) = "Ok"
          PROVE  streaming[1] = "Ok" /\ streaming[2] = "Ok"
      <3>1. \A i \in DOMAIN streaming : streaming[i] = "Ok"
        <4> HIDE DEF streaming, V
        <4> QED BY <1>3, <2>2, EveryCheckPasses
      <3>2. DOMAIN streaming = 1..2
        OBVIOUS
      <3> HIDE DEF streaming
      <3> QED BY <3>1, <3>2
    <2> QED BY <2>1, <2>2 DEF Needs
  <1>5. local \in V
    BY <1>2, <1>4
  <1>6. vs \in Seq(V)
    <2> HIDE DEF V, r, local
    <2> QED BY <1>2, <1>5
  <1>7. /\ FirstError(vs) \in V
        /\ FirstError(vs) = "Ok" => local = "Ok"
    <2>1. FirstError(vs) \in V \cup {"Ok"}
      <3> HIDE DEF vs, V
      <3> QED BY <1>6, FirstErrorFacts
    <2>2. ASSUME FirstError(vs) = "Ok" PROVE vs[1] = "Ok"
      <3>1. \A i \in DOMAIN vs : vs[i] = "Ok"
        <4> HIDE DEF vs, V
        <4> QED BY <1>6, <2>2, EveryCheckPasses
      <3>2. DOMAIN vs = 1..2
        OBVIOUS
      <3> HIDE DEF vs
      <3> QED BY <3>1, <3>2
    <2>3. vs[1] = local
      <3> HIDE DEF local
      <3> QED OBVIOUS
    <2> HIDE DEF vs, local
    <2> QED BY <2>1, <2>2, <2>3
  <1>8. Preflight(n) = FirstError(vs)
    BY DEF Preflight, StreamingVerdict
  <1>9. ASSUME local = "Ok"
        PROVE  /\ Uses(asked[n]) \subseteq caps
               /\ r.choice # "unset" => "tool_calling" \in caps
    <2>1. RequestVerdict(caps, r) = "Ok" /\ (method = "stream" => "streaming" \in caps)
      BY <1>4, <1>9
    <2>2. /\ {r.thinking, r.effort} \ {"default"} \subseteq caps
          /\ UsesTools(r) => "tool_calling" \in caps
          /\ {r.choice} \ {"unset"} \subseteq caps
          /\ {r.format} \ {"text"} \subseteq caps /\ r.roles \subseteq caps
      BY <1>1, <2>1, RequestVerdictFacts
    <2> QED BY <2>1, <2>2 DEF Uses, UsesTools
  <1> HIDE DEF local, vs
  <1> QED BY <1>7, <1>8, <1>9
-----------------------------------------------------------------------------
(* Types *)

\* What a response answers is an outcome.
LEMMA ServedOutcomes ==
  ASSUME NEW method, NEW r, NEW response
  PROVE  Served(method, r, response) \in {"Ok", "Mismatch", "Error", "StructuredOutput"}
  BY DEF Served

\* Numbering a new call: what is known of the older ones stays.
LEMMA RecordTypes ==
  ASSUME Bridged, NEW c \in Callers, NEW method \in Methods, NEW r \in Requests,
         Record(c, method, r)
  PROVE  Bridged'
  <1> DEFINE k == Count + 1
  <1>1. /\ Count \in Nat /\ Count' = k
        /\ asked' \in Seq([method : Methods, request : Request])
    BY MockAssumption DEF Bridged, Types, Record, Count
  <1>2. outcome' \in Seq(Outcomes) /\ Len(outcome') = k /\ outcome'[k] = Unanswered
        /\ \A n \in 1..Count : outcome'[n] = outcome[n]
    <2>1. outcome \in Seq(Outcomes) /\ Len(outcome) = Count /\ Unanswered \in Outcomes
      BY DEF Bridged, Types, Outcomes, Unanswered
    <2>2. outcome' = Append(outcome, Unanswered)
      BY DEF Record
    <2> QED BY <1>1, <2>1, <2>2
  <1>3. replyOf' \in Seq(Nat) /\ Len(replyOf') = k /\ replyOf'[k] = 0
        /\ \A n \in 1..Count : replyOf'[n] = replyOf[n]
    BY <1>1 DEF Bridged, Types, Record
  <1>4. /\ preceded' \in Seq(SUBSET (1..k)) /\ Len(preceded') = k /\ preceded'[k] = Returned
        /\ \A n \in 1..Count : preceded'[n] = preceded[n]
    <2>1. preceded \in Seq(SUBSET (1..k)) /\ Returned \in SUBSET (1..k)
      BY <1>1 DEF Bridged, Types, Returned
    <2> QED BY <1>1, <2>1 DEF Bridged, Types, Record
  <1>5. /\ running' \in [Callers -> 0..k] /\ running'[c] = k
        /\ \A d \in Callers : d # c => running'[d] = running[d] /\ running'[d] \in 0..Count
    BY <1>1 DEF Bridged, Types, Record
  <1>6. requests' \in Seq(Nat)
    BY <1>1 DEF Bridged, Types, Record
  <1>7. Types'
    BY <1>1, <1>2, <1>3, <1>4, <1>5, <1>6 DEF Bridged, Types, Record, bridge
  <1>8. Occupied'
    <2>1. ASSUME NEW d \in Callers, running'[d] # Idle
          PROVE  outcome'[running'[d]] = Unanswered /\ replyOf'[running'[d]] = 0
      <3>1. CASE d = c
        BY <1>2, <1>3, <1>5, <3>1
      <3>2. CASE d # c
        <4>1. running'[d] = running[d] /\ running[d] \in 1..Count
          BY <1>1, <1>5, <2>1, <3>2 DEF Idle
        <4>2. outcome[running[d]] = Unanswered /\ replyOf[running[d]] = 0
          BY <2>1, <4>1 DEF Bridged, Occupied
        <4> HIDE DEF k
        <4> QED BY <1>2, <1>3, <4>1, <4>2
      <3> QED BY <3>1, <3>2
    <2>2. ASSUME NEW d \in Callers, NEW e \in Callers, running'[d] = running'[e],
                 running'[d] # Idle
          PROVE  d = e
      BY <1>1, <1>5, <2>2 DEF Bridged, Occupied
    <2>3. ASSUME NEW n \in 1..k, NEW m \in preceded'[n] PROVE outcome'[m] # Unanswered
      <3>1. CASE n = k
        BY <1>2, <1>4, <2>3, <3>1 DEF Returned
      <3>2. CASE n \in 1..Count
        <4>1. m \in preceded[n] /\ preceded[n] \in SUBSET (1..Count)
          BY <1>4, <2>3, <3>2 DEF Bridged, Types
        <4> QED BY <1>2, <3>2, <4>1 DEF Bridged, Occupied
      <3> QED BY <1>1, <3>1, <3>2
    <2> QED BY <1>1, <2>1, <2>2, <2>3 DEF Occupied
  <1> QED BY <1>7, <1>8 DEF Bridged

\* Answering a call frees its caller and leaves the other calls alone.
LEMMA AnswerTypes ==
  ASSUME Bridged, NEW c \in Callers, running[c] # Idle, NEW out \in Outcomes, out # Unanswered,
         Answer(c, out), replies' \in Seq(Responses), Len(replies') <= Len(script),
         NEW reply \in Nat, replyOf' \in {replyOf, [replyOf EXCEPT ![running[c]] = reply]}
  PROVE  Bridged'
  <1> DEFINE n == running[c]
  <1>1. n \in 1..Count /\ Count \in Nat /\ Count' = Count
    BY DEF Bridged, Types, Answer, Count, Idle
  <1>2. outcome' \in Seq(Outcomes) /\ Len(outcome') = Count /\ outcome'[n] = out
        /\ \A m \in 1..Count : m # n => outcome'[m] = outcome[m]
    BY <1>1 DEF Bridged, Types, Answer
  <1>3. replyOf' \in Seq(Nat) /\ Len(replyOf') = Count
        /\ \A m \in 1..Count : m # n => replyOf'[m] = replyOf[m]
    <2>1. replyOf \in Seq(Nat) /\ Len(replyOf) = Count /\ DOMAIN replyOf = 1..Count
      BY DEF Bridged, Types
    <2>2. CASE replyOf' = replyOf
      BY <2>1, <2>2
    <2>3. CASE replyOf' = [replyOf EXCEPT ![n] = reply]
      BY <1>1, <2>1, <2>3
    <2> QED BY <2>2, <2>3
  <1>4. running' \in [Callers -> 0..Count] /\ running'[c] = Idle
        /\ \A d \in Callers : d # c => running'[d] = running[d]
    BY <1>1 DEF Bridged, Types, Answer, Idle
  <1>5. Types'
    BY <1>1, <1>2, <1>3, <1>4 DEF Bridged, Types, Answer, bridge
  <1>6. Occupied'
    <2>1. ASSUME NEW d \in Callers, running'[d] # Idle
          PROVE  outcome'[running'[d]] = Unanswered /\ replyOf'[running'[d]] = 0
      <3>1. d # c /\ running'[d] = running[d] /\ running[d] # n /\ running[d] \in 1..Count
        <4>1. d # c /\ running'[d] = running[d] /\ running[d] \in 1..Count
          BY <1>4, <2>1 DEF Bridged, Types, Idle
        <4>2. running[d] # n
          BY <1>1, <2>1, <4>1 DEF Bridged, Occupied
        <4> QED BY <4>1, <4>2
      <3>2. outcome[running[d]] = Unanswered /\ replyOf[running[d]] = 0
        BY <2>1, <3>1 DEF Bridged, Occupied
      <3> HIDE DEF n
      <3> QED BY <1>2, <1>3, <3>1, <3>2
    <2>2. ASSUME NEW d \in Callers, NEW e \in Callers, running'[d] = running'[e],
                 running'[d] # Idle
          PROVE  d = e
      BY <1>4, <2>2 DEF Bridged, Occupied
    <2>3. ASSUME NEW m \in 1..Count, NEW p \in preceded'[m] PROVE outcome'[p] # Unanswered
      <3>1. p \in preceded[m] /\ p \in 1..Count
        BY <2>3 DEF Bridged, Types, Answer
      <3> QED BY <1>2, <2>3, <3>1 DEF Bridged, Occupied
    <2> QED BY <1>1, <2>1, <2>2, <2>3 DEF Occupied
  <1> QED BY <1>5, <1>6 DEF Bridged

\* The answers of the five ways a call ends.
LEMMA RefuseTypes == ASSUME Bridged, NEW c \in Callers, Refuse(c) PROVE Bridged'
  <1>1. running[c] \in 1..Count
    BY DEF Refuse, Bridged, Types, Idle, Count
  <1>2. Preflight(running[c]) \in Outcomes \ {Unanswered}
    BY <1>1, PreflightFacts DEF Bridged, Outcomes, Unanswered
  <1> QED BY <1>2, AnswerTypes DEF Refuse, Bridged, Types, Answer, bridge

LEMMA TakeTypes == ASSUME Bridged, NEW c \in Callers, Take(c) PROVE Bridged'
  <1> DEFINE call == asked[running[c]]
             out == Served(call.method, call.request, Head(replies))
             reply == Len(script) - Len(replies) + 1
  <1>1. out \in Outcomes /\ out # Unanswered
    BY ServedOutcomes DEF Outcomes, Unanswered
  <1>2. replies' \in Seq(Responses) /\ Len(replies') <= Len(script) /\ reply \in Nat
    BY DEF Take, Bridged, Types
  <1>3. /\ running[c] # Idle /\ Answer(c, out)
        /\ replyOf' = [replyOf EXCEPT ![running[c]] = reply]
    BY DEF Take, Ready
  <1> HIDE DEF out, reply
  <1> QED BY <1>1, <1>2, <1>3, AnswerTypes

LEMMA ExhaustedTypes == ASSUME Bridged, NEW c \in Callers, Exhausted(c) PROVE Bridged'
  <1>1. /\ running[c] # Idle /\ Answer(c, "Exhausted") /\ replyOf' = replyOf
        /\ replies' \in Seq(Responses) /\ Len(replies') <= Len(script)
    BY DEF Exhausted, Ready, Bridged, Types
  <1>2. "Exhausted" \in Outcomes /\ "Exhausted" # Unanswered
    BY DEF Outcomes, Unanswered
  <1> QED BY <1>1, <1>2, AnswerTypes

LEMMA RepeatTypes == ASSUME Bridged, NEW c \in Callers, Repeat(c) PROVE Bridged'
  <1> DEFINE call == asked[running[c]]
             out == Served(call.method, call.request, script[1])
  <1>1. out \in Outcomes /\ out # Unanswered
    BY ServedOutcomes DEF Outcomes, Unanswered
  <1>2. /\ running[c] # Idle /\ Answer(c, out) /\ replyOf' = replyOf
        /\ replies' \in Seq(Responses) /\ Len(replies') <= Len(script)
    BY DEF Repeat, Ready, Bridged, Types
  <1> HIDE DEF out
  <1> QED BY <1>1, <1>2, AnswerTypes

LEMMA TakeRequestsTypes == ASSUME Bridged, TakeRequests PROVE Bridged'
  BY DEF TakeRequests, Bridged, Types, Occupied, Count, bridge

\* A bridge is built with a script of responses, or with one it repeats.
LEMMA InitFacts ==
  ASSUME Init
  PROVE  /\ script \in Seq(Responses) /\ Len(script) \in Nat
         /\ plan = "fixed" => Len(script) = 1
         /\ replies = IF plan = "fixed" THEN <<>> ELSE script
  <1>1. PICK n \in 0..MaxScript : script \in [1..n -> Responses]
    BY DEF Init
  <1>2. n \in Nat
    BY <1>1, MockAssumption
  <1> QED BY <1>1, <1>2, SeqDef DEF Init

LEMMA InitTypes == Init => Bridged
  <1> SUFFICES ASSUME Init PROVE Bridged
    OBVIOUS
  <1>1. caps \subseteq Capabilities /\ CapabilitiesVerdict(caps) = "Ok" /\ plan \in Plans
    BY MockAssumption DEF Init
  <1>2. Count = 0 /\ \A c \in Callers : running[c] = 0
    BY DEF Init, Count, Idle
  <1>3. Types
    BY <1>1, <1>2, InitFacts DEF Init, Types, Count, Idle
  <1>4. Occupied
    BY <1>2 DEF Init, Occupied, Idle
  <1> QED BY <1>3, <1>4 DEF Bridged

LEMMA NextTypes == Bridged /\ [Next]_vars => Bridged'
  <1> SUFFICES ASSUME Bridged, [Next]_vars PROVE Bridged'
    OBVIOUS
  <1>1. CASE UNCHANGED vars
    BY <1>1 DEF vars, bridge, Bridged, Types, Occupied, Count
  <1>2. ASSUME NEW c \in Callers, NEW method \in Methods, NEW r \in Requests,
               Record(c, method, r)
        PROVE  Bridged'
    BY <1>2, RecordTypes
  <1> QED BY <1>1, <1>2, RefuseTypes, TakeTypes, ExhaustedTypes, RepeatTypes, TakeRequestsTypes
      DEF Next

\* What the variables of the bridge hold, at every moment.
THEOREM BridgeTypes == Spec => []Bridged
  BY InitTypes, NextTypes, PTL DEF Spec
-----------------------------------------------------------------------------
(* The recording *)

\* Every request received, checked or not, is in the recording or was taken
\* from it, once and in the order of arrival (record_request, take_requests).
THEOREM RequestsAreRecordedOnce == Spec => []RequestsRecordedOnce
  <1>1. Init => RequestsRecordedOnce
    <2> SUFFICES ASSUME Init PROVE RequestsRecordedOnce
      OBVIOUS
    <2>1. taken \o requests = <<>> /\ Count = 0
      BY ConcatEmptySeq, EmptySeq DEF Init, Count
    <2>2. [n \in 1..0 |-> n] = <<>>
      OBVIOUS
    <2> QED BY <2>1, <2>2 DEF RequestsRecordedOnce
  <1>2. Bridged /\ RequestsRecordedOnce /\ [Next]_vars => RequestsRecordedOnce'
    <2> SUFFICES ASSUME Bridged, RequestsRecordedOnce, [Next]_vars PROVE RequestsRecordedOnce'
      OBVIOUS
    <2> DEFINE all == taken \o requests
    <2>0. /\ requests \in Seq(Nat) /\ taken \in Seq(Nat) /\ Count \in Nat
          /\ all \in Seq(Nat) /\ Len(all) = Count /\ \A n \in 1..Count : all[n] = n
      <3>1. requests \in Seq(Nat) /\ taken \in Seq(Nat) /\ Count \in Nat
        BY DEF Bridged, Types, Count
      <3>2. all = [n \in 1..Count |-> n]
        BY DEF RequestsRecordedOnce
      <3> QED BY <3>1, <3>2
    <2>1. ASSUME NEW c \in Callers, NEW method \in Methods, NEW r \in Requests,
                 Record(c, method, r)
          PROVE  RequestsRecordedOnce'
      <3>1. Count' = Count + 1 /\ taken' = taken /\ requests' = Append(requests, Count + 1)
        BY <2>0, <2>1, MockAssumption DEF Record, Count, Bridged, Types
      <3>2. taken \o requests' = Append(all, Count + 1)
        BY <2>0, <3>1, AppendIsConcat, ConcatAssociative
      <3>3. Append(all, Count + 1) = [n \in 1..Count + 1 |-> n]
        <4> HIDE DEF all
        <4> QED BY <2>0
      <3> QED BY <3>1, <3>2, <3>3 DEF RequestsRecordedOnce
    <2>2. ASSUME TakeRequests PROVE RequestsRecordedOnce'
      <3>1. taken' \o requests' = all
        BY <2>0, <2>2, ConcatEmptySeq DEF TakeRequests
      <3> QED BY <2>2, <3>1 DEF RequestsRecordedOnce, TakeRequests, Count
    <2>3. ASSUME UNCHANGED <<requests, taken, asked>> PROVE RequestsRecordedOnce'
      BY <2>3 DEF RequestsRecordedOnce, Count
    <2>4. ASSUME NEW c \in Callers, Refuse(c) \/ Take(c) \/ Exhausted(c) \/ Repeat(c)
          PROVE  UNCHANGED <<requests, taken, asked>>
      BY <2>4 DEF Refuse, Take, Exhausted, Repeat, Answer
    <2> QED BY <2>1, <2>2, <2>3, <2>4 DEF Next, vars
  <1> QED BY <1>1, <1>2, BridgeTypes, PTL DEF Spec
-----------------------------------------------------------------------------
(* What reaches the script *)

\* A call reaches the script only if the bridge has every capability it uses,
\* and never fails on the configuration of the bridge itself (validate_request
\* and validate_streaming_request, before next_response).
THEOREM OnlySupportedIsServed == Spec => []OnlySupportedServed
  <1> DEFINE Answered(n, out) ==
        /\ out # "InvalidConfiguration"
        /\ out \in {"Ok", "Mismatch", "Error", "StructuredOutput", "Exhausted"} =>
             /\ Uses(asked[n]) \subseteq caps
             /\ asked[n].request.choice # "unset" => "tool_calling" \in caps
  <1>1. Init => OnlySupportedServed
    BY DEF Init, OnlySupportedServed, Returned, Count
  <1>2. Bridged /\ OnlySupportedServed /\ [Next]_vars => OnlySupportedServed'
    <2> SUFFICES ASSUME Bridged, OnlySupportedServed, [Next]_vars PROVE OnlySupportedServed'
      OBVIOUS
    <2>0. /\ Count \in Nat /\ Len(outcome) = Count /\ outcome \in Seq(Outcomes)
          /\ \A n \in Returned : Answered(n, outcome[n])
      BY DEF Bridged, Types, Count, OnlySupportedServed
    <2>1. ASSUME NEW c \in Callers, NEW method \in Methods, NEW r \in Requests,
                 Record(c, method, r)
          PROVE  OnlySupportedServed'
      <3>1. /\ Count' = Count + 1 /\ caps' = caps /\ outcome'[Count + 1] = Unanswered
            /\ \A n \in 1..Count : outcome'[n] = outcome[n] /\ asked'[n] = asked[n]
        BY <2>0, <2>1, MockAssumption
        DEF Record, Count, Bridged, Types, bridge, Outcomes, Unanswered
      <3>2. Returned' = Returned
        BY <2>0, <3>1 DEF Returned
      <3> QED BY <2>0, <3>1, <3>2 DEF OnlySupportedServed, Uses, Returned
    <2>2. ASSUME NEW c \in Callers, running[c] # Idle, NEW out, Answer(c, out),
                 Answered(running[c], out)
          PROVE  OnlySupportedServed'
      <3>1. /\ UNCHANGED <<caps, asked>> /\ running[c] \in 1..Count /\ Count' = Count
            /\ outcome' = [outcome EXCEPT ![running[c]] = out]
        BY <2>2 DEF Answer, bridge, Count, Bridged, Types, Idle
      <3>2. ASSUME NEW n \in Returned' PROVE Answered(n, outcome'[n])
        <4>1. n \in 1..Count /\ outcome'[n] # Unanswered
          BY <3>1 DEF Returned
        <4>2. CASE n = running[c]
          BY <2>0, <2>2, <3>1, <4>1, <4>2
        <4>3. CASE n # running[c]
          BY <2>0, <3>1, <4>1, <4>3 DEF Returned
        <4> QED BY <4>2, <4>3
      <3> QED BY <3>1, <3>2 DEF OnlySupportedServed
    <2>3. ASSUME NEW c \in Callers, Refuse(c) PROVE OnlySupportedServed'
      <3>1. running[c] \in 1..Count
        BY <2>3 DEF Refuse, Bridged, Types, Idle
      <3>2. Answered(running[c], Preflight(running[c]))
        BY <2>3, <3>1, PreflightFacts DEF Bridged, Refuse
      <3> QED BY <2>2, <2>3, <3>2 DEF Refuse
    <2>4. ASSUME NEW c \in Callers, Take(c) \/ Exhausted(c) \/ Repeat(c)
          PROVE  OnlySupportedServed'
      <3>1. running[c] # Idle /\ running[c] \in 1..Count /\ Preflight(running[c]) = "Ok"
        BY <2>4 DEF Take, Exhausted, Repeat, Ready, Bridged, Types, Idle
      <3>2. PICK out \in {"Ok", "Mismatch", "Error", "StructuredOutput", "Exhausted"} :
              Answer(c, out)
        BY <2>4, ServedOutcomes DEF Take, Exhausted, Repeat
      <3>3. Answered(running[c], out)
        BY <3>1, PreflightFacts DEF Bridged
      <3> QED BY <2>2, <3>1, <3>2, <3>3
    <2>5. ASSUME UNCHANGED <<caps, asked, outcome>> PROVE OnlySupportedServed'
      BY <2>5 DEF OnlySupportedServed, Returned, Count, Uses
    <2> QED BY <2>1, <2>3, <2>4, <2>5 DEF Next, vars, bridge, TakeRequests
  <1> QED BY <1>1, <1>2, BridgeTypes, PTL DEF Spec
-----------------------------------------------------------------------------
(* The script *)

\* How far the script has been served.
Position == IF plan = "fixed" THEN 0 ELSE Len(script) - Len(replies)

\* ScriptServedOnce, with the position in the place of the number of the calls
\* that were served: an answer moves the one, and the other follows from it.
Serving ==
  /\ plan = "fixed" => replies = <<>>
  /\ plan = "scripted" => replies = SubSeq(script, Position + 1, Len(script))
  /\ {replyOf[n] : n \in Consumers} = 1..Position
  /\ \A m, n \in Consumers : replyOf[m] = replyOf[n] => m = n
  /\ \A m, n \in Consumers : m \in preceded[n] => replyOf[m] < replyOf[n]

LEMMA PositionType == ASSUME Types PROVE Position \in 0..Len(script) /\ Len(script) \in Nat
  BY DEF Types, Position

\* As many calls were served as items.
LEMMA ServingCounts ==
  ASSUME Types, Serving PROVE Cardinality(Consumers) = Position
  <1> DEFINE item == [n \in Consumers |-> replyOf[n]]
  <1>1. IsFiniteSet(1..Position) /\ Cardinality(1..Position) = Position
    BY PositionType, FS_Interval
  <1>2. item \in Surjection(Consumers, 1..Position)
    BY DEF Serving, Surjection
  <1>3. IsInjective(item)
    BY DEF Serving, IsInjective
  <1>4. item \in Injection(Consumers, 1..Position)
    BY <1>2, <1>3 DEF Injection, Surjection
  <1> HIDE DEF item
  <1> QED BY <1>1, <1>2, <1>4, FS_Injection

LEMMA ServingSuffices == Types /\ Serving => ScriptServedOnce
  BY ServingCounts DEF Serving, ScriptServedOnce

LEMMA ServingStarts == Init => Serving
  <1> SUFFICES ASSUME Init PROVE Serving
    OBVIOUS
  <1>1. Consumers = {} /\ Position = 0
    BY InitFacts DEF Init, Consumers, Count, Position
  <1>2. plan = "scripted" => replies = SubSeq(script, 1, Len(script))
    BY InitFacts, SubSeqFull
  <1> QED BY <1>1, <1>2, InitFacts DEF Serving

\* Take serves the next item, to a call that follows whatever was served before.
LEMMA TakeServes == ASSUME Bridged, Serving, NEW c \in Callers, Take(c) PROVE Serving'
  <1> DEFINE n == running[c]
             p == Position
  <1>1. /\ n \in 1..Count /\ replyOf[n] = 0 /\ outcome[n] = Unanswered
        /\ plan = "scripted" /\ plan' = "scripted" /\ replies # <<>>
        /\ replies' = Tail(replies) /\ UNCHANGED <<script, asked, preceded>>
    BY DEF Take, Ready, Answer, Bridged, Types, Occupied, Idle, bridge
  <1>2. /\ p = Len(script) - Len(replies) /\ p \in 0..Len(script) - 1
        /\ Len(script) \in Nat /\ Len(replies') = Len(replies) - 1 /\ Len(replies) \in Nat
    BY <1>1, PositionType DEF Position, Plans, Bridged, Types
  <1>3. Position' = p + 1
    BY <1>1, <1>2 DEF Position
  <1>4. replies' = SubSeq(script, p + 2, Len(script))
    <2>1. replies = SubSeq(script, p + 1, Len(script))
      BY <1>1 DEF Serving
    <2>2. Tail(SubSeq(script, p + 1, Len(script))) = SubSeq(script, (p + 1) + 1, Len(script))
      <3>1. script \in Seq(Responses) /\ p + 1 \in 1..Len(script)
            /\ Len(script) \in p + 1..Len(script)
        BY <1>2 DEF Bridged, Types
      <3> HIDE DEF p
      <3> QED BY <3>1, HeadTailOfSubSeq
    <2>3. (p + 1) + 1 = p + 2
      BY <1>2
    <2> QED BY <1>1, <2>1, <2>2, <2>3
  <1>5. /\ replyOf' = [replyOf EXCEPT ![n] = p + 1] /\ Count' = Count
        /\ replyOf \in Seq(Nat) /\ Len(replyOf) = Count
    BY <1>1, <1>2 DEF Take, Bridged, Types, Count
  <1>6. /\ replyOf'[n] = p + 1
        /\ \A m \in 1..Count : m # n => replyOf'[m] = replyOf[m]
    BY <1>1, <1>5
  <1>7. Consumers' = Consumers \cup {n} /\ n \notin Consumers /\ Consumers \subseteq 1..Count
    <2>1. Consumers \subseteq 1..Count /\ n \notin Consumers
      BY <1>1 DEF Consumers
    <2>2. p + 1 # 0
      BY <1>2
    <2>3. ASSUME NEW m \in 1..Count PROVE m \in Consumers' <=> m \in Consumers \/ m = n
      BY <1>1, <1>5, <1>6, <2>2 DEF Consumers
    <2>4. Consumers' \subseteq 1..Count
      BY <1>5 DEF Consumers
    <2> HIDE DEF n, p
    <2> QED BY <1>1, <2>1, <2>3, <2>4
  <1>8. \A m \in Consumers : replyOf[m] \in 1..p /\ replyOf'[m] = replyOf[m]
    BY <1>6, <1>7 DEF Serving
  <1>9. {replyOf'[m] : m \in Consumers'} = 1..p + 1
    <2>1. {replyOf'[m] : m \in Consumers'} = {replyOf[m] : m \in Consumers} \cup {p + 1}
      <3>1. {replyOf'[m] : m \in Consumers'} = {replyOf'[m] : m \in Consumers} \cup {replyOf'[n]}
        <4> HIDE DEF n, p
        <4> QED BY <1>7
      <3>2. {replyOf'[m] : m \in Consumers} = {replyOf[m] : m \in Consumers}
        BY <1>8
      <3> QED BY <1>6, <3>1, <3>2
    <2>2. (1..p) \cup {p + 1} = 1..p + 1
      BY <1>2
    <2> QED BY <2>1, <2>2 DEF Serving
  <1>10. ASSUME NEW k \in Consumers', NEW m \in Consumers', replyOf'[k] = replyOf'[m]
         PROVE  k = m
    <2> HIDE DEF n, p
    <2> QED BY <1>2, <1>6, <1>7, <1>8, <1>10 DEF Serving
  <1>11. ASSUME NEW k \in Consumers', NEW m \in Consumers', k \in preceded'[m]
         PROVE  replyOf'[k] < replyOf'[m]
    <2>1. outcome[k] # Unanswered
      BY <1>1, <1>5, <1>7, <1>11 DEF Bridged, Occupied
    <2>2. k # n /\ k \in Consumers
      BY <1>1, <1>7, <2>1
    <2>3. CASE m = n
      BY <1>2, <1>6, <1>8, <2>2, <2>3
    <2>4. CASE m # n
      BY <1>1, <1>7, <1>8, <1>11, <2>2, <2>4 DEF Serving
    <2> QED BY <2>3, <2>4
  <1> HIDE DEF n, p
  <1>12. replies' = SubSeq(script', Position' + 1, Len(script'))
    <2>1. Position' + 1 = p + 2
      BY <1>2, <1>3
    <2> QED BY <1>1, <1>4, <2>1
  <1>13. {replyOf'[m] : m \in Consumers'} = 1..Position'
    BY <1>3, <1>9
  <1>14. plan' # "fixed"
    BY <1>1
  <1> QED BY <1>10, <1>11, <1>12, <1>13, <1>14 DEF Serving

\* The other steps serve nothing; a call that is numbered has no reply yet.
LEMMA ServingStays ==
  ASSUME Bridged, Serving, UNCHANGED <<plan, script, replies>>,
         Count' \in {Count, Count + 1},
         \A n \in 1..Count : replyOf'[n] = replyOf[n] /\ preceded'[n] = preceded[n],
         Count' = Count + 1 => replyOf'[Count + 1] = 0
  PROVE  Serving'
  <1>1. Count \in Nat
    BY DEF Bridged, Types, Count
  <1>2. Consumers' = Consumers /\ Consumers \subseteq 1..Count
    <2>1. Consumers = {n \in 1..Count : replyOf[n] # 0}
      BY DEF Consumers
    <2>2. Consumers' = {n \in 1..Count' : replyOf'[n] # 0}
      BY DEF Consumers
    <2>3. CASE Count' = Count
      BY <2>1, <2>2, <2>3
    <2>4. CASE Count' = Count + 1
      <3>1. 1..Count' = (1..Count) \cup {Count + 1}
        BY <1>1, <2>4
      <3>2. ASSUME NEW n \in 1..Count' PROVE n \in Consumers' <=> n \in Consumers
        <4>1. CASE n \in 1..Count
          BY <2>1, <2>2, <3>1, <4>1
        <4>2. CASE n = Count + 1
          BY <1>1, <2>1, <2>2, <2>4, <4>2
        <4> QED BY <3>1, <3>2, <4>1, <4>2
      <3> QED BY <2>1, <2>2, <3>1, <3>2
    <2> QED BY <2>1, <2>3, <2>4
  <1>3. Position' = Position
    BY DEF Position
  <1>4. {replyOf'[n] : n \in Consumers'} = {replyOf[n] : n \in Consumers}
    <2>1. \A n \in Consumers : replyOf'[n] = replyOf[n]
      BY <1>2
    <2> QED BY <1>2, <2>1
  <1>5. /\ plan' = "fixed" => replies' = <<>>
        /\ plan' = "scripted" => replies' = SubSeq(script', Position' + 1, Len(script'))
    BY <1>3 DEF Serving
  <1>6. \A n \in Consumers' :
          n \in Consumers /\ replyOf'[n] = replyOf[n] /\ preceded'[n] = preceded[n]
    BY <1>2
  <1>7. ASSUME NEW m \in Consumers', NEW n \in Consumers'
        PROVE  /\ replyOf'[m] = replyOf'[n] => m = n
               /\ m \in preceded'[n] => replyOf'[m] < replyOf'[n]
    BY <1>6 DEF Serving
  <1>8. {replyOf'[n] : n \in Consumers'} = 1..Position'
    BY <1>3, <1>4 DEF Serving
  <1> QED BY <1>5, <1>7, <1>8 DEF Serving

LEMMA ServingStep == Bridged /\ Serving /\ [Next]_vars => Serving'
  <1> SUFFICES ASSUME Bridged, Serving, [Next]_vars PROVE Serving'
    OBVIOUS
  <1>1. ASSUME NEW c \in Callers, NEW method \in Methods, NEW r \in Requests,
               Record(c, method, r)
        PROVE  Serving'
    <2>1. /\ Count' = Count + 1 /\ UNCHANGED <<plan, script, replies>>
          /\ replyOf' = Append(replyOf, 0) /\ preceded' = Append(preceded, Returned)
          /\ replyOf \in Seq(Nat) /\ Len(replyOf) = Count
          /\ preceded \in Seq(SUBSET (1..Count)) /\ Len(preceded) = Count
      BY <1>1 DEF Record, Count, Bridged, Types, bridge
    <2>2. /\ replyOf'[Count + 1] = 0
          /\ \A n \in 1..Count : replyOf'[n] = replyOf[n] /\ preceded'[n] = preceded[n]
      BY <2>1
    <2> QED BY <2>1, <2>2, ServingStays
  <1>2. ASSUME UNCHANGED <<plan, script, replies, asked, replyOf, preceded>> PROVE Serving'
    BY <1>2, ServingStays DEF Count
  <1>3. ASSUME NEW c \in Callers, Refuse(c) \/ Exhausted(c) \/ Repeat(c)
        PROVE  UNCHANGED <<plan, script, replies, asked, replyOf, preceded>>
    BY <1>3 DEF Refuse, Exhausted, Repeat, Answer, bridge
  <1>4. ASSUME UNCHANGED vars \/ TakeRequests
        PROVE  UNCHANGED <<plan, script, replies, asked, replyOf, preceded>>
    BY <1>4 DEF vars, bridge, TakeRequests
  <1> QED BY <1>1, <1>2, <1>3, <1>4, TakeServes DEF Next

\* Under any interleaving of the callers no item of the script is lost or served
\* twice, what is left is the end of the script, and of two calls that do not
\* overlap the first gets the earlier item (next_response, under the lock of
\* the plan).
THEOREM ScriptIsServedOnce == Spec => []ScriptServedOnce
  <1>1. Spec => []Serving
    BY ServingStarts, ServingStep, BridgeTypes, PTL DEF Spec
  <1>2. Bridged /\ Serving => ScriptServedOnce
    BY ServingSuffices DEF Bridged
  <1> QED BY <1>1, <1>2, BridgeTypes, PTL
=============================================================================

--------------------------- MODULE StreamAssembler ---------------------------
(***************************************************************************)
(* One streaming call of the Rig adapter, from the bridge's stream() to    *)
(* the end of the stream it returns: the assembler that turns provider     *)
(* items into events (crates/armillae-llm-rig/src/stream.rs), behind the   *)
(* structured output gate (armillae-llm/src/structured.rs) and the         *)
(* observation of the invocation (observability.rs).                       *)
(*                                                                         *)
(* Everything happens in the consumer's polls.  A poll hands out a pending *)
(* event if there is one; otherwise it pulls items from the provider until *)
(* one makes events.  The provider sends whatever Items allows, fails or   *)
(* ends at any moment; the consumer drops the stream at any moment.        *)
(***************************************************************************)
EXTENDS Conversion, FiniteSets

CONSTANTS
  Atoms,           \* what texts, names and argument strings are made of
  Tools,           \* internal call ids: the keys that correlate tool items
  WireIds,         \* ids a provider gives to tool calls
  ReasoningIds,    \* ids a provider gives to reasoning
  Metas,           \* metadata of tool calls
  Items,           \* what the provider may send
  MaxItems,        \* bound: items taken from one stream
  SchemaObjects,   \* the JSON values that are objects of the schema, if one was requested
  KeepsSignatures  \* the provider takes signed reasoning back: anthropic

Texts == Seq(Atoms)
JsonValues == {Json[string] : string \in DOMAIN Json}
Reasonings ==
  [id : ReasoningIds \cup {Nil}, text : Texts, signed : BOOLEAN]
  \cup [id : ReasoningIds \cup {Nil}, text : {Nil}, signed : {FALSE}]

\* An id of the form "rig-t" or "rig-t-n" is <<t, 1>> or <<t, n>>.
GeneratedIds == Tools \X (Nat \ {0})
Ids == WireIds \cup GeneratedIds

\* StreamedAssistantContent, as Rig's accumulator hands it out.
ItemSet ==
  [type : {"Text"}, text : Texts, meta : BOOLEAN]
  \cup [type : {"ToolCallDelta"}, tool : Tools, part : {"name", "args"}, atom : Atoms]
  \cup [type : {"ToolCall"}, tool : Tools, name : Texts, args : JsonValues,
        wire : WireIds \cup {Nil}, meta : Metas \cup {Nil}]
  \cup [type : {"Reasoning"}, reasoning : Reasonings]
  \cup [type : {"ReasoningDelta"}, id : ReasoningIds \cup {Nil}, text : Texts]
  \cup [type : {"Final"}, usage : BOOLEAN, stop : BOOLEAN]
  \cup [type : {"Unknown"}]

TextStates == [index : Nat, text : Texts]
ReasoningStates == [index : Nat, id : ReasoningIds \cup {Nil}, text : Texts]
ToolStates ==
  [index : Nat, id : Ids \cup {Nil}, name : Texts, args : Texts, emitted : Nat,
   started : BOOLEAN, completed : BOOLEAN]

ASSUME ItemsAssumption == Items \subseteq ItemSet
ASSUME BoundAssumption == MaxItems \in Nat
ASSUME NilAssumption ==
  Nil \notin TextStates \cup ReasoningStates \cup Ids \cup {"ok", "error", "cancelled"}

VARIABLES
  asm,      \* the assembler: a record, one field for each of StreamState
  handle,   \* what the consumer holds: nothing yet, the stream, its end
  gate,     \* the structured output gate: none requested, open, or shut after
            \* it passed on a terminal item and dropped the stream
  record,   \* the terminal record of the invocation, Nil before it
  sent,     \* history: the items taken from the provider
  outcome,  \* history: what the consumer has been told
  event,    \* history: the last event it received
  blocks    \* history: what it has seen of the content

contractVars == <<outcome, event, blocks>>
vars == <<asm, handle, gate, record, sent, outcome, event, blocks>>

-----------------------------------------------------------------------------
(* The functions of StreamState, from a state to the next.                 *)

NewTool(i) ==
  [index |-> i, id |-> Nil, name |-> <<>>, args |-> <<>>, emitted |-> 0,
   started |-> FALSE, completed |-> FALSE]

NewState ==
  [pending |-> <<ResponseStarted>>, content |-> [i \in {} |-> Nil],
   tools |-> [t \in {} |-> Nil], used |-> {}, text |-> Nil, reasoning |-> Nil,
   next |-> 0, usage |-> FALSE, stop |-> FALSE, final |-> FALSE,
   finished |-> FALSE, failed |-> FALSE]

Emit(s, events) == [s EXCEPT !.pending = @ \o events]

\* allocate_content; the caller takes the index from s.next before.
Allocate(s, kind) ==
  [s EXCEPT !.next = @ + 1, !.pending = Append(@, ContentStarted(s.next, kind))]

\* A block of content is complete: its part is kept for the final response.
Close(s, i, part) ==
  [s EXCEPT !.content = Put(@, i, part), !.pending = Append(@, ContentCompleted(i))]

OpenText(s) ==
  IF s.text # Nil THEN s
  ELSE [Allocate(s, "Text") EXCEPT !.text = [index |-> s.next, text |-> <<>>]]

\* Defect: the block keeps the last delta only.
PushTextOver(s, text) ==
  LET opened == OpenText(s)
  IN  Emit([opened EXCEPT !.text.text = text], <<TextDelta(opened.text.index, text)>>)

PushText(s, text) ==
  LET opened == OpenText(s)
  IN  Emit([opened EXCEPT !.text.text = @ \o text],
           <<TextDelta(opened.text.index, text)>>)

\* Defect: the active block is looked at, not taken.
CloseTextAsRef(s) ==
  IF s.text = Nil THEN s ELSE Close(s, s.text.index, TextContent(s.text.text))

CloseText(s) ==
  IF s.text = Nil THEN s
  ELSE Close([s EXCEPT !.text = Nil], s.text.index, TextContent(s.text.text))

\* Reasoning as the provider's client builds it from accumulated deltas.
Reasoning(id, text) == [id |-> id, text |-> text, signed |-> FALSE]

CloseReasoning(s) ==
  IF s.reasoning = Nil THEN s
  ELSE Close([s EXCEPT !.reasoning = Nil], s.reasoning.index,
             DataContent("reasoning", Reasoning(s.reasoning.id, s.reasoning.text)))

OpenReasoning(s, id) ==
  IF s.reasoning # Nil THEN s
  ELSE [Allocate(s, "ProviderData") EXCEPT
          !.reasoning = [index |-> s.next, id |-> id, text |-> <<>>]]

\* Defect: the delta joins the open block, whatever its id.
PushReasoningAnyId(s, id, text) ==
  IF text = <<>> THEN s
  ELSE LET opened == OpenReasoning(s, id)
       IN  Emit([opened EXCEPT !.reasoning.text = @ \o text],
                <<ProviderEvent("reasoning_delta")>>)

PushReasoningDelta(s, id, text) ==
  IF text = <<>> THEN s
  ELSE LET closed == IF s.reasoning # Nil /\ s.reasoning.id # id
                     THEN CloseReasoning(s) ELSE s
           opened == OpenReasoning(closed, id)
       IN  Emit([opened EXCEPT !.reasoning.text = @ \o text],
                <<ProviderEvent("reasoning_delta")>>)

\* The complete item takes over the open block, whatever its id.
CompleteReasoning(s, r) ==
  IF s.reasoning = Nil /\ EmptyReasoning(r) THEN s
  ELSE LET opened == IF s.reasoning # Nil THEN s ELSE Allocate(s, "ProviderData")
           i == IF s.reasoning # Nil THEN s.reasoning.index ELSE s.next
       IN  Close(Emit([opened EXCEPT !.reasoning = Nil],
                      <<ProviderEvent("reasoning")>>),
                 i, DataContent("reasoning", r))

PushProviderContent(s, kind, value) ==
  Close(Emit(Allocate(s, "ProviderData"), <<ProviderEvent(kind)>>),
        s.next, DataContent(kind, value))

EnsureTool(s, t) ==
  IF t \in DOMAIN s.tools THEN s
  ELSE [Allocate(s, "ToolCall") EXCEPT !.tools = Put(@, t, NewTool(s.next))]

\* observe_tool_id: the id the tool keeps.  Contradicts is its error.
ObserveToolId(s, t, id) ==
  IF s.tools[t].id # Nil THEN s
  ELSE [s EXCEPT !.tools[t].id = id, !.used = @ \cup {id}]

\* Defect: the ids of the other tools are not looked at.
ContradictsOwn(s, t, id) == s.tools[t].id # Nil /\ s.tools[t].id # id

Contradicts(s, t, id) ==
  IF s.tools[t].id # Nil THEN s.tools[t].id # id ELSE id \in s.used

\* "rig-t", then "rig-t-2" and so on: the first the stream has not used.
Free(s, t) == {n \in 1..Cardinality(s.used) + 1 : <<t, n>> \notin s.used}

\* Defect: the search does not start again at the base.
GeneratedIdByCount(s, t) == <<t, Cardinality(s.used)>>

UniqueGeneratedId(s, t) ==
  <<t, CHOOSE n \in Free(s, t) : \A m \in Free(s, t) : n <= m>>

StartIfIdentified(s, t, name) ==
  IF s.tools[t].started \/ s.tools[t].id = Nil THEN s
  ELSE Emit([s EXCEPT !.tools[t].started = TRUE],
            <<ToolCallStarted(s.tools[t].index, s.tools[t].id, name)>>)

\* Defect: arguments do not wait for the call to be started.
FlushEarly(s, t) ==
  LET tool == s.tools[t]
      fragments == SubSeq(tool.args, tool.emitted + 1, Len(tool.args))
  IN  Emit([s EXCEPT !.tools[t].emitted = Len(tool.args)],
           [k \in DOMAIN fragments |->
              ToolCallArgumentsDelta(tool.index, <<fragments[k]>>)])

FlushArguments(s, t) ==
  LET tool == s.tools[t]
      fragments == SubSeq(tool.args, tool.emitted + 1, Len(tool.args))
  IN  IF ~tool.started THEN s
      ELSE Emit([s EXCEPT !.tools[t].emitted = Len(tool.args)],
                [k \in DOMAIN fragments |->
                   ToolCallArgumentsDelta(tool.index, <<fragments[k]>>)])

PushToolDelta(s, t, part, atom) ==
  LET known == EnsureTool(s, t)
      pushed == IF part = "name"
                THEN [known EXCEPT !.tools[t].name = Append(@, atom)]
                ELSE [known EXCEPT !.tools[t].args = Append(@, atom)]
  IN  FlushArguments(StartIfIdentified(pushed, t, Nil), t)

\* The id a complete call goes by: the provider's, or the one it has, or a
\* generated one.
Identify(s, item) ==
  IF item.wire # Nil THEN ObserveToolId(s, item.tool, item.wire)
  ELSE ObserveToolId(s, item.tool, UniqueGeneratedId(s, item.tool))

CallOf(s, item) ==
  [id |-> s.tools[item.tool].id, name |-> item.name, args |-> item.args]

CompleteTool(s, item) ==
  LET t == item.tool
      named == Identify(EnsureTool(s, t), item)
      flushed == FlushArguments(StartIfIdentified(named, t, item.name), t)
      i == flushed.tools[t].index
      call == CallOf(flushed, item)
      done == [Close(Emit(flushed, <<ToolCallCompleted(i, call)>>), i,
                     ToolContent(call)) EXCEPT !.tools[t].completed = TRUE]
  IN  IF item.meta = Nil THEN done
      ELSE PushProviderContent(done, "tool_call_metadata", item.meta)

\* The errors of push_tool_delta and complete_tool.
BadDelta(s, t) == t \in DOMAIN s.tools /\ s.tools[t].completed

BadCall(s, item) ==
  LET known == EnsureTool(s, item.tool)
      tool == known.tools[item.tool]
  IN  \/ tool.completed
      \/ item.wire # Nil /\ Contradicts(known, item.tool, item.wire)
      \/ tool.name # <<>> /\ tool.name # item.name
      \/ tool.args # <<>> /\ Parsed(tool.args) # item.args

-----------------------------------------------------------------------------
(* handle_item.                                                            *)

Rejects(s, item) ==
  \/ s.final
  \/ item.type = "ToolCallDelta" /\ BadDelta(s, item.tool)
  \/ item.type = "ToolCall" /\ BadCall(s, item)

Quiet(s) == CloseReasoning(CloseText(s))

Handle(s, item) ==
  CASE item.type = "Text" ->
         LET pushed == PushText(CloseReasoning(s), item.text)
         IN  IF item.meta THEN Emit(pushed, <<ProviderEvent("text_metadata")>>)
             ELSE pushed
    [] item.type = "ToolCallDelta" ->
         PushToolDelta(Quiet(s), item.tool, item.part, item.atom)
    [] item.type = "ToolCall" -> CompleteTool(Quiet(s), item)
    [] item.type = "Reasoning" -> CompleteReasoning(CloseText(s), item.reasoning)
    [] item.type = "ReasoningDelta" ->
         PushReasoningDelta(CloseText(s), item.id, item.text)
    [] item.type = "Final" ->
         [Quiet(s) EXCEPT !.usage = item.usage, !.stop = item.stop, !.final = TRUE]
    [] item.type = "Unknown" -> Emit(s, <<ProviderEvent("unknown_stream_item")>>)

Incomplete(s) ==
  \/ ~s.final
  \/ \E t \in DOMAIN s.tools : ~s.tools[t].completed
  \/ Cardinality(DOMAIN s.content) # s.next

FinishStream(s) ==
  LET content == [k \in 1..s.next |-> s.content[k - 1]]
      usage == IF s.usage THEN <<Usage>> ELSE <<>>
  IN  [Emit(s, usage \o <<ResponseCompleted(content, s.stop)>>) EXCEPT
         !.content = [i \in {} |-> Nil], !.finished = TRUE]

-----------------------------------------------------------------------------
(* OutputValidation::validate.                                             *)

Validates(response) ==
  /\ \A k \in DOMAIN response.content : response.content[k].kind # "ToolCall"
  /\ response.stop
  /\ Parsed(TextOf(response.content)) \in SchemaObjects

\* The gate lets e through.
Passes(e) ==
  gate # "none" /\ e.type = "ResponseCompleted" => Validates(e)

\* The gate once a terminal item has passed.
GateShut == IF gate = "none" THEN "none" ELSE "shut"

-----------------------------------------------------------------------------
(* The steps of the call.                                                  *)

\* Defect: the last record wins.
LastRecord(r) == r

\* The observation keeps the first terminal record and ignores the rest.
FirstRecord(r) == IF record = Nil THEN r ELSE record

Init ==
  /\ asm = NewState
  /\ handle = "calling"
  /\ gate \in {"none", "open"}
  /\ record = Nil
  /\ sent = <<>>
  /\ outcome = "idle"
  /\ event = Nil
  /\ blocks = NoBlocks

\* stream() resolves to a stream.
Connect ==
  /\ handle = "calling"
  /\ handle' = "open"
  /\ outcome' = "open"
  /\ UNCHANGED <<asm, gate, record, sent, event, blocks>>

\* stream() resolves to an error: of the schema, the projection or the model.
ConnectFails ==
  /\ handle = "calling"
  /\ handle' = "over"
  /\ outcome' = "failed"
  /\ record' = FirstRecord("error")
  /\ UNCHANGED <<asm, gate, sent, event, blocks>>

\* A poll that finds no pending event turns to the provider.
Pulling ==
  /\ handle = "open"
  /\ gate # "shut"
  /\ asm.pending = <<>>
  /\ ~asm.finished
  /\ ~asm.failed

\* What is pending is lost; the consumer receives StreamInterrupted.
Interrupt ==
  /\ asm' = [asm EXCEPT !.pending = <<>>, !.failed = TRUE]
  /\ gate' = GateShut
  /\ outcome' = "failed"
  /\ record' = FirstRecord("error")
  /\ UNCHANGED <<handle, event, blocks>>

Pull(item) ==
  /\ Pulling
  /\ Len(sent) < MaxItems
  /\ sent' = Append(sent, item)
  /\ ~Rejects(asm, item)
  /\ asm' = Handle(asm, item)
  /\ UNCHANGED <<handle, gate, record, contractVars>>

\* The items after the terminal one are errors of completion_stream's own map;
\* they end the same way.
PullBad(item) ==
  /\ Pulling
  /\ Len(sent) < MaxItems
  /\ sent' = Append(sent, item)
  /\ Rejects(asm, item)
  /\ Interrupt

ProviderFails ==
  /\ Pulling
  /\ Interrupt
  /\ UNCHANGED sent

ProviderEnds ==
  /\ Pulling
  /\ ~Incomplete(asm)
  /\ asm' = FinishStream(asm)
  /\ UNCHANGED <<handle, gate, record, sent, contractVars>>

ProviderEndsEarly ==
  /\ Pulling
  /\ Incomplete(asm)
  /\ Interrupt
  /\ UNCHANGED sent

Delivering(e) ==
  /\ handle = "open"
  /\ gate # "shut"
  /\ asm.pending # <<>>
  /\ e = Head(asm.pending)
  /\ asm' = [asm EXCEPT !.pending = Tail(@)]
  /\ UNCHANGED <<handle, sent>>

Deliver ==
  LET e == Head(asm.pending)
  IN  /\ Delivering(e)
      /\ e.type # "ResponseCompleted"
      /\ event' = e
      /\ blocks' = Observe(blocks, e)
      /\ UNCHANGED <<gate, record, outcome>>

DeliverResponse ==
  LET e == Head(asm.pending)
  IN  /\ Delivering(e)
      /\ e.type = "ResponseCompleted"
      /\ Passes(e)
      /\ event' = e
      /\ outcome' = "completed"
      /\ record' = FirstRecord("ok")
      /\ gate' = GateShut
      /\ UNCHANGED blocks

\* The gate turns the final response into an error.
RefuseResponse ==
  LET e == Head(asm.pending)
  IN  /\ Delivering(e)
      /\ ~Passes(e)
      /\ outcome' = "failed"
      /\ record' = FirstRecord("error")
      /\ gate' = "shut"
      /\ UNCHANGED <<event, blocks>>

\* Defect: a failed stream is polled on.
EndFinished ==
  /\ handle = "open"
  /\ asm.pending = <<>> /\ asm.finished
  /\ handle' = "over"
  /\ record' = FirstRecord("cancelled")
  /\ UNCHANGED <<asm, gate, sent, contractVars>>

\* The poll that answers None.  (The gate's own StreamInterrupted, for an inner
\* stream that ends without a terminal item, needs a different inner stream.)
End ==
  /\ handle = "open"
  /\ gate = "shut" \/ (asm.pending = <<>> /\ (asm.finished \/ asm.failed))
  /\ handle' = "over"
  /\ record' = FirstRecord("cancelled")
  /\ UNCHANGED <<asm, gate, sent, contractVars>>

\* The consumer drops the future of stream(), or the stream.
Drop ==
  /\ handle \in {"calling", "open"}
  /\ handle' = "dropped"
  /\ record' = FirstRecord("cancelled")
  /\ UNCHANGED <<asm, gate, sent, contractVars>>

Provide ==
  \/ \E item \in Items : Pull(item) \/ PullBad(item)
  \/ ProviderFails \/ ProviderEnds \/ ProviderEndsEarly

Poll == Deliver \/ DeliverResponse \/ RefuseResponse \/ End

Next == Connect \/ ConnectFails \/ Provide \/ Poll \/ Drop

Spec == Init /\ [][Next]_vars

\* The request is answered, the consumer keeps polling, and the provider
\* sends, fails or ends.
FairSpec ==
  /\ Spec
  /\ WF_vars(Connect \/ ConnectFails)
  /\ WF_vars(Provide)
  /\ WF_vars(Poll)

-----------------------------------------------------------------------------
(* Properties.                                                             *)

Fields == DOMAIN NewState

AssistantParts ==
  [kind : {"Text"}, text : Texts]
  \cup [kind : {"ToolCall"}, call : [id : Ids, name : Texts, args : JsonValues]]
  \cup [kind : {"ProviderData"}, data : {"reasoning"}, value : Reasonings]
  \cup [kind : {"ProviderData"}, data : {"tool_call_metadata"}, value : Metas]

Previews ==
  {ResponseStarted, Usage}
  \cup [type : {"ContentStarted"}, index : Nat, kind : Kinds]
  \cup [type : {"TextDelta"}, index : Nat, text : Texts]
  \cup [type : {"ToolCallStarted"}, index : Nat, id : Ids, name : Texts \cup {Nil}]
  \cup [type : {"ToolCallArgumentsDelta"}, index : Nat, fragment : Texts]
  \cup [type : {"ToolCallCompleted"}, index : Nat,
        call : [id : Ids, name : Texts, args : JsonValues]]
  \cup [type : {"ContentCompleted"}, index : Nat]
  \cup [type : {"ProviderEvent"},
        kind : {"text_metadata", "reasoning_delta", "reasoning",
                "tool_call_metadata", "unknown_stream_item"}]

Responses ==
  [type : {"ResponseCompleted"}, content : Seq(AssistantParts), stop : BOOLEAN]

\* No event and no tool call is the absence of one.
ASSUME EventAssumption ==
  Nil \notin Previews \cup Responses \cup [id : Ids, name : Texts, args : JsonValues]

Typed(s) ==
  /\ DOMAIN s = Fields
  /\ s.pending \in Seq(Previews \cup Responses)
  /\ DOMAIN s.content \subseteq Nat
  /\ \A i \in DOMAIN s.content : s.content[i] \in AssistantParts
  /\ DOMAIN s.tools \subseteq Tools
  /\ \A t \in DOMAIN s.tools : s.tools[t] \in ToolStates
  /\ s.used \subseteq Ids
  /\ s.text \in TextStates \cup {Nil}
  /\ s.reasoning \in ReasoningStates \cup {Nil}
  /\ s.next \in Nat
  /\ {s.usage, s.stop, s.final, s.finished, s.failed} \subseteq BOOLEAN

(* The type invariant: in particular only complete calls with an id and parts
   of the three kinds reach the content of a response. *)
TypeOK ==
  /\ Typed(asm)
  /\ handle \in {"calling", "open", "over", "dropped"}
  /\ gate \in {"none", "open", "shut"}
  /\ record \in {Nil, "ok", "error", "cancelled"}
  /\ outcome \in {"idle", "open", "completed", "failed"}
  /\ sent \in Seq(Items)

(* What the consumer sees is a well-formed stream, whatever the provider
   sends and whenever it stops: every event is one the blocks allow, the final
   response is what the events showed, and nothing follows an error or the
   final response. *)
Contract == INSTANCE StreamContract
RefinesContract == Contract!Spec

OpenIndexes(s) ==
  (IF s.text = Nil THEN {} ELSE {s.text.index}) \cup
  (IF s.reasoning = Nil THEN {} ELSE {s.reasoning.index})

ToolIndexes(s) ==
  {s.tools[t].index : t \in {u \in DOMAIN s.tools : ~s.tools[u].completed}}

Partitioned(s) ==
  /\ DOMAIN s.content \cup OpenIndexes(s) \cup ToolIndexes(s) = 0..s.next - 1
  /\ DOMAIN s.content \cap (OpenIndexes(s) \cup ToolIndexes(s)) = {}
  /\ OpenIndexes(s) \cap ToolIndexes(s) = {}
  /\ s.text = Nil \/ s.reasoning = Nil
  /\ \A t, u \in DOMAIN s.tools :
       t # u => s.tools[t].index # s.tools[u].index

(* Every content index handed out is in exactly one place: kept as complete,
   open as text or reasoning, or held by one tool call that is not complete.
   finish_stream relies on it when it takes the content out by index. *)
IndexesPartitioned == ~asm.finished => Partitioned(asm)

Distinct(s) ==
  /\ \A t, u \in DOMAIN s.tools :
       t # u /\ s.tools[t].id # Nil => s.tools[t].id # s.tools[u].id
  /\ \A t \in DOMAIN s.tools : s.tools[t].id \in s.used \cup {Nil}

(* No two tool calls of a response share an id, although some ids are the
   provider's and some are generated, in any order, and a provider may use an
   id of the generated form. *)
UniqueIds == Distinct(asm)

(* The invocation leaves one terminal record and it says what the consumer was
   told: ok when the response was delivered, error when an error was, cancelled
   when the consumer let go before either. *)
RecordMatchesOutcome ==
  /\ (record = "ok") = (outcome = "completed")
  /\ (record = "error") = (outcome = "failed")
  /\ (record = "cancelled") =
       (handle \in {"over", "dropped"} /\ outcome \in {"idle", "open"})

(* A response is only delivered when it is whole: the text is all the text
   sent, in order, and every tool of which anything was sent has one call, with
   the name and arguments of its complete item. *)
TextSent ==
  FoldLeft(LAMBDA text, item :
             IF item.type = "Text" THEN text \o item.text ELSE text, <<>>, sent)

ToolsSent ==
  {sent[k].tool : k \in {j \in DOMAIN sent :
                           sent[j].type \in {"ToolCall", "ToolCallDelta"}}}

CallsIn(content) ==
  {k \in DOMAIN content : content[k].kind = "ToolCall"}

NothingLost ==
  outcome = "completed" =>
    /\ TextOf(event.content) = TextSent
    /\ Cardinality(CallsIn(event.content)) = Cardinality(ToolsSent)
    /\ \A t \in ToolsSent : \E k \in CallsIn(event.content), j \in DOMAIN sent :
         /\ sent[j].type = "ToolCall" /\ sent[j].tool = t
         /\ asm.tools[t].id = event.content[k].call.id
         /\ sent[j].name = event.content[k].call.name
         /\ sent[j].args = event.content[k].call.args

(* The response the same provider would have given without streaming, as
   parts: deltas joined, complete items in their place.  A gap ends what was
   open. *)
Gap == [type |-> "Gap"]

ThinkingPart(id, text) == [type |-> "Thinking", id |-> id, text |-> text]

Extend(parts, item) ==
  LET last == IF parts = <<>> THEN Gap ELSE Last(parts)
      Instead(part) == Append(Front(parts), part)
      And(part) == Append(parts, part)
      TextEnded == IF last.type = "Text" THEN And(Gap) ELSE parts
  IN  CASE item.type = "Text" ->
             IF last.type = "Text"
             THEN Instead(RigText(last.text \o item.text, last.meta \/ item.meta))
             ELSE And(RigText(item.text, item.meta))
        [] item.type = "ToolCallDelta" -> And(Gap)
        [] item.type = "ToolCall" ->
             And(RigCall([id |-> item.wire, name |-> item.name, args |-> item.args],
                         item.meta))
        [] item.type = "ReasoningDelta" ->
             IF item.text = <<>> THEN TextEnded
             ELSE IF last.type = "Thinking" /\ last.id = item.id
             THEN Instead(ThinkingPart(item.id, last.text \o item.text))
             ELSE And(ThinkingPart(item.id, item.text))
        [] item.type = "Reasoning" ->
             IF last.type = "Thinking" THEN Instead(RigReasoning(item.reasoning))
             ELSE IF EmptyReasoning(item.reasoning) THEN TextEnded
             ELSE And(RigReasoning(item.reasoning))
        [] OTHER -> parts

Parts(items) == FoldLeft(Extend, <<>>, items)

Whole(items) ==
  FoldLeft(LAMBDA choice, part :
             CASE part.type = "Thinking" ->
                    Append(choice, RigReasoning(Reasoning(part.id, part.text)))
               [] part.type = "Gap" -> choice
               [] OTHER -> Append(choice, part),
           <<>>, Parts(items))

(* The items of each tool call come in one run. *)
OfTool(item, t) == item.type \in {"ToolCall", "ToolCallDelta"} /\ item.tool = t

OneAtATime(items) ==
  \A i, j \in DOMAIN items, t \in Tools :
    (i < j /\ OfTool(items[i], t) /\ OfTool(items[j], t))
    => \A k \in i..j : OfTool(items[k], t) \/ items[k].type = "Unknown"

(* A complete reasoning item repeats the deltas it completes. *)
Repeats(items) ==
  \A j \in DOMAIN items :
    items[j].type = "Reasoning" =>
      LET before == Parts(SubSeq(items, 1, j - 1))
      IN  before # <<>> /\ Last(before).type = "Thinking" =>
            /\ Last(before).id = items[j].reasoning.id
            /\ Last(before).text = items[j].reasoning.text

(* From a provider that sends one thing at a time, does not contradict itself
   and gives every call an id, the streamed response has the structure of the
   one it gives in one piece (.agents/specs/llm-bridge.md:925). *)
StreamedEqualsWhole ==
  (/\ outcome = "completed"
   /\ OneAtATime(sent) /\ Repeats(sent)
   /\ \A k \in DOMAIN sent : sent[k].type = "ToolCall" => sent[k].wire # Nil)
  => event.content = AssistantContentFromRig(Whole(sent))

(* Replay puts the metadata of each call of a recorded response back on that
   call, if its reasoning can be replayed at all (.agents/specs/llm-bridge.md,
   9.3: tool call metadata can be restored into the next request). *)
MetaSent(call) ==
  LET k == CHOOSE j \in DOMAIN sent :
             /\ sent[j].type = "ToolCall"
             /\ asm.tools[sent[j].tool].id = call.id
  IN  sent[k].meta

Restored ==
  LET replay == Replay(KeepsSignatures, event.content)
  IN  (\A part \in Range(event.content) :
         part.kind = "ProviderData" /\ part.data = "reasoning"
           => Replayable(KeepsSignatures, part.value)) =>
      /\ replay.verdict = "Ok"
      /\ \A k \in DOMAIN replay.rig :
           replay.rig[k].type = "ToolCall" =>
             replay.rig[k].meta = MetaSent(replay.rig[k].call)

MetadataFollowsItsCall == outcome = "completed" => Restored

(* It does when the provider sends one call at a time. *)
MetadataRestoredInTurn == outcome = "completed" /\ OneAtATime(sent) => Restored

(* A call that is polled comes to its end: after a connection, any number of
   items up to the bound, and a failure or a response, the stream is over. *)
EveryStreamEnds == <>(handle \in {"over", "dropped"})
=============================================================================

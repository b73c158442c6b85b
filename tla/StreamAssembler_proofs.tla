----------------------- MODULE StreamAssembler_proofs -----------------------
(***************************************************************************)
(* Theorems about StreamAssembler: types, the accounting of content        *)
(* indexes, the uniqueness of tool call ids, the terminal record, the      *)
(* refinement of StreamContract, and that nothing sent is lost.            *)
(***************************************************************************)
EXTENDS StreamAssembler, SequenceFacts, FiniteSetTheorems

-----------------------------------------------------------------------------
(* Records: what an update of the assembler changes.                       *)

Same(r, s, changed) ==
  /\ DOMAIN r = Fields
  /\ \A f \in Fields \ changed : r[f] = s[f]

(* The fields of an assembler. *)
LEMMA FieldsAre ==
  Fields = {"pending", "content", "tools", "used", "text", "reasoning", "next",
            "usage", "stop", "final", "finished", "failed"}
BY DEF Fields, NewState

(* Emit adds events and touches nothing else. *)
LEMMA EmitIs ==
  ASSUME NEW s, DOMAIN s = Fields, NEW events
  PROVE  /\ Same(Emit(s, events), s, {"pending"})
         /\ Emit(s, events).pending = s.pending \o events
BY FieldsAre DEF Emit, Same

(* Allocate announces the next index and moves past it. *)
LEMMA AllocateIs ==
  ASSUME NEW s, DOMAIN s = Fields, NEW kind
  PROVE  /\ Same(Allocate(s, kind), s, {"pending", "next"})
         /\ Allocate(s, kind).next = s.next + 1
         /\ Allocate(s, kind).pending = Append(s.pending, ContentStarted(s.next, kind))
BY FieldsAre DEF Allocate, Same

(* Close keeps a part under its index and announces it. *)
LEMMA CloseIs ==
  ASSUME NEW s, DOMAIN s = Fields, NEW i, NEW part
  PROVE  /\ Same(Close(s, i, part), s, {"pending", "content"})
         /\ Close(s, i, part).content = Put(s.content, i, part)
         /\ Close(s, i, part).pending = Append(s.pending, ContentCompleted(i))
BY FieldsAre DEF Close, Same

(* Put maps one key and leaves the others. *)
LEMMA PutIs ==
  ASSUME NEW f, NEW x, NEW y
  PROVE  /\ DOMAIN Put(f, x, y) = DOMAIN f \cup {x}
         /\ Put(f, x, y)[x] = y
         /\ \A z \in DOMAIN f : z # x => Put(f, x, y)[z] = f[z]
BY DEF Put

-----------------------------------------------------------------------------
(* Events are well typed.                                                  *)

(* Every event built from typed data is one the types list. *)
LEMMA EventTypes ==
  ASSUME NEW i \in Nat
  PROVE  /\ \A kind \in Kinds : ContentStarted(i, kind) \in Previews
         /\ \A text \in Texts : TextDelta(i, text) \in Previews
         /\ \A id \in Ids, name \in Texts \cup {Nil} :
              ToolCallStarted(i, id, name) \in Previews
         /\ \A fragment \in Texts : ToolCallArgumentsDelta(i, fragment) \in Previews
         /\ \A call \in [id : Ids, name : Texts, args : JsonValues] :
              ToolCallCompleted(i, call) \in Previews
         /\ ContentCompleted(i) \in Previews
<1>1. \A kind \in Kinds : ContentStarted(i, kind) \in Previews
  BY DEF Previews, ContentStarted
<1>2. \A text \in Texts : TextDelta(i, text) \in Previews
  BY DEF Previews, TextDelta
<1>3. \A id \in Ids, name \in Texts \cup {Nil} :
        ToolCallStarted(i, id, name) \in Previews
  BY DEF Previews, ToolCallStarted
<1>4. \A fragment \in Texts : ToolCallArgumentsDelta(i, fragment) \in Previews
  BY DEF Previews, ToolCallArgumentsDelta
<1>5. \A call \in [id : Ids, name : Texts, args : JsonValues] :
        ToolCallCompleted(i, call) \in Previews
  BY DEF Previews, ToolCallCompleted
<1>6. ContentCompleted(i) \in Previews
  BY DEF Previews, ContentCompleted
<1> QED BY <1>1, <1>2, <1>3, <1>4, <1>5, <1>6

(* So is every notice of provider data. *)
LEMMA NoticeTypes ==
  ASSUME NEW kind \in {"text_metadata", "reasoning_delta", "reasoning",
                       "tool_call_metadata", "unknown_stream_item"}
  PROVE  ProviderEvent(kind) \in Previews
BY DEF Previews, ProviderEvent

(* Every part built from typed data is one a response may have. *)
LEMMA PartTypes ==
  /\ \A text \in Texts : TextContent(text) \in AssistantParts
  /\ \A call \in [id : Ids, name : Texts, args : JsonValues] :
       ToolContent(call) \in AssistantParts
  /\ \A r \in Reasonings : DataContent("reasoning", r) \in AssistantParts
  /\ \A meta \in Metas : DataContent("tool_call_metadata", meta) \in AssistantParts
BY DEF AssistantParts, TextContent, ToolContent, DataContent

-----------------------------------------------------------------------------
(* The state of an assembler between the functions a handler calls: the    *)
(* indexes in hand have been allocated and not yet put anywhere.           *)

Owned(s, hand) ==
  /\ DOMAIN s.content \cup OpenIndexes(s) \cup ToolIndexes(s) \cup hand
       = 0..s.next - 1
  /\ DOMAIN s.content \cap (OpenIndexes(s) \cup ToolIndexes(s) \cup hand) = {}
  /\ OpenIndexes(s) \cap (ToolIndexes(s) \cup hand) = {}
  /\ ToolIndexes(s) \cap hand = {}
  /\ s.text = Nil \/ s.reasoning = Nil
  /\ \A t, u \in DOMAIN s.tools :
       t # u => s.tools[t].index # s.tools[u].index
  /\ \A t \in DOMAIN s.tools : s.tools[t].index \in 0..s.next - 1

Ready(s, hand) ==
  /\ Typed(s)
  /\ s.pending \in Seq(Previews)
  /\ IsFiniteSet(s.used)
  /\ Owned(s, hand)
  /\ Distinct(s)

(* The open indexes depend on the two open blocks only. *)
LEMMA OpenSame ==
  ASSUME NEW r, NEW s, r.text = s.text, r.reasoning = s.reasoning
  PROVE  OpenIndexes(r) = OpenIndexes(s)
BY DEF OpenIndexes

(* The indexes held by tools depend on the tools only. *)
LEMMA ToolsSame ==
  ASSUME NEW r, NEW s, r.tools = s.tools
  PROVE  ToolIndexes(r) = ToolIndexes(s)
BY DEF ToolIndexes

(* Previews are among the events of a stream. *)
LEMMA SeqMonotone ==
  ASSUME NEW q \in Seq(Previews)
  PROVE  q \in Seq(Previews \cup Responses)
OBVIOUS

(* One more preview. *)
LEMMA PreviewsAppend ==
  ASSUME NEW q \in Seq(Previews), NEW e \in Previews
  PROVE  /\ Append(q, e) \in Seq(Previews)
         /\ Append(q, e) \in Seq(Previews \cup Responses)
<1>1. Append(q, e) \in Seq(Previews)
  OBVIOUS
<1> QED BY <1>1, SeqMonotone DEF Responses

(* Only the pending events change. *)
LEMMA PendingReady ==
  ASSUME NEW s, NEW hand, Ready(s, hand), NEW r, Same(r, s, {"pending"}),
         r.pending \in Seq(Previews)
  PROVE  Ready(r, hand)
<1>1. /\ DOMAIN r = Fields /\ r.content = s.content /\ r.tools = s.tools
      /\ r.used = s.used /\ r.text = s.text /\ r.reasoning = s.reasoning
      /\ r.next = s.next /\ r.usage = s.usage /\ r.stop = s.stop
      /\ r.final = s.final /\ r.finished = s.finished /\ r.failed = s.failed
  BY FieldsAre DEF Same
<1>2. OpenIndexes(r) = OpenIndexes(s) /\ ToolIndexes(r) = ToolIndexes(s)
  BY <1>1, OpenSame, ToolsSame
<1>3. r.pending \in Seq(Previews \cup Responses)
  BY SeqMonotone
<1>4. Typed(r)
  BY <1>1, <1>3 DEF Ready, Typed
<1>5. Owned(r, hand)
  BY <1>1, <1>2 DEF Ready, Owned
<1>6. Distinct(r)
  BY <1>1 DEF Ready, Distinct
<1> QED BY <1>1, <1>4, <1>5, <1>6 DEF Ready

(* emit: nothing in hand changes. *)
LEMMA EmitReady ==
  ASSUME NEW s, NEW hand, Ready(s, hand), NEW events \in Seq(Previews)
  PROVE  /\ Ready(Emit(s, events), hand)
         /\ Same(Emit(s, events), s, {"pending"})
<1>1. DOMAIN s = Fields /\ s.pending \in Seq(Previews)
  BY DEF Ready, Typed
<1>2. /\ Same(Emit(s, events), s, {"pending"})
      /\ Emit(s, events).pending = s.pending \o events
  BY <1>1, EmitIs
<1>3. s.pending \o events \in Seq(Previews)
  BY <1>1
<1> QED BY <1>2, <1>3, PendingReady

(* allocate_content: the new index is in hand. *)
LEMMA AllocateReady ==
  ASSUME NEW s, Ready(s, {}), NEW kind \in Kinds
  PROVE  /\ Ready(Allocate(s, kind), {s.next})
         /\ Same(Allocate(s, kind), s, {"pending", "next"})
         /\ Allocate(s, kind).next = s.next + 1
<1> DEFINE r == Allocate(s, kind)
<1>1. DOMAIN s = Fields /\ s.next \in Nat /\ s.pending \in Seq(Previews)
  BY DEF Ready, Typed
<1>2. /\ Same(r, s, {"pending", "next"}) /\ r.next = s.next + 1
      /\ r.pending = Append(s.pending, ContentStarted(s.next, kind))
  BY <1>1, AllocateIs
<1>3. /\ DOMAIN r = Fields /\ r.content = s.content /\ r.tools = s.tools
      /\ r.used = s.used /\ r.text = s.text /\ r.reasoning = s.reasoning
      /\ r.usage = s.usage /\ r.stop = s.stop
      /\ r.final = s.final /\ r.finished = s.finished /\ r.failed = s.failed
  BY <1>2, FieldsAre DEF Same
<1>4. OpenIndexes(r) = OpenIndexes(s) /\ ToolIndexes(r) = ToolIndexes(s)
  BY <1>3, OpenSame, ToolsSame
<1>5. r.pending \in Seq(Previews) /\ r.pending \in Seq(Previews \cup Responses)
  BY <1>1, <1>2, EventTypes, PreviewsAppend
<1>6. Typed(r)
  BY <1>1, <1>2, <1>3, <1>5 DEF Ready, Typed
<1>7. Owned(r, {s.next})
  <2>1. 0..r.next - 1 = 0..s.next - 1 \cup {s.next}
    BY <1>1, <1>2
  <2>2. s.next \notin 0..s.next - 1
    BY <1>1
  <2>3. Owned(s, {})
    BY DEF Ready
  <2>4. DOMAIN s.content \cup OpenIndexes(s) \cup ToolIndexes(s) = 0..s.next - 1
    BY <2>3 DEF Owned
  <2> HIDE DEF r
  <2> QED BY <1>3, <1>4, <2>1, <2>2, <2>3, <2>4 DEF Owned
<1>8. Distinct(r) /\ IsFiniteSet(r.used)
  BY <1>3 DEF Ready, Distinct
<1> QED BY <1>2, <1>5, <1>6, <1>7, <1>8 DEF Ready

(* A part is kept under the index in hand, which leaves none in hand. *)
LEMMA CloseReady ==
  ASSUME NEW s, NEW i \in Nat, Ready(s, {i}), NEW part \in AssistantParts
  PROVE  /\ Ready(Close(s, i, part), {})
         /\ Same(Close(s, i, part), s, {"pending", "content"})
<1> DEFINE r == Close(s, i, part)
<1>1. DOMAIN s = Fields /\ s.pending \in Seq(Previews)
  BY DEF Ready, Typed
<1>2. /\ Same(r, s, {"pending", "content"}) /\ r.content = Put(s.content, i, part)
      /\ r.pending = Append(s.pending, ContentCompleted(i))
  BY <1>1, CloseIs
<1>3. /\ DOMAIN r = Fields /\ r.tools = s.tools /\ r.next = s.next
      /\ r.used = s.used /\ r.text = s.text /\ r.reasoning = s.reasoning
      /\ r.usage = s.usage /\ r.stop = s.stop
      /\ r.final = s.final /\ r.finished = s.finished /\ r.failed = s.failed
  BY <1>2, FieldsAre DEF Same
<1>4. OpenIndexes(r) = OpenIndexes(s) /\ ToolIndexes(r) = ToolIndexes(s)
  BY <1>3, OpenSame, ToolsSame
<1>5. r.pending \in Seq(Previews) /\ r.pending \in Seq(Previews \cup Responses)
  BY <1>1, <1>2, EventTypes, PreviewsAppend
<1>6. /\ DOMAIN r.content = DOMAIN s.content \cup {i}
      /\ \A j \in DOMAIN r.content : r.content[j] \in AssistantParts
  <2>1. \A j \in DOMAIN s.content : s.content[j] \in AssistantParts
    BY DEF Ready, Typed
  <2> HIDE DEF r
  <2> QED BY <1>2, <2>1 DEF Put
<1> HIDE DEF r
<1>7. Typed(r)
  BY <1>1, <1>3, <1>5, <1>6 DEF Ready, Typed
<1>8. Owned(r, {})
  BY <1>3, <1>4, <1>6 DEF Ready, Owned
<1>9. Distinct(r) /\ IsFiniteSet(r.used)
  BY <1>3 DEF Ready, Distinct
<1> QED BY <1>2, <1>5, <1>7, <1>8, <1>9 DEF Ready, r

(* Only the open blocks change. *)
LEMMA BlocksReady ==
  ASSUME NEW s, NEW hand, Ready(s, hand), NEW r, Same(r, s, {"text", "reasoning"}),
         r.text \in TextStates \cup {Nil}, r.reasoning \in ReasoningStates \cup {Nil},
         NEW left, Owned(r, left)
  PROVE  Ready(r, left)
<1>1. /\ DOMAIN r = Fields /\ r.content = s.content /\ r.tools = s.tools
      /\ r.used = s.used /\ r.pending = s.pending
      /\ r.next = s.next /\ r.usage = s.usage /\ r.stop = s.stop
      /\ r.final = s.final /\ r.finished = s.finished /\ r.failed = s.failed
  BY FieldsAre DEF Same
<1>2. Typed(r)
  BY <1>1 DEF Ready, Typed
<1>3. Distinct(r)
  BY <1>1 DEF Ready, Distinct
<1> QED BY <1>1, <1>2, <1>3 DEF Ready

-----------------------------------------------------------------------------
(* Text blocks.                                                            *)

(* An open text block is typed. *)
LEMMA TextIndex ==
  ASSUME NEW s, NEW hand, Ready(s, hand), s.text # Nil
  PROVE  s.text \in TextStates /\ s.text.index \in Nat /\ s.text.text \in Texts
<1>1. s.text \in TextStates
  BY DEF Ready, Typed
<1> QED BY <1>1 DEF TextStates

(* Opening text puts the new index into the text block. *)
LEMMA OpenTextReady ==
  ASSUME NEW s, Ready(s, {}), s.reasoning = Nil
  PROVE  /\ Ready(OpenText(s), {})
         /\ Same(OpenText(s), s, {"pending", "next", "text"})
         /\ OpenText(s).text \in TextStates
<1>1. CASE s.text # Nil
  <2>1. OpenText(s) = s
    BY <1>1 DEF OpenText
  <2>2. DOMAIN s = Fields
    BY DEF Ready, Typed
  <2> QED BY <1>1, <2>1, <2>2, TextIndex DEF Same
<1>2. CASE s.text = Nil
  <2> DEFINE a == Allocate(s, "Text")
             block == [index |-> s.next, text |-> <<>>]
             r == OpenText(s)
  <2>1. /\ Ready(a, {s.next}) /\ Same(a, s, {"pending", "next"})
        /\ a.next = s.next + 1
    BY AllocateReady DEF Kinds
  <2>2. r = [a EXCEPT !.text = block]
    BY <1>2 DEF OpenText
  <2>3. DOMAIN a = Fields
    BY <2>1 DEF Same
  <2> HIDE DEF a
  <2>4. Same(r, a, {"text"}) /\ r.text = block
    BY <2>2, <2>3, FieldsAre DEF Same
  <2>5. block \in TextStates /\ block # Nil /\ block.index = s.next
    <3>1. s.next \in Nat
      BY DEF Ready, Typed
    <3>2. block \in TextStates
      BY <3>1 DEF TextStates, Texts
    <3> QED BY <3>2, NilAssumption
  <2>6. a.text = Nil /\ a.reasoning = Nil
    BY <1>2, <2>1, FieldsAre DEF Same
  <2> HIDE DEF r, block
  <2>7. /\ r.content = a.content /\ r.tools = a.tools /\ r.next = a.next
        /\ r.reasoning = Nil
    BY <2>4, <2>6, FieldsAre DEF Same
  <2>8. OpenIndexes(a) = {} /\ OpenIndexes(r) = {s.next}
    BY <2>4, <2>5, <2>6, <2>7 DEF OpenIndexes
  <2>9. ToolIndexes(r) = ToolIndexes(a)
    BY <2>7, ToolsSame
  <2>10. Owned(r, {})
    <3>1. Owned(a, {s.next})
      BY <2>1 DEF Ready
    <3> QED BY <2>7, <2>8, <2>9, <3>1 DEF Owned
  <2>11. Ready(r, {})
    BY <2>1, <2>4, <2>5, <2>7, <2>10, BlocksReady, FieldsAre DEF Same
  <2>12. Same(r, s, {"pending", "next", "text"})
    BY <2>1, <2>4, FieldsAre DEF Same
  <2> QED BY <2>4, <2>5, <2>11, <2>12 DEF r
<1> QED BY <1>1, <1>2

(* push_text. *)
LEMMA PushTextReady ==
  ASSUME NEW s, Ready(s, {}), s.reasoning = Nil, NEW text \in Texts
  PROVE  /\ Ready(PushText(s, text), {})
         /\ Same(PushText(s, text), s, {"pending", "next", "text"})
<1> DEFINE o == OpenText(s)
           block == [o.text EXCEPT !.text = @ \o text]
           x == [o EXCEPT !.text = block]
           events == <<TextDelta(o.text.index, text)>>
<1>1. /\ Ready(o, {}) /\ Same(o, s, {"pending", "next", "text"})
      /\ o.text \in TextStates
  BY OpenTextReady
<1>2. PushText(s, text) = Emit(x, events)
  BY DEF PushText
<1> HIDE DEF o
<1>3. o.text \in TextStates /\ DOMAIN o = Fields /\ o.text # Nil /\ o.reasoning = Nil
  BY <1>1, NilAssumption, FieldsAre DEF Same
<1>4. block \in TextStates /\ block.index = o.text.index /\ block # Nil
  <2>0. o.text.text \o text \in Texts
    <3>1. o.text.text \in Texts
      BY <1>3 DEF TextStates
    <3> QED BY <3>1 DEF Texts
  <2>1. block \in TextStates /\ block.index = o.text.index
    BY <1>3, <2>0 DEF TextStates
  <2> QED BY <2>1, NilAssumption
<1>5. events \in Seq(Previews)
  <2>1. o.text.index \in Nat
    BY <1>3 DEF TextStates
  <2>2. TextDelta(o.text.index, text) \in Previews
    BY <2>1, EventTypes
  <2> QED BY <2>2
<1> HIDE DEF block, events
<1>6. Same(x, o, {"text"}) /\ x.text = block
  BY <1>3, FieldsAre DEF Same
<1> HIDE DEF x
<1>7. Ready(x, {})
  <2>1. /\ x.content = o.content /\ x.tools = o.tools /\ x.next = o.next
        /\ x.reasoning = o.reasoning
    BY <1>6, FieldsAre DEF Same
  <2>2. OpenIndexes(x) = OpenIndexes(o) /\ ToolIndexes(x) = ToolIndexes(o)
    BY <1>3, <1>4, <1>6, <2>1, ToolsSame DEF OpenIndexes
  <2>3. Owned(x, {})
    BY <1>1, <1>3, <2>1, <2>2 DEF Ready, Owned
  <2>4. Same(x, o, {"text", "reasoning"})
    BY <1>6 DEF Same
  <2> QED BY <1>1, <1>3, <1>4, <1>6, <2>1, <2>3, <2>4, BlocksReady
<1>8. Same(Emit(x, events), x, {"pending"}) /\ Ready(Emit(x, events), {})
  BY <1>5, <1>7, EmitReady
<1> QED BY <1>1, <1>2, <1>6, <1>8, FieldsAre DEF Same

(* close_text: the block is taken before its part is kept. *)
LEMMA CloseTextReady ==
  ASSUME NEW s, Ready(s, {})
  PROVE  /\ Ready(CloseText(s), {})
         /\ Same(CloseText(s), s, {"pending", "content", "text"})
         /\ CloseText(s).text = Nil
<1>1. CASE s.text = Nil
  <2>1. DOMAIN s = Fields
    BY DEF Ready, Typed
  <2> QED BY <1>1, <2>1 DEF CloseText, Same
<1>2. CASE s.text # Nil
  <2> DEFINE i == s.text.index
             x == [s EXCEPT !.text = Nil]
             part == TextContent(s.text.text)
  <2>1. s.text \in TextStates /\ i \in Nat /\ s.text.text \in Texts
    BY <1>2, TextIndex
  <2>2. CloseText(s) = Close(x, i, part)
    BY <1>2 DEF CloseText
  <2>3. part \in AssistantParts
    BY <2>1, PartTypes
  <2>4. DOMAIN s = Fields
    BY DEF Ready, Typed
  <2>5. Same(x, s, {"text"}) /\ x.text = Nil
    BY <2>4, FieldsAre DEF Same
  <2> HIDE DEF x, part
  <2>6. Ready(x, {i})
    <3>1. /\ x.content = s.content /\ x.tools = s.tools /\ x.next = s.next
          /\ x.reasoning = s.reasoning
      BY <2>5, FieldsAre DEF Same
    <3>2. Owned(s, {})
      BY DEF Ready
    <3>3. s.reasoning = Nil
      BY <1>2, <3>2 DEF Owned
    <3>4. /\ OpenIndexes(s) = {i} /\ OpenIndexes(x) = {}
          /\ ToolIndexes(x) = ToolIndexes(s)
      BY <1>2, <2>5, <3>1, <3>3, ToolsSame DEF OpenIndexes
    <3> HIDE DEF i
    <3>5. Owned(x, {i})
      BY <2>5, <3>1, <3>2, <3>4 DEF Owned
    <3>6. Same(x, s, {"text", "reasoning"})
      BY <2>5 DEF Same
    <3> QED BY <2>5, <3>1, <3>3, <3>5, <3>6, BlocksReady
  <2>7. Ready(Close(x, i, part), {}) /\ Same(Close(x, i, part), x, {"pending", "content"})
    BY <2>1, <2>3, <2>6, CloseReady
  <2> QED BY <2>2, <2>5, <2>7, FieldsAre DEF Same
<1> QED BY <1>1, <1>2

-----------------------------------------------------------------------------
(* Reasoning blocks.                                                       *)

(* An open reasoning block is typed, and so is what it closes to. *)
LEMMA ReasoningIndex ==
  ASSUME NEW s, NEW hand, Ready(s, hand), s.reasoning # Nil
  PROVE  /\ s.reasoning \in ReasoningStates /\ s.reasoning.index \in Nat
         /\ Reasoning(s.reasoning.id, s.reasoning.text) \in Reasonings
<1>1. s.reasoning \in ReasoningStates
  BY DEF Ready, Typed
<1> QED BY <1>1 DEF ReasoningStates, Reasonings, Reasoning

(* Taking the open reasoning leaves its index in hand. *)
LEMMA TakeReasoningReady ==
  ASSUME NEW s, Ready(s, {}), s.reasoning # Nil
  PROVE  /\ Ready([s EXCEPT !.reasoning = Nil], {s.reasoning.index})
         /\ Same([s EXCEPT !.reasoning = Nil], s, {"reasoning"})
         /\ [s EXCEPT !.reasoning = Nil].reasoning = Nil
<1> DEFINE x == [s EXCEPT !.reasoning = Nil]
           i == s.reasoning.index
<1>1. DOMAIN s = Fields
  BY DEF Ready, Typed
<1>2. Same(x, s, {"reasoning"}) /\ x.reasoning = Nil
  BY <1>1, FieldsAre DEF Same
<1> HIDE DEF x
<1>3. /\ x.content = s.content /\ x.tools = s.tools /\ x.next = s.next
      /\ x.text = s.text
  BY <1>2, FieldsAre DEF Same
<1>4. Owned(s, {})
  BY DEF Ready
<1>5. s.text = Nil
  BY <1>4 DEF Owned
<1>6. /\ OpenIndexes(s) = {i} /\ OpenIndexes(x) = {}
      /\ ToolIndexes(x) = ToolIndexes(s)
  BY <1>2, <1>3, <1>5, ToolsSame DEF OpenIndexes
<1> HIDE DEF i
<1>7. Owned(x, {i})
  BY <1>2, <1>3, <1>4, <1>6 DEF Owned
<1>8. Same(x, s, {"text", "reasoning"})
  BY <1>2 DEF Same
<1>9. Ready(x, {i})
  BY <1>2, <1>3, <1>5, <1>7, <1>8, BlocksReady
<1> QED BY <1>2, <1>9 DEF x, i

(* close_reasoning. *)
LEMMA CloseReasoningReady ==
  ASSUME NEW s, Ready(s, {})
  PROVE  /\ Ready(CloseReasoning(s), {})
         /\ Same(CloseReasoning(s), s, {"pending", "content", "reasoning"})
         /\ CloseReasoning(s).reasoning = Nil
<1>1. CASE s.reasoning = Nil
  <2>1. DOMAIN s = Fields
    BY DEF Ready, Typed
  <2> QED BY <1>1, <2>1 DEF CloseReasoning, Same
<1>2. CASE s.reasoning # Nil
  <2> DEFINE i == s.reasoning.index
             x == [s EXCEPT !.reasoning = Nil]
             part == DataContent("reasoning",
                                 Reasoning(s.reasoning.id, s.reasoning.text))
  <2>1. CloseReasoning(s) = Close(x, i, part)
    BY <1>2 DEF CloseReasoning
  <2>2. i \in Nat /\ part \in AssistantParts
    BY <1>2, ReasoningIndex, PartTypes
  <2>3. Ready(x, {i}) /\ Same(x, s, {"reasoning"}) /\ x.reasoning = Nil
    BY <1>2, TakeReasoningReady
  <2> HIDE DEF x, part, i
  <2>4. /\ Ready(Close(x, i, part), {})
        /\ Same(Close(x, i, part), x, {"pending", "content"})
    BY <2>2, <2>3, CloseReady
  <2> QED BY <2>1, <2>3, <2>4, FieldsAre DEF Same
<1> QED BY <1>1, <1>2

(* Opening reasoning puts the new index into the block. *)
LEMMA OpenReasoningReady ==
  ASSUME NEW s, Ready(s, {}), s.text = Nil, NEW id \in ReasoningIds \cup {Nil}
  PROVE  /\ Ready(OpenReasoning(s, id), {})
         /\ Same(OpenReasoning(s, id), s, {"pending", "next", "reasoning"})
         /\ OpenReasoning(s, id).reasoning \in ReasoningStates
<1>1. CASE s.reasoning # Nil
  <2>1. OpenReasoning(s, id) = s
    BY <1>1 DEF OpenReasoning
  <2>2. DOMAIN s = Fields
    BY DEF Ready, Typed
  <2> QED BY <1>1, <2>1, <2>2, ReasoningIndex DEF Same
<1>2. CASE s.reasoning = Nil
  <2> DEFINE a == Allocate(s, "ProviderData")
             block == [index |-> s.next, id |-> id, text |-> <<>>]
             r == OpenReasoning(s, id)
  <2>1. /\ Ready(a, {s.next}) /\ Same(a, s, {"pending", "next"})
        /\ a.next = s.next + 1
    BY AllocateReady DEF Kinds
  <2>2. r = [a EXCEPT !.reasoning = block]
    BY <1>2 DEF OpenReasoning
  <2>3. DOMAIN a = Fields
    BY <2>1 DEF Same
  <2> HIDE DEF a
  <2>4. Same(r, a, {"reasoning"}) /\ r.reasoning = block
    BY <2>2, <2>3, FieldsAre DEF Same
  <2>5. block \in ReasoningStates /\ block # Nil /\ block.index = s.next
    <3>1. s.next \in Nat
      BY DEF Ready, Typed
    <3>2. block \in ReasoningStates
      BY <3>1 DEF ReasoningStates, Texts
    <3> QED BY <3>2, NilAssumption
  <2>6. a.text = Nil /\ a.reasoning = Nil
    BY <1>2, <2>1, FieldsAre DEF Same
  <2> HIDE DEF r, block
  <2>7. /\ r.content = a.content /\ r.tools = a.tools /\ r.next = a.next
        /\ r.text = Nil
    BY <2>4, <2>6, FieldsAre DEF Same
  <2>8. OpenIndexes(a) = {} /\ OpenIndexes(r) = {s.next}
    BY <2>4, <2>5, <2>6, <2>7 DEF OpenIndexes
  <2>9. ToolIndexes(r) = ToolIndexes(a)
    BY <2>7, ToolsSame
  <2>10. Owned(r, {})
    <3>1. Owned(a, {s.next})
      BY <2>1 DEF Ready
    <3> QED BY <2>7, <2>8, <2>9, <3>1 DEF Owned
  <2>11. Ready(r, {})
    BY <2>1, <2>4, <2>5, <2>7, <2>10, BlocksReady, FieldsAre DEF Same
  <2>12. Same(r, s, {"pending", "next", "reasoning"})
    BY <2>1, <2>4, FieldsAre DEF Same
  <2> QED BY <2>4, <2>5, <2>11, <2>12 DEF r
<1> QED BY <1>1, <1>2

(* push_reasoning_delta: same id or another, empty or not. *)
LEMMA PushReasoningDeltaReady ==
  ASSUME NEW s, Ready(s, {}), s.text = Nil, NEW id \in ReasoningIds \cup {Nil},
         NEW text \in Texts
  PROVE  /\ Ready(PushReasoningDelta(s, id, text), {})
         /\ Same(PushReasoningDelta(s, id, text), s,
                 {"pending", "content", "next", "reasoning"})
<1>1. CASE text = <<>>
  <2>1. DOMAIN s = Fields
    BY DEF Ready, Typed
  <2> QED BY <1>1, <2>1 DEF PushReasoningDelta, Same
<1>2. CASE text # <<>>
  <2> DEFINE c == IF s.reasoning # Nil /\ s.reasoning.id # id
                  THEN CloseReasoning(s) ELSE s
             o == OpenReasoning(c, id)
             block == [o.reasoning EXCEPT !.text = @ \o text]
             x == [o EXCEPT !.reasoning = block]
             events == <<ProviderEvent("reasoning_delta")>>
  <2>1. PushReasoningDelta(s, id, text) = Emit(x, events)
    BY <1>2 DEF PushReasoningDelta
  <2>2. Ready(c, {}) /\ Same(c, s, {"pending", "content", "reasoning"})
    <3>1. DOMAIN s = Fields
      BY DEF Ready, Typed
    <3> QED BY <3>1, CloseReasoningReady DEF Same
  <2> HIDE DEF c
  <2>3. c.text = Nil
    BY <2>2, FieldsAre DEF Same
  <2>4. /\ Ready(o, {}) /\ Same(o, c, {"pending", "next", "reasoning"})
        /\ o.reasoning \in ReasoningStates
    BY <2>2, <2>3, OpenReasoningReady
  <2> HIDE DEF o
  <2>5. DOMAIN o = Fields /\ o.reasoning # Nil /\ o.text = Nil
    BY <2>3, <2>4, NilAssumption, FieldsAre DEF Same
  <2>6. block \in ReasoningStates /\ block.index = o.reasoning.index /\ block # Nil
    <3>1. o.reasoning.text \in Texts
      BY <2>4 DEF ReasoningStates
    <3>2. o.reasoning.text \o text \in Texts
      BY <3>1 DEF Texts
    <3>3. block \in ReasoningStates /\ block.index = o.reasoning.index
      BY <2>4, <3>2 DEF ReasoningStates
    <3> QED BY <3>3, NilAssumption
  <2>7. events \in Seq(Previews)
    BY NoticeTypes
  <2> HIDE DEF block, events
  <2>8. Same(x, o, {"reasoning"}) /\ x.reasoning = block
    BY <2>5, FieldsAre DEF Same
  <2> HIDE DEF x
  <2>9. Ready(x, {})
    <3>1. /\ x.content = o.content /\ x.tools = o.tools /\ x.next = o.next
          /\ x.text = o.text
      BY <2>8, FieldsAre DEF Same
    <3>2. OpenIndexes(x) = OpenIndexes(o) /\ ToolIndexes(x) = ToolIndexes(o)
      BY <2>5, <2>6, <2>8, <3>1, ToolsSame DEF OpenIndexes
    <3>3. Owned(x, {})
      BY <2>4, <2>5, <3>1, <3>2 DEF Ready, Owned
    <3>4. Same(x, o, {"text", "reasoning"})
      BY <2>8 DEF Same
    <3> QED BY <2>4, <2>5, <2>6, <2>8, <3>1, <3>3, <3>4, BlocksReady
  <2>10. Same(Emit(x, events), x, {"pending"}) /\ Ready(Emit(x, events), {})
    BY <2>7, <2>9, EmitReady
  <2> QED BY <2>1, <2>2, <2>4, <2>8, <2>10, FieldsAre DEF Same
<1> QED BY <1>1, <1>2

(* complete_reasoning: over an open block, or an index of its own. *)
LEMMA CompleteReasoningReady ==
  ASSUME NEW s, Ready(s, {}), s.text = Nil, NEW r \in Reasonings
  PROVE  /\ Ready(CompleteReasoning(s, r), {})
         /\ Same(CompleteReasoning(s, r), s,
                 {"pending", "content", "next", "reasoning"})
<1>1. DOMAIN s = Fields /\ s.next \in Nat
  BY DEF Ready, Typed
<1> DEFINE events == <<ProviderEvent("reasoning")>>
           part == DataContent("reasoning", r)
<1>2. events \in Seq(Previews) /\ part \in AssistantParts
  BY NoticeTypes, PartTypes
<1>3. ASSUME NEW x, NEW i \in Nat, Ready(x, {i}),
             Same(x, s, {"pending", "next", "reasoning"}),
             CompleteReasoning(s, r) = Close(Emit(x, events), i, part)
      PROVE  /\ Ready(CompleteReasoning(s, r), {})
             /\ Same(CompleteReasoning(s, r), s,
                     {"pending", "content", "next", "reasoning"})
  <2> HIDE DEF events, part
  <2>1. Ready(Emit(x, events), {i}) /\ Same(Emit(x, events), x, {"pending"})
    BY <1>2, <1>3, EmitReady
  <2>2. /\ Ready(Close(Emit(x, events), i, part), {})
        /\ Same(Close(Emit(x, events), i, part), Emit(x, events), {"pending", "content"})
    BY <1>2, <1>3, <2>1, CloseReady
  <2> QED BY <1>3, <2>1, <2>2, FieldsAre DEF Same
<1>4. CASE s.reasoning = Nil /\ EmptyReasoning(r)
  BY <1>1, <1>4 DEF CompleteReasoning, Same
<1>5. CASE s.reasoning # Nil
  <2> DEFINE x == [s EXCEPT !.reasoning = Nil]
  <2>1. CompleteReasoning(s, r) = Close(Emit(x, events), s.reasoning.index, part)
    BY <1>5 DEF CompleteReasoning
  <2>2. /\ Ready(x, {s.reasoning.index}) /\ Same(x, s, {"reasoning"})
        /\ s.reasoning.index \in Nat
    BY <1>5, TakeReasoningReady, ReasoningIndex
  <2>3. Same(x, s, {"pending", "next", "reasoning"})
    BY <2>2 DEF Same
  <2> HIDE DEF x
  <2> QED BY <1>3, <2>1, <2>2, <2>3
<1>6. CASE s.reasoning = Nil /\ ~EmptyReasoning(r)
  <2> DEFINE a == Allocate(s, "ProviderData")
             x == [a EXCEPT !.reasoning = Nil]
  <2>1. CompleteReasoning(s, r) = Close(Emit(x, events), s.next, part)
    BY <1>6 DEF CompleteReasoning
  <2>2. /\ Ready(a, {s.next}) /\ Same(a, s, {"pending", "next"})
    BY AllocateReady DEF Kinds
  <2> HIDE DEF a
  <2>3. DOMAIN a = Fields /\ a.reasoning = Nil /\ a.text = Nil
    BY <1>6, <2>2, FieldsAre DEF Same
  <2>4. Same(x, a, {"reasoning"}) /\ x.reasoning = Nil
    BY <2>3, FieldsAre DEF Same
  <2> HIDE DEF x
  <2>5. /\ x.content = a.content /\ x.tools = a.tools /\ x.next = a.next
        /\ x.text = Nil
    BY <2>3, <2>4, FieldsAre DEF Same
  <2>6. OpenIndexes(x) = OpenIndexes(a) /\ ToolIndexes(x) = ToolIndexes(a)
    BY <2>3, <2>4, <2>5, ToolsSame DEF OpenIndexes
  <2>7. Owned(x, {s.next})
    BY <2>2, <2>4, <2>5, <2>6 DEF Ready, Owned
  <2>8. Same(x, a, {"text", "reasoning"})
    BY <2>4 DEF Same
  <2>9. Ready(x, {s.next})
    BY <2>2, <2>4, <2>5, <2>7, <2>8, BlocksReady
  <2>10. Same(x, s, {"pending", "next", "reasoning"})
    BY <2>2, <2>4, FieldsAre DEF Same
  <2> QED BY <1>1, <1>3, <2>1, <2>9, <2>10
<1> QED BY <1>4, <1>5, <1>6

-----------------------------------------------------------------------------
(* Provider data that comes complete.                                      *)

(* push_provider_content: an index allocated, announced and closed. *)
LEMMA PushProviderContentReady ==
  ASSUME NEW s, Ready(s, {}),
         NEW kind \in {"reasoning", "tool_call_metadata"}, NEW value,
         DataContent(kind, value) \in AssistantParts
  PROVE  /\ Ready(PushProviderContent(s, kind, value), {})
         /\ Same(PushProviderContent(s, kind, value), s, {"pending", "content", "next"})
<1> DEFINE a == Allocate(s, "ProviderData")
           events == <<ProviderEvent(kind)>>
           part == DataContent(kind, value)
<1>1. PushProviderContent(s, kind, value) = Close(Emit(a, events), s.next, part)
  BY DEF PushProviderContent
<1>2. Ready(a, {s.next}) /\ Same(a, s, {"pending", "next"})
  BY AllocateReady DEF Kinds
<1>3. events \in Seq(Previews) /\ s.next \in Nat
  BY NoticeTypes DEF Ready, Typed
<1> HIDE DEF a, events, part
<1>4. Ready(Emit(a, events), {s.next}) /\ Same(Emit(a, events), a, {"pending"})
  BY <1>2, <1>3, EmitReady
<1>5. /\ Ready(Close(Emit(a, events), s.next, part), {})
      /\ Same(Close(Emit(a, events), s.next, part), Emit(a, events),
              {"pending", "content"})
  BY <1>3, <1>4, CloseReady DEF part
<1> QED BY <1>1, <1>2, <1>4, <1>5, FieldsAre DEF Same

-----------------------------------------------------------------------------
(* Tool calls.                                                             *)

(* The fields of a tool. *)
LEMMA ToolFields ==
  ASSUME NEW tool \in ToolStates
  PROVE  /\ tool.index \in Nat /\ tool.id \in Ids \cup {Nil}
         /\ tool.name \in Texts /\ tool.args \in Texts /\ tool.emitted \in Nat
         /\ tool.started \in BOOLEAN /\ tool.completed \in BOOLEAN
BY DEF ToolStates

(* One tool changes, but not its place, its id or whether it is complete. *)
LEMMA ToolReady ==
  ASSUME NEW s, NEW hand, Ready(s, hand), NEW t \in DOMAIN s.tools, NEW tool \in ToolStates,
         tool.index = s.tools[t].index, tool.id = s.tools[t].id,
         tool.completed = s.tools[t].completed,
         NEW r, Same(r, s, {"tools"}), r.tools = [s.tools EXCEPT ![t] = tool]
  PROVE  Ready(r, hand)
<1>1. /\ DOMAIN r = Fields /\ r.content = s.content /\ r.pending = s.pending
      /\ r.used = s.used /\ r.text = s.text /\ r.reasoning = s.reasoning
      /\ r.next = s.next /\ r.usage = s.usage /\ r.stop = s.stop
      /\ r.final = s.final /\ r.finished = s.finished /\ r.failed = s.failed
  BY FieldsAre DEF Same
<1>2. /\ DOMAIN r.tools = DOMAIN s.tools
      /\ \A u \in DOMAIN s.tools :
           /\ r.tools[u] = IF u = t THEN tool ELSE s.tools[u]
           /\ r.tools[u].index = s.tools[u].index
           /\ r.tools[u].id = s.tools[u].id
           /\ r.tools[u].completed = s.tools[u].completed
  OBVIOUS
<1>3. OpenIndexes(r) = OpenIndexes(s)
  BY <1>1, OpenSame
<1>4. ToolIndexes(r) = ToolIndexes(s)
  BY <1>2 DEF ToolIndexes
<1>5. Typed(r)
  <2>1. \A u \in DOMAIN r.tools : r.tools[u] \in ToolStates
    BY <1>2 DEF Ready, Typed
  <2> QED BY <1>1, <1>2, <2>1 DEF Ready, Typed
<1>6. Owned(r, hand)
  BY <1>1, <1>2, <1>3, <1>4 DEF Ready, Owned
<1>7. Distinct(r)
  BY <1>1, <1>2 DEF Ready, Distinct
<1> QED BY <1>1, <1>5, <1>6, <1>7 DEF Ready

(* The fields EnsureTool may change, and nothing of the tools it keeps. *)
LEMMA EnsureToolReady ==
  ASSUME NEW s, Ready(s, {}), NEW t \in Tools
  PROVE  /\ Ready(EnsureTool(s, t), {})
         /\ Same(EnsureTool(s, t), s, {"pending", "next", "tools"})
         /\ t \in DOMAIN EnsureTool(s, t).tools
<1>1. CASE t \in DOMAIN s.tools
  <2>1. DOMAIN s = Fields
    BY DEF Ready, Typed
  <2> QED BY <1>1, <2>1 DEF EnsureTool, Same
<1>2. CASE t \notin DOMAIN s.tools
  <2> DEFINE a == Allocate(s, "ToolCall")
             tool == NewTool(s.next)
             r == EnsureTool(s, t)
  <2>1. /\ Ready(a, {s.next}) /\ Same(a, s, {"pending", "next"})
        /\ a.next = s.next + 1
    BY AllocateReady DEF Kinds
  <2>2. r = [a EXCEPT !.tools = Put(a.tools, t, tool)]
    BY <1>2 DEF EnsureTool
  <2>3. DOMAIN a = Fields /\ s.next \in Nat
    BY <2>1 DEF Same, Ready, Typed
  <2>4. /\ tool \in ToolStates /\ tool.index = s.next /\ tool.id = Nil
        /\ tool.completed = FALSE
    BY <2>3 DEF NewTool, ToolStates, Texts
  <2> HIDE DEF a, tool
  <2>5. Same(r, a, {"tools"}) /\ r.tools = Put(a.tools, t, tool)
    BY <2>2, <2>3, FieldsAre DEF Same
  <2> HIDE DEF r
  <2>6. /\ DOMAIN r = Fields /\ r.content = a.content /\ r.pending = a.pending
        /\ r.used = a.used /\ r.text = a.text /\ r.reasoning = a.reasoning
        /\ r.next = a.next /\ r.usage = a.usage /\ r.stop = a.stop
        /\ r.final = a.final /\ r.finished = a.finished /\ r.failed = a.failed
    BY <2>5, FieldsAre DEF Same
  <2>7. a.tools = s.tools
    BY <2>1, FieldsAre DEF Same
  <2>8. /\ DOMAIN r.tools = DOMAIN a.tools \cup {t} /\ t \notin DOMAIN a.tools
        /\ r.tools[t] = tool
        /\ \A u \in DOMAIN a.tools : u # t /\ r.tools[u] = a.tools[u]
    <3>1. t \notin DOMAIN a.tools
      BY <1>2, <2>7
    <3> DEFINE f == a.tools
    <3>2. /\ DOMAIN Put(f, t, tool) = DOMAIN f \cup {t}
          /\ Put(f, t, tool)[t] = tool
          /\ \A z \in DOMAIN f : z # t => Put(f, t, tool)[z] = f[z]
      <4> HIDE DEF f
      <4> QED BY DEF Put
    <3>3. \A u \in DOMAIN a.tools : u # t
      BY <3>1
    <3>4. r.tools = Put(f, t, tool)
      BY <2>5
    <3> HIDE DEF f
    <3> QED BY <3>1, <3>2, <3>3, <3>4 DEF f
  <2>9. OpenIndexes(r) = OpenIndexes(a)
    BY <2>6, OpenSame
  <2>10. ToolIndexes(r) = ToolIndexes(a) \cup {s.next}
    <3>1. ASSUME NEW i \in ToolIndexes(r) PROVE i \in ToolIndexes(a) \cup {s.next}
      <4>1. PICK u \in DOMAIN r.tools : i = r.tools[u].index /\ ~r.tools[u].completed
        BY <3>1 DEF ToolIndexes
      <4>2. CASE u = t
        BY <4>1, <4>2, <2>4, <2>8
      <4>3. CASE u # t
        BY <4>1, <4>3, <2>8 DEF ToolIndexes
      <4> QED BY <4>2, <4>3
    <3>2. ASSUME NEW i \in ToolIndexes(a) PROVE i \in ToolIndexes(r)
      <4>1. PICK u \in DOMAIN a.tools : i = a.tools[u].index /\ ~a.tools[u].completed
        BY <3>2 DEF ToolIndexes
      <4> QED BY <4>1, <2>8 DEF ToolIndexes
    <3>3. s.next \in ToolIndexes(r)
      <4>1. t \in {u \in DOMAIN r.tools : ~r.tools[u].completed}
        BY <2>4, <2>8
      <4> QED BY <4>1, <2>4, <2>8 DEF ToolIndexes
    <3> QED BY <3>1, <3>2, <3>3
  <2>11. Typed(r)
    <3>1. \A u \in DOMAIN r.tools : r.tools[u] \in ToolStates
      BY <2>1, <2>4, <2>8 DEF Ready, Typed
    <3>2. DOMAIN r.tools \subseteq Tools
      BY <2>1, <2>8 DEF Ready, Typed
    <3> QED BY <2>1, <2>6, <3>1, <3>2 DEF Ready, Typed
  <2>12. Owned(r, {})
    <3>1. Owned(a, {s.next})
      BY <2>1 DEF Ready
    <3>2. s.next \notin {a.tools[u].index : u \in DOMAIN a.tools}
      <4>1. Owned(s, {})
        BY DEF Ready
      <4>2. \A u \in DOMAIN s.tools : s.tools[u].index \in 0..s.next - 1
        BY <4>1 DEF Owned
      <4> QED BY <4>2, <2>3, <2>7
    <3>3. s.next \in 0..a.next - 1
      BY <2>1, <2>3
    <3>4. \A u \in DOMAIN r.tools : r.tools[u].index \in 0..r.next - 1
      <4>1. \A u \in DOMAIN a.tools : a.tools[u].index \in 0..a.next - 1
        BY <3>1 DEF Owned
      <4> QED BY <4>1, <2>4, <2>6, <2>8, <3>3
    <3>5. \A u, v \in DOMAIN r.tools : u # v => r.tools[u].index # r.tools[v].index
      <4>1. \A u, v \in DOMAIN a.tools : u # v => a.tools[u].index # a.tools[v].index
        BY <3>1 DEF Owned
      <4> QED BY <4>1, <2>4, <2>8, <3>2
    <3> QED BY <2>6, <2>9, <2>10, <3>1, <3>4, <3>5 DEF Owned
  <2>13. Distinct(r)
    <3>1. Distinct(a)
      BY <2>1 DEF Ready
    <3>2. \A u \in DOMAIN r.tools : r.tools[u].id \in r.used \cup {Nil}
      BY <2>4, <2>6, <2>8, <3>1 DEF Distinct
    <3>3. ASSUME NEW u \in DOMAIN r.tools, NEW v \in DOMAIN r.tools, u # v,
                 r.tools[u].id # Nil
          PROVE  r.tools[u].id # r.tools[v].id
      <4>1. u \in DOMAIN a.tools /\ r.tools[u] = a.tools[u]
        BY <2>4, <2>8, <3>3
      <4>2. CASE v = t
        BY <4>2, <2>4, <2>8, <3>3
      <4>3. CASE v # t
        BY <4>1, <4>3, <2>8, <3>1, <3>3 DEF Distinct
      <4> QED BY <4>2, <4>3
    <3> QED BY <3>2, <3>3 DEF Distinct
  <2>14. Ready(r, {})
    BY <2>1, <2>6, <2>11, <2>12, <2>13 DEF Ready
  <2>15. Same(r, s, {"pending", "next", "tools"})
    BY <2>1, <2>5, FieldsAre DEF Same
  <2> QED BY <2>8, <2>14, <2>15 DEF r
<1> QED BY <1>1, <1>2

(* The id of a tool is set once, to one no other tool has. *)
LEMMA ObserveToolIdReady ==
  ASSUME NEW s, Ready(s, {}), NEW t \in DOMAIN s.tools, NEW id \in Ids,
         s.tools[t].id # Nil \/ id \notin s.used
  PROVE  LET r == ObserveToolId(s, t, id)
         IN  /\ Ready(r, {})
             /\ Same(r, s, {"tools", "used"})
             /\ DOMAIN r.tools = DOMAIN s.tools
             /\ r.tools[t].completed = s.tools[t].completed
             /\ r.tools[t].id \in Ids
<1>1. /\ DOMAIN s = Fields /\ s.tools[t] \in ToolStates
      /\ s.tools[t].id \in Ids \cup {Nil}
  BY ToolFields DEF Ready, Typed
<1>2. CASE s.tools[t].id # Nil
  BY <1>1, <1>2 DEF ObserveToolId, Same
<1>3. CASE s.tools[t].id = Nil
  <2> DEFINE r == ObserveToolId(s, t, id)
             tool == [s.tools[t] EXCEPT !.id = id]
  <2>1. id \notin s.used /\ id # Nil
    BY <1>3, NilAssumption
  <2>2. /\ tool \in ToolStates /\ tool.index = s.tools[t].index
        /\ tool.completed = s.tools[t].completed /\ tool.id = id
    BY <1>1 DEF ToolStates
  <2>3. /\ Same(r, s, {"tools", "used"}) /\ r.used = s.used \cup {id}
        /\ r.tools = [s.tools EXCEPT ![t] = tool]
    BY <1>1, <1>3, FieldsAre DEF ObserveToolId, Same
  <2> HIDE DEF r, tool
  <2>4. /\ DOMAIN r = Fields /\ r.content = s.content /\ r.pending = s.pending
        /\ r.text = s.text /\ r.reasoning = s.reasoning
        /\ r.next = s.next /\ r.usage = s.usage /\ r.stop = s.stop
        /\ r.final = s.final /\ r.finished = s.finished /\ r.failed = s.failed
    BY <2>3, FieldsAre DEF Same
  <2>5. /\ DOMAIN r.tools = DOMAIN s.tools
        /\ \A u \in DOMAIN s.tools :
             /\ r.tools[u] = IF u = t THEN tool ELSE s.tools[u]
             /\ r.tools[u].index = s.tools[u].index
             /\ r.tools[u].id = IF u = t THEN id ELSE s.tools[u].id
             /\ r.tools[u].completed = s.tools[u].completed
    BY <2>2, <2>3
  <2>6. OpenIndexes(r) = OpenIndexes(s)
    BY <2>4, OpenSame
  <2>7. ToolIndexes(r) = ToolIndexes(s)
    BY <2>5 DEF ToolIndexes
  <2>8. Typed(r)
    <3>1. \A u \in DOMAIN r.tools : r.tools[u] \in ToolStates
      BY <2>2, <2>5 DEF Ready, Typed
    <3>2. r.used \subseteq Ids
      BY <2>3 DEF Ready, Typed
    <3> QED BY <2>4, <2>5, <3>1, <3>2 DEF Ready, Typed
  <2>9. Owned(r, {})
    BY <2>4, <2>5, <2>6, <2>7 DEF Ready, Owned
  <2>10. Distinct(r)
    <3>1. Distinct(s)
      BY DEF Ready
    <3>2. \A u \in DOMAIN r.tools : r.tools[u].id \in r.used \cup {Nil}
      BY <2>3, <2>5, <3>1 DEF Distinct
    <3>3. ASSUME NEW u \in DOMAIN r.tools, NEW v \in DOMAIN r.tools, u # v,
                 r.tools[u].id # Nil, r.tools[u].id = r.tools[v].id
          PROVE  FALSE
      <4>1. \A w \in DOMAIN s.tools : s.tools[w].id # id
        BY <2>1, <3>1 DEF Distinct
      <4>2. CASE u = t
        BY <4>1, <4>2, <2>5, <3>3
      <4>3. CASE v = t
        BY <4>1, <4>3, <2>5, <3>3
      <4>4. CASE u # t /\ v # t
        BY <4>4, <2>5, <3>1, <3>3 DEF Distinct
      <4> QED BY <4>2, <4>3, <4>4
    <3> QED BY <3>2, <3>3 DEF Distinct
  <2>11. IsFiniteSet(r.used)
    BY <2>3, FS_AddElement DEF Ready
  <2>12. Ready(r, {})
    BY <2>4, <2>8, <2>9, <2>10, <2>11 DEF Ready
  <2> QED BY <2>2, <2>3, <2>5, <2>12 DEF r
<1> QED BY <1>2, <1>3

(* The search for a generated id ends: only finitely many are in use. *)
LEMMA FreeId ==
  ASSUME NEW s, IsFiniteSet(s.used), NEW t
  PROVE  Free(s, t) # {}
<1> DEFINE c == Cardinality(s.used)
           f == [n \in 1..c + 1 |-> <<t, n>>]
<1>1. c \in Nat
  BY FS_CardinalityType
<1>2. SUFFICES ASSUME Free(s, t) = {} PROVE FALSE
  OBVIOUS
<1>3. \A n \in 1..c + 1 : <<t, n>> \in s.used
  BY <1>2 DEF Free
<1>4. f \in [1..c + 1 -> s.used]
  BY <1>3
<1>5. IsFiniteSet(1..c + 1) /\ Cardinality(1..c + 1) = c + 1
  BY <1>1, FS_Interval
<1>6. c < Cardinality(1..c + 1)
  BY <1>1, <1>5
<1>7. \E m, n \in 1..c + 1 : m # n /\ f[m] = f[n]
  <2> HIDE DEF f
  <2> QED BY <1>4, <1>5, <1>6, FS_PigeonHole
<1> QED BY <1>7

(* unique_generated_tool_id: an id of the generated form that is not in use. *)
LEMMA GeneratedIdIsFresh ==
  ASSUME NEW s, IsFiniteSet(s.used), NEW t \in Tools
  PROVE  UniqueGeneratedId(s, t) \in Ids /\ UniqueGeneratedId(s, t) \notin s.used
<1> DEFINE n == CHOOSE n \in Free(s, t) : \A m \in Free(s, t) : n <= m
<1>1. Free(s, t) \subseteq Nat \ {0}
  <2>1. Cardinality(s.used) \in Nat
    BY FS_CardinalityType
  <2> QED BY <2>1 DEF Free
<1>2. \E x \in Free(s, t) : \A y \in Free(s, t) : x <= y
  BY <1>1, FreeId, LeastNatural
<1>3. n \in Free(s, t)
  BY <1>2
<1>4. UniqueGeneratedId(s, t) = <<t, n>>
  BY DEF UniqueGeneratedId
<1> HIDE DEF n
<1>5. n \in Nat \ {0}
  BY <1>1, <1>3
<1>6. <<t, n>> \notin s.used
  BY <1>3 DEF Free
<1> QED BY <1>4, <1>5, <1>6 DEF Ids, GeneratedIds

(* start_tool_if_identified. *)
LEMMA StartIfIdentifiedReady ==
  ASSUME NEW s, Ready(s, {}), NEW t \in DOMAIN s.tools, NEW name \in Texts \cup {Nil}
  PROVE  LET r == StartIfIdentified(s, t, name)
         IN  /\ Ready(r, {})
             /\ Same(r, s, {"pending", "tools"})
             /\ DOMAIN r.tools = DOMAIN s.tools
             /\ r.tools[t].completed = s.tools[t].completed
             /\ r.tools[t].id = s.tools[t].id
<1>1. DOMAIN s = Fields /\ s.tools[t] \in ToolStates
  BY DEF Ready, Typed
<1>2. CASE s.tools[t].started \/ s.tools[t].id = Nil
  <2>1. StartIfIdentified(s, t, name) = s
    BY <1>2 DEF StartIfIdentified
  <2> QED BY <1>1, <2>1 DEF Same
<1>3. CASE ~s.tools[t].started /\ s.tools[t].id # Nil
  <2> DEFINE tool == [s.tools[t] EXCEPT !.started = TRUE]
             x == [s EXCEPT !.tools[t].started = TRUE]
             events == <<ToolCallStarted(s.tools[t].index, s.tools[t].id, name)>>
  <2>1. StartIfIdentified(s, t, name) = Emit(x, events)
    BY <1>3 DEF StartIfIdentified
  <2>2. events \in Seq(Previews)
    BY <1>1, <1>3, ToolFields, EventTypes
  <2>3. /\ tool \in ToolStates /\ tool.index = s.tools[t].index
        /\ tool.completed = s.tools[t].completed /\ tool.id = s.tools[t].id
    BY <1>1 DEF ToolStates
  <2>4. Same(x, s, {"tools"}) /\ x.tools = [s.tools EXCEPT ![t] = tool]
    BY <1>1, FieldsAre DEF Same
  <2> HIDE DEF x, tool, events
  <2>5. Ready(x, {})
    BY <2>3, <2>4, ToolReady
  <2>6. Ready(Emit(x, events), {}) /\ Same(Emit(x, events), x, {"pending"})
    BY <2>2, <2>5, EmitReady
  <2>7. Emit(x, events).tools = [s.tools EXCEPT ![t] = tool]
    BY <2>4, <2>6, FieldsAre DEF Same
  <2> QED BY <2>1, <2>3, <2>4, <2>6, <2>7, FieldsAre DEF Same
<1> QED BY <1>2, <1>3

(* flush_tool_arguments: only fragments not sent yet. *)
LEMMA FlushArgumentsReady ==
  ASSUME NEW s, Ready(s, {}), NEW t \in DOMAIN s.tools
  PROVE  LET r == FlushArguments(s, t)
         IN  /\ Ready(r, {})
             /\ Same(r, s, {"pending", "tools"})
             /\ DOMAIN r.tools = DOMAIN s.tools
             /\ r.tools[t].completed = s.tools[t].completed
             /\ r.tools[t].id = s.tools[t].id
<1>1. DOMAIN s = Fields /\ s.tools[t] \in ToolStates
  BY DEF Ready, Typed
<1>2. CASE ~s.tools[t].started
  <2>1. FlushArguments(s, t) = s
    BY <1>2 DEF FlushArguments
  <2> QED BY <1>1, <2>1 DEF Same
<1>3. CASE s.tools[t].started
  <2> DEFINE old == s.tools[t]
             tool == [old EXCEPT !.emitted = Len(old.args)]
             x == [s EXCEPT !.tools[t].emitted = Len(old.args)]
             fragments == SubSeq(old.args, old.emitted + 1, Len(old.args))
             events == [k \in DOMAIN fragments |->
                          ToolCallArgumentsDelta(old.index, <<fragments[k]>>)]
  <2>1. FlushArguments(s, t) = Emit(x, events)
    BY <1>3 DEF FlushArguments
  <2>2. /\ old.args \in Seq(Atoms) /\ old.emitted \in Nat /\ old.index \in Nat
        /\ Len(old.args) \in Nat
    BY <1>1, ToolFields DEF Texts
  <2>3. events \in Seq(Previews)
    <3>1. fragments \in Seq(Atoms)
      BY <2>2
    <3> HIDE DEF fragments
    <3>2. \A k \in DOMAIN fragments : <<fragments[k]>> \in Texts
      BY <3>1 DEF Texts
    <3>3. \A k \in DOMAIN fragments :
            ToolCallArgumentsDelta(old.index, <<fragments[k]>>) \in Previews
      BY <2>2, <3>2, EventTypes
    <3>4. DOMAIN fragments = 1..Len(fragments) /\ Len(fragments) \in Nat
      BY <3>1
    <3> QED BY <3>3, <3>4
  <2>4. /\ tool \in ToolStates /\ tool.index = s.tools[t].index
        /\ tool.completed = s.tools[t].completed /\ tool.id = s.tools[t].id
    BY <1>1, <2>2 DEF ToolStates
  <2>5. Same(x, s, {"tools"}) /\ x.tools = [s.tools EXCEPT ![t] = tool]
    BY <1>1, FieldsAre DEF Same
  <2> HIDE DEF x, tool, events
  <2>6. Ready(x, {})
    BY <2>4, <2>5, ToolReady
  <2>7. Ready(Emit(x, events), {}) /\ Same(Emit(x, events), x, {"pending"})
    BY <2>3, <2>6, EmitReady
  <2>8. Emit(x, events).tools = [s.tools EXCEPT ![t] = tool]
    BY <2>5, <2>7, FieldsAre DEF Same
  <2> QED BY <2>1, <2>4, <2>5, <2>7, <2>8, FieldsAre DEF Same
<1> QED BY <1>2, <1>3

(* push_tool_delta, when it does not fail. *)
LEMMA PushToolDeltaReady ==
  ASSUME NEW s, Ready(s, {}), NEW t \in Tools, NEW part \in {"name", "args"},
         NEW atom \in Atoms
  PROVE  /\ Ready(PushToolDelta(s, t, part, atom), {})
         /\ Same(PushToolDelta(s, t, part, atom), s, {"pending", "next", "tools"})
<1> DEFINE known == EnsureTool(s, t)
           pushed == IF part = "name"
                     THEN [known EXCEPT !.tools[t].name = Append(@, atom)]
                     ELSE [known EXCEPT !.tools[t].args = Append(@, atom)]
           begun == StartIfIdentified(pushed, t, Nil)
<1>1. PushToolDelta(s, t, part, atom) = FlushArguments(begun, t)
  BY DEF PushToolDelta
<1>2. /\ Ready(known, {}) /\ Same(known, s, {"pending", "next", "tools"})
      /\ t \in DOMAIN known.tools
  BY EnsureToolReady
<1> HIDE DEF known
<1>3. DOMAIN known = Fields /\ known.tools[t] \in ToolStates
  BY <1>2 DEF Ready, Typed
<1>4. /\ Ready(pushed, {}) /\ Same(pushed, known, {"tools"})
      /\ DOMAIN pushed.tools = DOMAIN known.tools
  <2> DEFINE old == known.tools[t]
             tool == IF part = "name" THEN [old EXCEPT !.name = Append(old.name, atom)]
                     ELSE [old EXCEPT !.args = Append(old.args, atom)]
  <2>1. Append(old.name, atom) \in Texts /\ Append(old.args, atom) \in Texts
    BY <1>3, ToolFields DEF Texts
  <2>2. /\ tool \in ToolStates /\ tool.index = old.index
        /\ tool.completed = old.completed /\ tool.id = old.id
    BY <1>3, <2>1 DEF ToolStates
  <2>3. Same(pushed, known, {"tools"}) /\ pushed.tools = [known.tools EXCEPT ![t] = tool]
    BY <1>3, FieldsAre DEF Same
  <2> HIDE DEF pushed, tool
  <2> QED BY <1>2, <2>2, <2>3, ToolReady
<1> HIDE DEF pushed
<1>5. /\ Ready(begun, {}) /\ Same(begun, pushed, {"pending", "tools"})
      /\ t \in DOMAIN begun.tools
  BY <1>2, <1>4, StartIfIdentifiedReady
<1> HIDE DEF begun
<1>6. /\ Ready(FlushArguments(begun, t), {})
      /\ Same(FlushArguments(begun, t), begun, {"pending", "tools"})
  BY <1>5, FlushArgumentsReady
<1> QED BY <1>1, <1>2, <1>4, <1>5, <1>6, FieldsAre DEF Same

(* Completing a call takes its index from the tool and leaves it in hand. *)
LEMMA TakeToolReady ==
  ASSUME NEW s, Ready(s, {}), NEW t \in DOMAIN s.tools, ~s.tools[t].completed,
         NEW r, Same(r, s, {"tools"}),
         r.tools = [s.tools EXCEPT ![t] = [s.tools[t] EXCEPT !.completed = TRUE]]
  PROVE  Ready(r, {s.tools[t].index})
<1> DEFINE i == s.tools[t].index
           tool == [s.tools[t] EXCEPT !.completed = TRUE]
<1>1. s.tools[t] \in ToolStates
  BY DEF Ready, Typed
<1>2. /\ tool \in ToolStates /\ tool.index = i
      /\ tool.completed = TRUE /\ tool.id = s.tools[t].id
  BY <1>1 DEF ToolStates
<1>3. /\ DOMAIN r = Fields /\ r.content = s.content /\ r.pending = s.pending
      /\ r.used = s.used /\ r.text = s.text /\ r.reasoning = s.reasoning
      /\ r.next = s.next /\ r.usage = s.usage /\ r.stop = s.stop
      /\ r.final = s.final /\ r.finished = s.finished /\ r.failed = s.failed
  BY FieldsAre DEF Same
<1> HIDE DEF tool
<1>4. /\ DOMAIN r.tools = DOMAIN s.tools
      /\ \A u \in DOMAIN s.tools :
           /\ r.tools[u] = IF u = t THEN tool ELSE s.tools[u]
           /\ r.tools[u].index = s.tools[u].index
           /\ r.tools[u].id = s.tools[u].id
           /\ r.tools[u].completed = IF u = t THEN TRUE ELSE s.tools[u].completed
  BY <1>2 DEF tool
<1>5. Typed(r)
  <2>1. \A u \in DOMAIN r.tools : r.tools[u] \in ToolStates
    BY <1>2, <1>4 DEF Ready, Typed
  <2> QED BY <1>3, <1>4, <2>1 DEF Ready, Typed
<1>6. Distinct(r)
  BY <1>3, <1>4 DEF Ready, Distinct
<1>7. Owned(r, {i})
  <2>1. Owned(s, {})
    BY DEF Ready
  <2>2. OpenIndexes(r) = OpenIndexes(s)
    BY <1>3, OpenSame
  <2>3. ToolIndexes(r) = ToolIndexes(s) \ {i}
    <3>1. ASSUME NEW j \in ToolIndexes(r) PROVE j \in ToolIndexes(s) /\ j # i
      <4>1. PICK u \in DOMAIN r.tools : j = r.tools[u].index /\ ~r.tools[u].completed
        BY <3>1 DEF ToolIndexes
      <4>2. u # t /\ u \in DOMAIN s.tools
        BY <1>4, <4>1
      <4>3. s.tools[u].index # s.tools[t].index
        BY <2>1, <4>2 DEF Owned
      <4> QED BY <1>4, <4>1, <4>2, <4>3 DEF ToolIndexes
    <3>2. ASSUME NEW j \in ToolIndexes(s), j # i PROVE j \in ToolIndexes(r)
      <4>1. PICK u \in DOMAIN s.tools : j = s.tools[u].index /\ ~s.tools[u].completed
        BY <3>2 DEF ToolIndexes
      <4>2. u # t
        BY <3>2, <4>1
      <4> QED BY <1>4, <4>1, <4>2 DEF ToolIndexes
    <3> QED BY <3>1, <3>2
  <2>4. i \in ToolIndexes(s)
    BY DEF ToolIndexes
  <2>5. \A u \in DOMAIN r.tools : r.tools[u].index \in 0..r.next - 1
    BY <1>3, <1>4, <2>1 DEF Owned
  <2>6. \A u, v \in DOMAIN r.tools : u # v => r.tools[u].index # r.tools[v].index
    BY <1>4, <2>1 DEF Owned
  <2> HIDE DEF i
  <2> QED BY <1>3, <2>1, <2>2, <2>3, <2>4, <2>5, <2>6 DEF Owned
<1> QED BY <1>3, <1>5, <1>6, <1>7 DEF Ready

(* The fields of a complete call. *)
LEMMA ToolCallFields ==
  ASSUME NEW item \in ItemSet, item.type = "ToolCall"
  PROVE  /\ item.tool \in Tools /\ item.name \in Texts /\ item.args \in JsonValues
         /\ item.wire \in WireIds \cup {Nil} /\ item.meta \in Metas \cup {Nil}
BY DEF ItemSet

(* Whatever the provider says of ids, the call ends up with a new one. *)
LEMMA IdentifyReady ==
  ASSUME NEW s, Ready(s, {}), NEW item \in ItemSet, item.type = "ToolCall",
         item.tool \in DOMAIN s.tools,
         item.wire # Nil => ~Contradicts(s, item.tool, item.wire)
  PROVE  LET r == Identify(s, item)
         IN  /\ Ready(r, {})
             /\ Same(r, s, {"tools", "used"})
             /\ DOMAIN r.tools = DOMAIN s.tools
             /\ r.tools[item.tool].completed = s.tools[item.tool].completed
             /\ r.tools[item.tool].id \in Ids
<1>1. /\ item.tool \in Tools /\ item.wire \in WireIds \cup {Nil} /\ IsFiniteSet(s.used)
  BY ToolCallFields DEF Ready
<1>2. CASE item.wire # Nil
  <2>1. s.tools[item.tool].id # Nil \/ item.wire \notin s.used
    BY <1>2 DEF Contradicts
  <2>2. item.wire \in Ids
    BY <1>1, <1>2 DEF Ids
  <2>3. Identify(s, item) = ObserveToolId(s, item.tool, item.wire)
    BY <1>2 DEF Identify
  <2> QED BY <2>1, <2>2, <2>3, ObserveToolIdReady
<1>3. CASE item.wire = Nil
  <2> DEFINE id == UniqueGeneratedId(s, item.tool)
  <2>1. id \in Ids /\ id \notin s.used
    BY <1>1, GeneratedIdIsFresh
  <2>2. Identify(s, item) = ObserveToolId(s, item.tool, id)
    BY <1>3 DEF Identify
  <2> HIDE DEF id
  <2> QED BY <2>1, <2>2, ObserveToolIdReady
<1> QED BY <1>2, <1>3

(* complete_tool, when it does not fail: the index of the tool becomes the
   index of its part, and metadata takes an index of its own. *)
LEMMA CompleteToolReady ==
  ASSUME NEW s, Ready(s, {}), NEW item \in ItemSet, item.type = "ToolCall",
         ~BadCall(s, item)
  PROVE  /\ Ready(CompleteTool(s, item), {})
         /\ Same(CompleteTool(s, item), s,
                 {"pending", "content", "tools", "used", "next"})
<1> DEFINE t == item.tool
           known == EnsureTool(s, t)
           named == Identify(known, item)
           begun == StartIfIdentified(named, t, item.name)
           flushed == FlushArguments(begun, t)
           i == flushed.tools[t].index
           call == CallOf(flushed, item)
           events == <<ToolCallCompleted(i, call)>>
           part == ToolContent(call)
           done == [Close(Emit(flushed, events), i, part) EXCEPT
                      !.tools[t].completed = TRUE]
           y == [flushed EXCEPT !.tools[t].completed = TRUE]
<1>1. CompleteTool(s, item) =
        IF item.meta = Nil THEN done
        ELSE PushProviderContent(done, "tool_call_metadata", item.meta)
  BY DEF CompleteTool
<1>2. /\ t \in Tools /\ item.name \in Texts /\ item.args \in JsonValues
      /\ item.wire \in WireIds \cup {Nil} /\ item.meta \in Metas \cup {Nil}
  BY ToolCallFields
<1>3. /\ Ready(known, {}) /\ Same(known, s, {"pending", "next", "tools"})
      /\ t \in DOMAIN known.tools
  BY <1>2, EnsureToolReady
<1>4. /\ ~known.tools[t].completed
      /\ item.wire # Nil => ~Contradicts(known, t, item.wire)
  BY DEF BadCall
<1> HIDE DEF known
<1>5. /\ Ready(named, {}) /\ Same(named, known, {"tools", "used"})
      /\ t \in DOMAIN named.tools /\ ~named.tools[t].completed
      /\ named.tools[t].id \in Ids
  BY <1>3, <1>4, IdentifyReady
<1> HIDE DEF named
<1>6. /\ Ready(begun, {}) /\ Same(begun, named, {"pending", "tools"})
      /\ t \in DOMAIN begun.tools /\ ~begun.tools[t].completed
      /\ begun.tools[t].id \in Ids
  BY <1>2, <1>5, StartIfIdentifiedReady
<1> HIDE DEF begun
<1>7. /\ Ready(flushed, {}) /\ Same(flushed, begun, {"pending", "tools"})
      /\ t \in DOMAIN flushed.tools /\ ~flushed.tools[t].completed
      /\ flushed.tools[t].id \in Ids
  BY <1>6, FlushArgumentsReady
<1> HIDE DEF flushed
<1>8. DOMAIN flushed = Fields /\ flushed.tools[t] \in ToolStates /\ i \in Nat
  BY <1>7, ToolFields DEF Ready, Typed
<1>9. call \in [id : Ids, name : Texts, args : JsonValues]
  BY <1>2, <1>7 DEF CallOf
<1>10. events \in Seq(Previews) /\ part \in AssistantParts
  BY <1>8, <1>9, EventTypes, PartTypes
<1>11. done = Close(Emit(y, events), i, part)
  <2> HIDE DEF i, events, part
  <2> QED BY <1>8, FieldsAre DEF Close, Emit
<1>12. /\ Same(y, flushed, {"tools"})
       /\ y.tools = [flushed.tools EXCEPT ![t] = [flushed.tools[t] EXCEPT !.completed = TRUE]]
  BY <1>8, FieldsAre DEF Same
<1> HIDE DEF y
<1>13. Ready(y, {i})
  BY <1>7, <1>12, TakeToolReady
<1> HIDE DEF i, events, part, done
<1>14. Ready(Emit(y, events), {i}) /\ Same(Emit(y, events), y, {"pending"})
  BY <1>10, <1>13, EmitReady
<1>15. /\ Ready(done, {})
       /\ Same(done, Emit(y, events), {"pending", "content"})
  BY <1>8, <1>10, <1>11, <1>14, CloseReady
<1>16. Same(done, s, {"pending", "content", "tools", "used", "next"})
  BY <1>3, <1>5, <1>6, <1>7, <1>12, <1>14, <1>15, FieldsAre DEF Same
<1>17. CASE item.meta = Nil
  BY <1>1, <1>15, <1>16, <1>17
<1>18. CASE item.meta # Nil
  <2> DEFINE r == PushProviderContent(done, "tool_call_metadata", item.meta)
  <2>1. DataContent("tool_call_metadata", item.meta) \in AssistantParts
    BY <1>2, <1>18, PartTypes
  <2>2. Ready(r, {}) /\ Same(r, done, {"pending", "content", "next"})
    BY <1>15, <2>1, PushProviderContentReady
  <2>3. CompleteTool(s, item) = r
    BY <1>1, <1>18
  <2> HIDE DEF r
  <2> QED BY <1>16, <2>2, <2>3, FieldsAre DEF Same
<1> QED BY <1>17, <1>18

-----------------------------------------------------------------------------
(* handle_item and finish_stream.                                          *)

(* Closing text and reasoning. *)
LEMMA QuietReady ==
  ASSUME NEW s, Ready(s, {})
  PROVE  /\ Ready(Quiet(s), {})
         /\ Same(Quiet(s), s, {"pending", "content", "text", "reasoning"})
         /\ Quiet(s).text = Nil /\ Quiet(s).reasoning = Nil
<1> DEFINE c == CloseText(s)
<1>1. Ready(c, {}) /\ Same(c, s, {"pending", "content", "text"}) /\ c.text = Nil
  BY CloseTextReady
<1>2. Quiet(s) = CloseReasoning(c)
  BY DEF Quiet
<1> HIDE DEF c
<1>3. /\ Ready(CloseReasoning(c), {})
      /\ Same(CloseReasoning(c), c, {"pending", "content", "reasoning"})
      /\ CloseReasoning(c).reasoning = Nil
  BY <1>1, CloseReasoningReady
<1> QED BY <1>1, <1>2, <1>3, FieldsAre DEF Same

(* The kinds of items. *)
LEMMA ItemTypes ==
  ASSUME NEW item \in ItemSet
  PROVE  item.type \in {"Text", "ToolCallDelta", "ToolCall", "Reasoning",
                        "ReasoningDelta", "Final", "Unknown"}
BY DEF ItemSet

(* The fields of a text item. *)
LEMMA TextFields ==
  ASSUME NEW item \in ItemSet, item.type = "Text"
  PROVE  item.text \in Texts /\ item.meta \in BOOLEAN
BY DEF ItemSet

(* The fields of a tool call delta. *)
LEMMA DeltaFields ==
  ASSUME NEW item \in ItemSet, item.type = "ToolCallDelta"
  PROVE  item.tool \in Tools /\ item.part \in {"name", "args"} /\ item.atom \in Atoms
BY DEF ItemSet

(* The fields of the reasoning items and of the terminal item. *)
LEMMA ReasoningFields ==
  ASSUME NEW item \in ItemSet
  PROVE  /\ item.type = "Reasoning" => item.reasoning \in Reasonings
         /\ item.type = "ReasoningDelta" =>
              item.id \in ReasoningIds \cup {Nil} /\ item.text \in Texts
         /\ item.type = "Final" => item.usage \in BOOLEAN /\ item.stop \in BOOLEAN
BY DEF ItemSet

(* What handle_item leaves behind: no index lost, and after the terminal item
   nothing open. *)
Handled(r, s) ==
  /\ Ready(r, {})
  /\ r.finished = s.finished /\ r.failed = s.failed
  /\ r.final => r.text = Nil /\ r.reasoning = Nil

(* A function that leaves the flags alone is enough before the terminal item. *)
LEMMA HandledIfNotFinal ==
  ASSUME NEW s, ~s.final, NEW r, Ready(r, {}),
         NEW changed, changed \cap {"finished", "failed", "final"} = {},
         Same(r, s, changed)
  PROVE  Handled(r, s)
BY FieldsAre DEF Handled, Same

(* handle_item, for every item it does not reject. *)
LEMMA HandleReady ==
  ASSUME NEW s, Ready(s, {}), NEW item \in ItemSet, ~Rejects(s, item)
  PROVE  Handled(Handle(s, item), s)
<1>1. ~s.final
  BY DEF Rejects
<1> DEFINE q == Quiet(s)
<1>2. /\ Ready(q, {}) /\ Same(q, s, {"pending", "content", "text", "reasoning"})
      /\ q.text = Nil /\ q.reasoning = Nil
  BY QuietReady
<1>3. /\ q.tools = s.tools /\ q.used = s.used /\ q.final = s.final /\ DOMAIN q = Fields
      /\ q.finished = s.finished /\ q.failed = s.failed
  BY <1>2, FieldsAre DEF Same
<1>4. CASE item.type = "Text"
  <2> DEFINE c == CloseReasoning(s)
             pushed == PushText(c, item.text)
             events == <<ProviderEvent("text_metadata")>>
  <2>1. /\ Ready(c, {}) /\ Same(c, s, {"pending", "content", "reasoning"})
        /\ c.reasoning = Nil
    BY CloseReasoningReady
  <2>2. Handle(s, item) = IF item.meta THEN Emit(pushed, events) ELSE pushed
    BY <1>4 DEF Handle
  <2> HIDE DEF c
  <2>3. /\ Ready(pushed, {}) /\ Same(pushed, c, {"pending", "next", "text"})
    BY <1>4, <2>1, TextFields, PushTextReady
  <2>4. events \in Seq(Previews)
    BY NoticeTypes
  <2> HIDE DEF pushed, events
  <2>5. Ready(Emit(pushed, events), {}) /\ Same(Emit(pushed, events), pushed, {"pending"})
    BY <2>3, <2>4, EmitReady
  <2>6. Ready(Handle(s, item), {})
    BY <2>2, <2>3, <2>5
  <2>7. Same(Handle(s, item), s, {"pending", "content", "reasoning", "next", "text"})
    BY <2>1, <2>2, <2>3, <2>5, FieldsAre DEF Same
  <2> QED BY <1>1, <2>6, <2>7, HandledIfNotFinal
<1>5. CASE item.type = "ToolCallDelta"
  <2> DEFINE r == PushToolDelta(q, item.tool, item.part, item.atom)
  <2>1. Handle(s, item) = r
    BY <1>5 DEF Handle
  <2>2. Ready(r, {}) /\ Same(r, q, {"pending", "next", "tools"})
    <3> HIDE DEF q
    <3> QED BY <1>2, <1>5, DeltaFields, PushToolDeltaReady
  <2> HIDE DEF r
  <2>3. Same(r, s, {"pending", "content", "text", "reasoning", "next", "tools"})
    BY <1>2, <2>2, FieldsAre DEF Same
  <2> QED BY <1>1, <2>1, <2>2, <2>3, HandledIfNotFinal
<1>6. CASE item.type = "ToolCall"
  <2> DEFINE r == CompleteTool(q, item)
  <2>1. Handle(s, item) = r
    BY <1>6 DEF Handle
  <2>2. ~BadCall(s, item)
    BY <1>6 DEF Rejects
  <2>3. ~BadCall(q, item)
    <3>1. q.next \in Nat /\ s.next \in Nat /\ q.next = s.next
      BY <1>2, FieldsAre DEF Same, Ready, Typed
    <3>2. /\ EnsureTool(q, item.tool).tools = EnsureTool(s, item.tool).tools
          /\ EnsureTool(q, item.tool).used = EnsureTool(s, item.tool).used
      <4>1. DOMAIN s = Fields
        BY DEF Ready, Typed
      <4> HIDE DEF q
      <4> QED BY <1>3, <3>1, <4>1, FieldsAre DEF EnsureTool, Allocate
    <3> HIDE DEF q
    <3> QED BY <2>2, <3>2 DEF BadCall, Contradicts
  <2>4. /\ Ready(r, {})
        /\ Same(r, q, {"pending", "content", "tools", "used", "next"})
    <3> HIDE DEF q
    <3> QED BY <1>2, <1>6, <2>3, CompleteToolReady
  <2> HIDE DEF r
  <2>5. Same(r, s, {"pending", "content", "text", "reasoning", "tools", "used", "next"})
    BY <1>2, <2>4, FieldsAre DEF Same
  <2> QED BY <1>1, <2>1, <2>4, <2>5, HandledIfNotFinal
<1>7. ASSUME item.type \in {"Reasoning", "ReasoningDelta"}
      PROVE  Handled(Handle(s, item), s)
  <2> DEFINE c == CloseText(s)
             r == Handle(s, item)
  <2>1. Ready(c, {}) /\ Same(c, s, {"pending", "content", "text"}) /\ c.text = Nil
    BY CloseTextReady
  <2>2. \/ /\ item.type = "Reasoning"
           /\ r = CompleteReasoning(c, item.reasoning)
        \/ /\ item.type = "ReasoningDelta"
           /\ r = PushReasoningDelta(c, item.id, item.text)
    BY <1>7 DEF Handle
  <2> HIDE DEF c, r
  <2>3. Ready(r, {}) /\ Same(r, c, {"pending", "content", "next", "reasoning"})
    BY <2>1, <2>2, ReasoningFields, CompleteReasoningReady, PushReasoningDeltaReady
  <2>4. Same(r, s, {"pending", "content", "text", "next", "reasoning"})
    BY <2>1, <2>3, FieldsAre DEF Same
  <2> QED BY <1>1, <2>3, <2>4, HandledIfNotFinal DEF r
<1>8. CASE item.type = "Final"
  <2> DEFINE r == [q EXCEPT !.usage = item.usage, !.stop = item.stop, !.final = TRUE]
  <2>1. Handle(s, item) = r
    BY <1>8 DEF Handle
  <2>2. item.usage \in BOOLEAN /\ item.stop \in BOOLEAN
    BY <1>8, ReasoningFields
  <2> HIDE DEF q
  <2>3. /\ DOMAIN r = Fields /\ r.content = q.content /\ r.pending = q.pending
        /\ r.tools = q.tools /\ r.used = q.used /\ r.text = Nil /\ r.reasoning = Nil
        /\ r.next = q.next /\ r.usage = item.usage /\ r.stop = item.stop
        /\ r.final = TRUE /\ r.finished = q.finished /\ r.failed = q.failed
    BY <1>2, <1>3, FieldsAre
  <2> HIDE DEF r
  <2>4. OpenIndexes(r) = OpenIndexes(q) /\ ToolIndexes(r) = ToolIndexes(q)
    BY <1>2, <2>3, OpenSame, ToolsSame
  <2>5. Typed(r)
    BY <1>2, <2>2, <2>3 DEF Ready, Typed
  <2>6. Owned(r, {})
    BY <1>2, <2>3, <2>4 DEF Ready, Owned
  <2>7. Distinct(r)
    BY <1>2, <2>3 DEF Ready, Distinct
  <2>8. Ready(r, {})
    BY <1>2, <2>3, <2>5, <2>6, <2>7 DEF Ready
  <2> QED BY <1>3, <2>1, <2>3, <2>8 DEF Handled
<1>9. CASE item.type = "Unknown"
  <2> DEFINE events == <<ProviderEvent("unknown_stream_item")>>
             r == Emit(s, events)
  <2>1. Handle(s, item) = r
    BY <1>9 DEF Handle
  <2>2. events \in Seq(Previews)
    BY NoticeTypes
  <2>3. Ready(r, {}) /\ Same(r, s, {"pending"})
    BY <2>2, EmitReady
  <2> HIDE DEF r
  <2> QED BY <1>1, <2>1, <2>3, HandledIfNotFinal
<1> HIDE DEF q
<1> QED BY <1>4, <1>5, <1>6, <1>7, <1>8, <1>9, ItemTypes

(* A response is the last thing a stream makes. *)
ResponseLast(events) ==
  \A k \in DOMAIN events : events[k].type = "ResponseCompleted" => k = Len(events)

(* A preview is not a final response. *)
LEMMA PreviewsAreNoResponses ==
  ASSUME NEW e \in Previews PROVE e.type # "ResponseCompleted"
BY DEF Previews, ResponseStarted, Usage

(* Previews alone satisfy ResponseLast. *)
LEMMA NoResponse ==
  ASSUME NEW events \in Seq(Previews)
  PROVE  ResponseLast(events)
<1>1. \A k \in DOMAIN events : events[k] \in Previews
  OBVIOUS
<1> QED BY <1>1, PreviewsAreNoResponses DEF ResponseLast

(* The content is all there when the terminal item has come and every call is
   complete: finish_stream takes every index out, and the check that none is
   missing is never what stops it. *)
LEMMA ContentIsWhole ==
  ASSUME NEW s, Ready(s, {}), s.final, s.text = Nil, s.reasoning = Nil,
         \A t \in DOMAIN s.tools : s.tools[t].completed
  PROVE  DOMAIN s.content = 0..s.next - 1
<1>1. OpenIndexes(s) = {} /\ ToolIndexes(s) = {}
  BY DEF OpenIndexes, ToolIndexes
<1>2. Owned(s, {})
  BY DEF Ready
<1> QED BY <1>1, <1>2 DEF Owned

(* finish_stream: the content is typed and the response comes last. *)
LEMMA FinishStreamReady ==
  ASSUME NEW s, Ready(s, {}), s.final => s.text = Nil /\ s.reasoning = Nil,
         ~Incomplete(s), s.pending = <<>>
  PROVE  LET r == FinishStream(s)
         IN  /\ Typed(r) /\ IsFiniteSet(r.used) /\ Distinct(r)
             /\ r.finished /\ r.failed = s.failed
             /\ r.text = Nil /\ r.reasoning = Nil
             /\ ResponseLast(r.pending)
<1> DEFINE content == [k \in 1..s.next |-> s.content[k - 1]]
           usage == IF s.usage THEN <<Usage>> ELSE <<>>
           response == ResponseCompleted(content, s.stop)
           none == [i \in {} |-> Nil]
           events == usage \o <<response>>
           r == FinishStream(s)
<1>1. /\ DOMAIN s = Fields /\ s.next \in Nat /\ s.stop \in BOOLEAN
      /\ \A i \in DOMAIN s.content : s.content[i] \in AssistantParts
  BY DEF Ready, Typed
<1>2. s.final /\ s.text = Nil /\ s.reasoning = Nil
  BY DEF Incomplete
<1>3. DOMAIN s.content = 0..s.next - 1
  BY <1>2, ContentIsWhole DEF Incomplete
<1>4. content \in Seq(AssistantParts)
  <2>1. \A k \in 1..s.next : k - 1 \in 0..s.next - 1
    BY <1>1
  <2>2. \A k \in 1..s.next : s.content[k - 1] \in AssistantParts
    BY <1>1, <1>3, <2>1
  <2> QED BY <1>1, <2>2
<1> HIDE DEF content
<1>5. response \in Responses /\ response.type = "ResponseCompleted"
  BY <1>1, <1>4 DEF Responses, ResponseCompleted
<1>6. usage \in Seq(Previews)
  <2>1. Usage \in Previews
    BY DEF Previews
  <2> QED BY <2>1
<1> HIDE DEF usage, response
<1>7. usage \in Seq(Previews \cup Responses)
  BY <1>6, SeqMonotone
<1>8. /\ events \in Seq(Previews \cup Responses)
      /\ Len(events) = Len(usage) + 1
      /\ \A k \in DOMAIN events : k # Len(events) => k \in DOMAIN usage /\ events[k] = usage[k]
  BY <1>5, <1>7
<1>9. ResponseLast(events)
  <2>1. \A k \in DOMAIN usage : usage[k].type # "ResponseCompleted"
    BY <1>6, PreviewsAreNoResponses
  <2> QED BY <1>8, <2>1 DEF ResponseLast
<1>10. r = [Emit(s, events) EXCEPT !.content = none, !.finished = TRUE]
  BY DEF FinishStream, response, usage, content
<1> HIDE DEF events, none, r
<1>11. /\ DOMAIN r = Fields /\ r.content = none /\ r.finished = TRUE
       /\ r.pending = <<>> \o events /\ r.tools = s.tools /\ r.used = s.used
       /\ r.text = s.text /\ r.reasoning = s.reasoning /\ r.next = s.next
       /\ r.usage = s.usage /\ r.stop = s.stop /\ r.final = s.final
       /\ r.failed = s.failed
  BY <1>1, <1>10, FieldsAre DEF Emit
<1>12. <<>> \o events = events
  BY <1>8
<1>13. DOMAIN r.content = {}
  BY <1>11 DEF none
<1>14. Typed(r)
  BY <1>8, <1>11, <1>12, <1>13 DEF Ready, Typed
<1>15. Distinct(r) /\ IsFiniteSet(r.used)
  BY <1>11 DEF Ready, Distinct
<1> QED BY <1>2, <1>9, <1>11, <1>12, <1>14, <1>15 DEF r

-----------------------------------------------------------------------------
(* The inductive invariant of the call.                                    *)

(* The assembler between two steps: Ready with nothing in hand until the
   response has taken the content out. *)
Assembled(s) ==
  /\ Typed(s)
  /\ IsFiniteSet(s.used)
  /\ Distinct(s)
  /\ ~s.finished => Owned(s, {})
  /\ s.final => s.text = Nil /\ s.reasoning = Nil
  /\ ~s.finished => s.pending \in Seq(Previews)
  /\ ResponseLast(s.pending)

(* Nothing is left to tell: every poll from here on ends the stream. *)
Exhausted == gate = "shut" \/ (asm.pending = <<>> /\ (asm.finished \/ asm.failed))

(* What the consumer has been told and what it holds. *)
Told ==
  /\ handle = "calling" => outcome = "idle"
  /\ handle = "open" => outcome # "idle"
  /\ handle = "open" /\ outcome # "open" => Exhausted

CallInv == Assembled(asm) /\ TypeOK /\ Told /\ RecordMatchesOutcome

(* An assembler that is not finished has every index in its place. *)
LEMMA AssembledReady ==
  ASSUME NEW s, Assembled(s), ~s.finished
  PROVE  Ready(s, {})
BY DEF Assembled, Ready

(* And a ready one that is quiet after the terminal item is assembled. *)
LEMMA ReadyAssembled ==
  ASSUME NEW s, Ready(s, {}), s.final => s.text = Nil /\ s.reasoning = Nil
  PROVE  Assembled(s)
BY NoResponse DEF Assembled, Ready

(* Events leave, or the stream fails: the rest of the assembler stays. *)
LEMMA PendingAssembled ==
  ASSUME NEW s, Assembled(s), NEW r, Same(r, s, {"pending", "failed"}),
         r.pending \in Seq(Previews \cup Responses), ResponseLast(r.pending),
         ~s.finished => r.pending \in Seq(Previews),
         r.failed \in BOOLEAN
  PROVE  Assembled(r)
<1>1. /\ DOMAIN r = Fields /\ r.content = s.content /\ r.tools = s.tools
      /\ r.used = s.used /\ r.text = s.text /\ r.reasoning = s.reasoning
      /\ r.next = s.next /\ r.usage = s.usage /\ r.stop = s.stop
      /\ r.final = s.final /\ r.finished = s.finished
  BY FieldsAre DEF Same
<1>2. OpenIndexes(r) = OpenIndexes(s) /\ ToolIndexes(r) = ToolIndexes(s)
  BY <1>1, OpenSame, ToolsSame
<1>3. Typed(r)
  BY <1>1 DEF Assembled, Typed
<1>4. Distinct(r)
  BY <1>1 DEF Assembled, Distinct
<1>5. ~r.finished => Owned(r, {})
  BY <1>1, <1>2 DEF Assembled, Owned
<1> QED BY <1>1, <1>3, <1>4, <1>5 DEF Assembled

(* The call starts in the invariant. *)
LEMMA InitCall == Init => CallInv
<1> SUFFICES ASSUME Init PROVE CallInv
  OBVIOUS
<1>1. asm = NewState
  BY DEF Init
<1>2. /\ DOMAIN asm = Fields /\ asm.pending = <<ResponseStarted>>
      /\ DOMAIN asm.content = {} /\ DOMAIN asm.tools = {} /\ asm.used = {}
      /\ asm.text = Nil /\ asm.reasoning = Nil /\ asm.next = 0
      /\ asm.usage = FALSE /\ asm.stop = FALSE /\ asm.final = FALSE
      /\ asm.finished = FALSE /\ asm.failed = FALSE
  BY <1>1 DEF NewState, Fields
<1>3. asm.pending \in Seq(Previews) /\ asm.pending \in Seq(Previews \cup Responses)
  BY <1>2 DEF Previews
<1>4. Typed(asm)
  <2>1. \A i \in DOMAIN asm.content : asm.content[i] \in AssistantParts
    BY <1>2
  <2>2. \A t \in DOMAIN asm.tools : asm.tools[t] \in ToolStates
    BY <1>2
  <2>3. {asm.usage, asm.stop, asm.final, asm.finished, asm.failed} \subseteq BOOLEAN
    BY <1>2
  <2>4. DOMAIN asm.content \subseteq Nat /\ DOMAIN asm.tools \subseteq Tools
    BY <1>2
  <2> QED BY <1>2, <1>3, <2>1, <2>2, <2>3, <2>4 DEF Typed
<1>5. Owned(asm, {})
  BY <1>2 DEF Owned, OpenIndexes, ToolIndexes
<1>6. Distinct(asm) /\ IsFiniteSet(asm.used)
  BY <1>2, FS_EmptySet DEF Distinct
<1>7. Assembled(asm)
  BY <1>2, <1>3, <1>4, <1>5, <1>6, NoResponse DEF Assembled
<1>8. TypeOK
  <2>1. sent \in Seq(Items)
    BY DEF Init
  <2> QED BY <1>4, <2>1 DEF TypeOK, Init
<1>9. Told /\ RecordMatchesOutcome
  BY NilAssumption DEF Told, RecordMatchesOutcome, Init
<1> QED BY <1>7, <1>8, <1>9 DEF CallInv

-----------------------------------------------------------------------------
(* One lemma per group of actions.                                         *)

(* The invocation has no record while something is left to tell. *)
LEMMA OpenHasNoRecord ==
  ASSUME CallInv, handle = "open", ~Exhausted
  PROVE  outcome = "open" /\ record = Nil
BY DEF CallInv, Told, RecordMatchesOutcome, TypeOK

(* stream() resolves. *)
LEMMA ConnectKeeps ==
  ASSUME CallInv, Connect \/ ConnectFails
  PROVE  CallInv'
<1>1. /\ asm' = asm /\ gate' = gate /\ sent' = sent /\ handle = "calling"
      /\ outcome = "idle" /\ record = Nil
  BY DEF Connect, ConnectFails, CallInv, Told, RecordMatchesOutcome, TypeOK
<1>2. Assembled(asm)'
  BY <1>1 DEF CallInv
<1>3. Typed(asm)'
  BY <1>2 DEF Assembled
<1>4. \/ handle' = "open" /\ outcome' = "open" /\ record' = record
      \/ handle' = "over" /\ outcome' = "failed" /\ record' = "error"
  BY <1>1 DEF Connect, ConnectFails, FirstRecord
<1>5. TypeOK'
  BY <1>1, <1>3, <1>4 DEF TypeOK, CallInv
<1>6. Told' /\ RecordMatchesOutcome'
  BY <1>1, <1>4, NilAssumption DEF Told, RecordMatchesOutcome
<1> QED BY <1>2, <1>5, <1>6 DEF CallInv

(* While the provider is asked, the assembler is ready. *)
LEMMA PullingReady ==
  ASSUME CallInv, Pulling
  PROVE  /\ Ready(asm, {})
         /\ asm.final => asm.text = Nil /\ asm.reasoning = Nil
         /\ ~asm.finished /\ ~asm.failed /\ asm.pending = <<>>
         /\ handle = "open" /\ ~Exhausted
<1>1. Assembled(asm) /\ ~asm.finished /\ asm.pending = <<>> /\ ~asm.failed
  BY DEF CallInv, Pulling
<1>2. Ready(asm, {})
  BY <1>1, AssembledReady
<1> QED BY <1>1, <1>2 DEF Assembled, Pulling, Exhausted

(* The history of items stays typed. *)
LEMMA SentGrows ==
  ASSUME CallInv, NEW item \in Items, sent' = Append(sent, item)
  PROVE  sent' \in Seq(Items)
BY DEF CallInv, TypeOK

(* The stream goes on with another assembler, the consumer told nothing. *)
LEMMA QuietStepKeeps ==
  ASSUME CallInv, Pulling, Assembled(asm'), sent' \in Seq(Items),
         UNCHANGED <<handle, gate, record, contractVars>>
  PROVE  CallInv'
<1>1. outcome = "open" /\ record = Nil /\ handle = "open"
  BY PullingReady, OpenHasNoRecord
<1>2. outcome' = outcome /\ handle' = handle /\ gate' = gate /\ record' = record
  BY DEF contractVars
<1>3. Typed(asm')
  BY DEF Assembled
<1>4. TypeOK'
  BY <1>2, <1>3 DEF CallInv, TypeOK
<1>5. Told' /\ RecordMatchesOutcome'
  BY <1>1, <1>2 DEF CallInv, Told, RecordMatchesOutcome
<1> QED BY <1>4, <1>5 DEF CallInv

(* The stream fails: the consumer is told and the record says so. *)
LEMMA InterruptKeeps ==
  ASSUME CallInv, Pulling, Interrupt, sent' \in Seq(Items)
  PROVE  CallInv'
<1>1. outcome = "open" /\ record = Nil /\ handle = "open"
  BY PullingReady, OpenHasNoRecord
<1>2. DOMAIN asm = Fields /\ Assembled(asm)
  BY DEF CallInv, Assembled, Typed
<1>3. /\ Same(asm', asm, {"pending", "failed"})
      /\ asm'.pending = <<>> /\ asm'.failed = TRUE
  BY <1>2, FieldsAre DEF Interrupt, Same
<1>4. Assembled(asm')
  <2>1. /\ asm'.pending \in Seq(Previews \cup Responses) /\ ResponseLast(asm'.pending)
        /\ asm'.pending \in Seq(Previews)
    BY <1>3 DEF ResponseLast
  <2> QED BY <1>2, <1>3, <2>1, PendingAssembled
<1>5. Typed(asm')
  BY <1>4 DEF Assembled
<1>6. /\ handle' = "open" /\ outcome' = "failed" /\ record' = "error"
      /\ gate' = GateShut
  BY <1>1 DEF Interrupt, FirstRecord
<1>7. TypeOK'
  BY <1>5, <1>6 DEF TypeOK, GateShut
<1>8. Told' /\ RecordMatchesOutcome'
  BY <1>3, <1>6, NilAssumption DEF Told, RecordMatchesOutcome, Exhausted
<1> QED BY <1>4, <1>7, <1>8 DEF CallInv

(* An item is handled or rejected. *)
LEMMA PullKeeps ==
  ASSUME CallInv, NEW item \in Items, Pull(item) \/ PullBad(item)
  PROVE  CallInv'
<1>1. CASE Pull(item)
  <2>1. /\ Pulling /\ sent' = Append(sent, item) /\ ~Rejects(asm, item)
        /\ asm' = Handle(asm, item) /\ UNCHANGED <<handle, gate, record, contractVars>>
    BY <1>1 DEF Pull
  <2>2. Ready(asm, {})
    BY <2>1, PullingReady
  <2>3. item \in ItemSet
    BY ItemsAssumption
  <2>4. Handled(asm', asm)
    BY <2>1, <2>2, <2>3, HandleReady
  <2>5. Assembled(asm')
    BY <2>4, ReadyAssembled DEF Handled
  <2> QED BY <2>1, <2>5, SentGrows, QuietStepKeeps
<1>2. CASE PullBad(item)
  <2>1. Pulling /\ Interrupt /\ sent' = Append(sent, item)
    BY <1>2 DEF PullBad
  <2> QED BY <2>1, SentGrows, InterruptKeeps
<1> QED BY <1>1, <1>2

(* The provider fails, or ends before its terminal item. *)
LEMMA ProviderStopsKeeps ==
  ASSUME CallInv, ProviderFails \/ ProviderEndsEarly
  PROVE  CallInv'
<1>1. Pulling /\ Interrupt /\ sent' = sent
  BY DEF ProviderFails, ProviderEndsEarly
<1>2. sent' \in Seq(Items)
  BY <1>1 DEF CallInv, TypeOK
<1> QED BY <1>1, <1>2, InterruptKeeps

(* The provider ends and the response is made. *)
LEMMA ProviderEndsKeeps ==
  ASSUME CallInv, ProviderEnds
  PROVE  CallInv'
<1>1. /\ Pulling /\ ~Incomplete(asm) /\ asm' = FinishStream(asm)
      /\ UNCHANGED <<handle, gate, record, sent, contractVars>>
  BY DEF ProviderEnds
<1>2. /\ Typed(asm') /\ IsFiniteSet(asm'.used) /\ Distinct(asm') /\ asm'.finished
      /\ asm'.text = Nil /\ asm'.reasoning = Nil /\ ResponseLast(asm'.pending)
  BY <1>1, PullingReady, FinishStreamReady
<1>3. Assembled(asm')
  BY <1>2 DEF Assembled
<1>4. sent' \in Seq(Items)
  BY <1>1 DEF CallInv, TypeOK
<1> QED BY <1>1, <1>3, <1>4, QuietStepKeeps

(* A sequence of length zero is empty. *)
LEMMA NoneLeft ==
  ASSUME NEW S, NEW q \in Seq(S), Len(q) = 0
  PROVE  q = <<>>
OBVIOUS

(* A delivery takes the first pending event; a response was the only one. *)
LEMMA DeliveringKeeps ==
  ASSUME CallInv, NEW e, Delivering(e)
  PROVE  /\ Assembled(asm') /\ handle = "open" /\ handle' = handle /\ sent' = sent
         /\ ~Exhausted /\ asm'.finished = asm.finished /\ asm'.failed = asm.failed
         /\ e.type = "ResponseCompleted" => asm'.pending = <<>> /\ asm.finished
<1>1. /\ asm.pending # <<>> /\ e = Head(asm.pending) /\ gate # "shut" /\ handle = "open"
      /\ asm' = [asm EXCEPT !.pending = Tail(asm.pending)]
      /\ handle' = handle /\ sent' = sent
  BY DEF Delivering
<1>2. /\ DOMAIN asm = Fields /\ Assembled(asm) /\ asm.failed \in BOOLEAN
      /\ asm.pending \in Seq(Previews \cup Responses) /\ ResponseLast(asm.pending)
  BY DEF CallInv, Assembled, Typed
<1>3. /\ Same(asm', asm, {"pending"}) /\ asm'.pending = Tail(asm.pending)
      /\ asm'.finished = asm.finished /\ asm'.failed = asm.failed
  BY <1>1, <1>2, FieldsAre DEF Same
<1>4. Tail(asm.pending) \in Seq(Previews \cup Responses)
  BY <1>1, <1>2
<1>5. ResponseLast(Tail(asm.pending))
  BY <1>1, <1>2 DEF ResponseLast
<1>6. Assembled(asm')
  <2>1. Same(asm', asm, {"pending", "failed"})
    BY <1>3 DEF Same
  <2>2. ~asm.finished => Tail(asm.pending) \in Seq(Previews)
    BY <1>1, <1>2 DEF Assembled
  <2> QED BY <1>2, <1>3, <1>4, <1>5, <2>1, <2>2, PendingAssembled
<1>7. e.type = "ResponseCompleted" => Tail(asm.pending) = <<>>
  <2> SUFFICES ASSUME e.type = "ResponseCompleted" PROVE Tail(asm.pending) = <<>>
    OBVIOUS
  <2>1. 1 \in DOMAIN asm.pending /\ asm.pending[1] = e
    BY <1>1, <1>2
  <2>2. Len(asm.pending) = 1
    BY <1>2, <2>1 DEF ResponseLast
  <2>3. Len(Tail(asm.pending)) = 0
    BY <1>1, <1>2, <2>2
  <2> QED BY <1>4, <2>3, NoneLeft
<1>8. e.type = "ResponseCompleted" => asm.finished
  <2>1. ASSUME asm.pending \in Seq(Previews) PROVE e \in Previews
    BY <1>1, <2>1
  <2> QED BY <1>2, <2>1, PreviewsAreNoResponses DEF Assembled
<1> QED BY <1>1, <1>3, <1>6, <1>7, <1>8 DEF Exhausted


(* A preview is delivered. *)
LEMMA DeliverKeeps ==
  ASSUME CallInv, Deliver
  PROVE  CallInv'
<1>1. /\ Delivering(Head(asm.pending)) /\ gate' = gate /\ record' = record
      /\ outcome' = outcome
  BY DEF Deliver
<1>2. /\ Assembled(asm') /\ handle = "open" /\ handle' = handle /\ sent' = sent
      /\ ~Exhausted
  BY <1>1, DeliveringKeeps
<1>3. outcome = "open" /\ record = Nil
  BY <1>2, OpenHasNoRecord
<1>4. Typed(asm')
  BY <1>2 DEF Assembled
<1>5. TypeOK'
  BY <1>1, <1>2, <1>4 DEF CallInv, TypeOK
<1>6. Told' /\ RecordMatchesOutcome'
  BY <1>1, <1>2, <1>3 DEF CallInv, Told, RecordMatchesOutcome
<1> QED BY <1>2, <1>5, <1>6 DEF CallInv

(* The response is delivered. *)
LEMMA DeliverResponseKeeps ==
  ASSUME CallInv, DeliverResponse
  PROVE  CallInv'
<1> DEFINE e == Head(asm.pending)
<1>1. /\ Delivering(e) /\ e.type = "ResponseCompleted" /\ outcome' = "completed"
      /\ record' = FirstRecord("ok") /\ gate' = GateShut
  BY DEF DeliverResponse
<1>2. /\ Assembled(asm') /\ handle = "open" /\ handle' = handle /\ sent' = sent
      /\ ~Exhausted /\ asm'.pending = <<>> /\ asm'.finished
  <2> HIDE DEF e
  <2> QED BY <1>1, DeliveringKeeps
<1>3. record' = "ok"
  BY <1>1, <1>2, OpenHasNoRecord DEF FirstRecord
<1>4. Typed(asm')
  BY <1>2 DEF Assembled
<1>5. TypeOK'
  BY <1>1, <1>2, <1>3, <1>4 DEF CallInv, TypeOK, GateShut
<1>6. Told' /\ RecordMatchesOutcome'
  BY <1>1, <1>2, <1>3, NilAssumption
     DEF CallInv, Told, RecordMatchesOutcome, Exhausted
<1> QED BY <1>2, <1>5, <1>6 DEF CallInv

(* The gate turns the response into an error. *)
LEMMA RefuseResponseKeeps ==
  ASSUME CallInv, RefuseResponse
  PROVE  CallInv'
<1>1. /\ Delivering(Head(asm.pending)) /\ outcome' = "failed"
      /\ record' = FirstRecord("error") /\ gate' = "shut"
  BY DEF RefuseResponse
<1>2. /\ Assembled(asm') /\ handle = "open" /\ handle' = handle /\ sent' = sent
      /\ ~Exhausted
  BY <1>1, DeliveringKeeps
<1>3. record' = "error"
  BY <1>1, <1>2, OpenHasNoRecord DEF FirstRecord
<1>4. Typed(asm')
  BY <1>2 DEF Assembled
<1>5. TypeOK'
  BY <1>1, <1>2, <1>3, <1>4 DEF CallInv, TypeOK
<1>6. Told' /\ RecordMatchesOutcome'
  BY <1>1, <1>2, <1>3, NilAssumption
     DEF CallInv, Told, RecordMatchesOutcome, Exhausted
<1> QED BY <1>2, <1>5, <1>6 DEF CallInv

(* The end of the stream, by itself or by the consumer. *)
LEMMA LetGoKeeps ==
  ASSUME CallInv, End \/ Drop
  PROVE  CallInv'
<1>1. /\ handle \in {"calling", "open"} /\ handle' \in {"over", "dropped"}
      /\ record' = FirstRecord("cancelled")
      /\ asm' = asm /\ gate' = gate /\ sent' = sent /\ outcome' = outcome
  BY DEF End, Drop, contractVars
<1>2. Assembled(asm') /\ Typed(asm')
  BY <1>1 DEF CallInv, Assembled
<1>3. TypeOK'
  BY <1>1, <1>2 DEF CallInv, TypeOK, FirstRecord
<1>4. Told'
  BY <1>1 DEF Told
<1>5. RecordMatchesOutcome'
  <2>1. CASE record = Nil
    <3>1. outcome \in {"idle", "open"} /\ record' = "cancelled"
      BY <1>1, <2>1, NilAssumption DEF CallInv, TypeOK, RecordMatchesOutcome, FirstRecord
    <3> QED BY <1>1, <3>1 DEF RecordMatchesOutcome
  <2>2. CASE record # Nil
    <3>1. record \in {"ok", "error"} /\ record' = record
      BY <1>1, <2>2 DEF CallInv, TypeOK, RecordMatchesOutcome, FirstRecord
    <3> QED BY <1>1, <3>1 DEF CallInv, TypeOK, RecordMatchesOutcome
  <2> QED BY <2>1, <2>2
<1> QED BY <1>2, <1>3, <1>4, <1>5 DEF CallInv

(* Every step keeps the invariant. *)
LEMMA StepCall == CallInv /\ [Next]_vars => CallInv'
<1> SUFFICES ASSUME CallInv, [Next]_vars PROVE CallInv'
  OBVIOUS
<1>1. CASE Connect \/ ConnectFails
  BY <1>1, ConnectKeeps
<1>2. CASE Provide
  BY <1>2, PullKeeps, ProviderStopsKeeps, ProviderEndsKeeps DEF Provide
<1>3. CASE Poll
  BY <1>3, DeliverKeeps, DeliverResponseKeeps, RefuseResponseKeeps, LetGoKeeps DEF Poll
<1>4. CASE Drop
  BY <1>4, LetGoKeeps
<1>5. CASE UNCHANGED vars
  <2>1. Assembled(asm)' /\ TypeOK'
    BY <1>5 DEF CallInv, vars, TypeOK
  <2>2. Told' /\ RecordMatchesOutcome'
    BY <1>5 DEF CallInv, vars, contractVars, Told, RecordMatchesOutcome, Exhausted
  <2> QED BY <2>1, <2>2 DEF CallInv
<1> QED BY <1>1, <1>2, <1>3, <1>4, <1>5 DEF Next

-----------------------------------------------------------------------------
(* The theorems.                                                           *)

\* In every reachable state CallInv holds: the assembler is consistent, the
\* consumer and the record agree on what happened.
THEOREM CallAlways == Spec => []CallInv
<1> QED BY InitCall, StepCall, PTL DEF Spec

\* Whatever the provider sends, in any order and for any length, every event is
\* well typed and a final response has only complete calls with an id.
THEOREM StreamTypes == Spec => []TypeOK
<1>1. CallInv => TypeOK
  BY DEF CallInv
<1> QED BY <1>1, CallAlways, PTL

\* No content index is lost or used twice before the response takes the content
\* out: allocate_content, the two open blocks, the tools and the closed parts
\* share 0..next-1 between them.
THEOREM IndexesAlwaysPartitioned == Spec => []IndexesPartitioned
<1>1. ASSUME NEW s, Owned(s, {}) PROVE Partitioned(s)
  BY <1>1 DEF Owned, Partitioned
<1>2. CallInv => IndexesPartitioned
  BY <1>1 DEF CallInv, Assembled, IndexesPartitioned
<1> QED BY <1>2, CallAlways, PTL

\* Ids observed from the provider and ids the assembler generates never meet:
\* no two tools of a stream have the same id.
THEOREM IdsAlwaysUnique == Spec => []UniqueIds
<1>1. CallInv => UniqueIds
  BY DEF CallInv, Assembled, UniqueIds
<1> QED BY <1>1, CallAlways, PTL

\* The invocation leaves one record, the one that fits what the consumer was
\* told, however delivery, interruption, refusal and drop interleave.
THEOREM RecordAlwaysMatches == Spec => []RecordMatchesOutcome
<1>1. CallInv => RecordMatchesOutcome
  BY DEF CallInv
<1> QED BY <1>1, CallAlways, PTL

\* When the terminal item has come and every call is complete, the response is
\* made: finish_stream's check for a missing content index never fires.
THEOREM ContentNeverMissing ==
  Spec => [](/\ Pulling /\ asm.final
             /\ \A t \in DOMAIN asm.tools : asm.tools[t].completed
             => ~Incomplete(asm))
<1>1. ASSUME CallInv, Pulling, asm.final,
             \A t \in DOMAIN asm.tools : asm.tools[t].completed
      PROVE  ~Incomplete(asm)
  <2>1. Ready(asm, {}) /\ asm.text = Nil /\ asm.reasoning = Nil
    BY <1>1, PullingReady
  <2>2. DOMAIN asm.content = 0..asm.next - 1
    BY <1>1, <2>1, ContentIsWhole
  <2>3. asm.next \in Nat
    BY <2>1 DEF Ready, Typed
  <2>4. Cardinality(0..asm.next - 1) = asm.next
    BY <2>3, FS_Interval
  <2> QED BY <1>1, <2>2, <2>4 DEF Incomplete
<1>2. CallInv => (/\ Pulling /\ asm.final
                  /\ \A t \in DOMAIN asm.tools : asm.tools[t].completed
                  => ~Incomplete(asm))
  BY <1>1
<1> QED BY <1>2, CallAlways, PTL

-----------------------------------------------------------------------------
(* What a sequence of events shows, event by event.                        *)

\* The blocks seen before and after each event.
Follows(from, events, seen) ==
  /\ seen[0] = from
  /\ \A k \in 1..Len(events) :
       Accepts(seen[k - 1], events[k]) /\ seen[k] = Observe(seen[k - 1], events[k])

\* The blocks from accept the events one after the other and end as to.
Leads(from, events, to) ==
  \E seen : Follows(from, events, seen) /\ seen[Len(events)] = to

(* No event shows nothing. *)
LEMMA LeadsNowhere ==
  ASSUME NEW b
  PROVE  Leads(b, <<>>, b)
<1> DEFINE seen == [k \in {0} |-> b]
<1>1. Follows(b, <<>>, seen) /\ seen[Len(<<>>)] = b
  BY DEF Follows
<1> QED BY <1>1 DEF Leads

(* One event more. *)
LEMMA LeadsOn ==
  ASSUME NEW S, NEW events \in Seq(S), NEW from, NEW b, Leads(from, events, b),
         NEW e \in S, NEW c, Accepts(b, e), c = Observe(b, e)
  PROVE  Leads(from, Append(events, e), c)
<1>1. PICK seen : Follows(from, events, seen) /\ seen[Len(events)] = b
  BY DEF Leads
<1> DEFINE n == Len(events)
           after == [k \in 0..n + 1 |-> IF k = n + 1 THEN c ELSE seen[k]]
<1>2. /\ n \in Nat /\ Len(Append(events, e)) = n + 1 /\ Append(events, e)[n + 1] = e
      /\ \A k \in 1..n : Append(events, e)[k] = events[k]
  OBVIOUS
<1>3. after[n + 1] = c /\ \A k \in 0..n : after[k] = seen[k]
  BY <1>2
<1> HIDE DEF n, after
<1>4. ASSUME NEW k \in 1..n + 1
      PROVE  /\ Accepts(after[k - 1], Append(events, e)[k])
             /\ after[k] = Observe(after[k - 1], Append(events, e)[k])
  <2>1. CASE k = n + 1
    <3>1. k - 1 = n /\ n \in 0..n
      BY <1>2, <2>1
    <3> QED BY <1>1, <1>2, <1>3, <2>1, <3>1 DEF n
  <2>2. CASE k # n + 1
    <3>1. k \in 1..n /\ k \in 0..n /\ k - 1 \in 0..n
      BY <1>2, <2>2
    <3>2. Accepts(seen[k - 1], events[k]) /\ seen[k] = Observe(seen[k - 1], events[k])
      BY <1>1, <3>1 DEF Follows, n
    <3> QED BY <1>2, <1>3, <3>1, <3>2
  <2> QED BY <2>1, <2>2
<1>5. after[0] = from
  BY <1>1, <1>2, <1>3 DEF Follows
<1> QED BY <1>2, <1>3, <1>4, <1>5 DEF Leads, Follows

(* Many events more. *)
LEMMA LeadsAlong ==
  ASSUME NEW S, NEW first \in Seq(S), NEW second \in Seq(S), NEW from, NEW b, NEW c,
         Leads(from, first, b), Leads(b, second, c)
  PROVE  Leads(from, first \o second, c)
<1>1. PICK seen : Follows(from, first, seen) /\ seen[Len(first)] = b
  BY DEF Leads
<1>2. PICK more : Follows(b, second, more) /\ more[Len(second)] = c
  BY DEF Leads
<1> DEFINE n == Len(first)
           m == Len(second)
           all == first \o second
           after == [k \in 0..n + m |-> IF k <= n THEN seen[k] ELSE more[k - n]]
<1>3. /\ n \in Nat /\ m \in Nat /\ Len(all) = n + m
      /\ \A k \in 1..n : all[k] = first[k]
      /\ \A k \in n + 1..n + m : all[k] = second[k - n]
  OBVIOUS
<1>4. /\ \A k \in 0..n : after[k] = seen[k]
      /\ \A k \in n..n + m : after[k] = more[k - n]
  <2>1. more[0] = seen[n]
    BY <1>1, <1>2 DEF Follows
  <2>2. \A k \in 0..n : after[k] = seen[k]
    BY <1>3
  <2>3. ASSUME NEW k \in n..n + m PROVE after[k] = more[k - n]
    <3>1. CASE k = n
      <4>1. n \in 0..n + m /\ n - n = 0
        BY <1>3
      <4> QED BY <2>1, <3>1, <4>1
    <3>2. CASE k # n
      BY <1>3, <3>2
    <3> QED BY <3>1, <3>2
  <2> QED BY <2>2, <2>3
<1> HIDE DEF n, m, all, after
<1>5. ASSUME NEW k \in 1..n + m
      PROVE  Accepts(after[k - 1], all[k]) /\ after[k] = Observe(after[k - 1], all[k])
  <2>1. CASE k <= n
    <3>1. k \in 1..n /\ k \in 0..n /\ k - 1 \in 0..n
      BY <1>3, <2>1
    <3>2. Accepts(seen[k - 1], first[k]) /\ seen[k] = Observe(seen[k - 1], first[k])
      BY <1>1, <3>1 DEF Follows, n
    <3> QED BY <1>3, <1>4, <3>1, <3>2
  <2>2. CASE k > n
    <3>1. /\ k \in n + 1..n + m /\ k \in n..n + m /\ k - 1 \in n..n + m
          /\ k - n \in 1..m /\ (k - 1) - n = (k - n) - 1
      BY <1>3, <2>2
    <3>2. /\ Accepts(more[(k - n) - 1], second[k - n])
          /\ more[k - n] = Observe(more[(k - n) - 1], second[k - n])
      BY <1>2, <3>1 DEF Follows, m
    <3>3. after[k - 1] = more[(k - n) - 1] /\ after[k] = more[k - n] /\ all[k] = second[k - n]
      BY <1>3, <1>4, <3>1
    <3> QED BY <3>2, <3>3
  <2> QED BY <1>3, <2>1, <2>2
<1>6. after[0] = from /\ after[n + m] = c
  <2>1. 0 \in 0..n /\ n + m \in n..n + m /\ (n + m) - n = m
    BY <1>3
  <2> QED BY <1>1, <1>2, <1>4, <2>1 DEF Follows, m
<1>7. Follows(from, all, after) /\ after[Len(all)] = c
  BY <1>3, <1>5, <1>6 DEF Follows
<1> QED BY <1>7 DEF Leads, all

(* The first event may follow, and leads to where the others start. *)
LEMMA LeadsFirst ==
  ASSUME NEW S, NEW events \in Seq(S), events # <<>>, NEW from, NEW to,
         Leads(from, events, to)
  PROVE  /\ Accepts(from, Head(events))
         /\ Leads(Observe(from, Head(events)), Tail(events), to)
<1>1. PICK seen : Follows(from, events, seen) /\ seen[Len(events)] = to
  BY DEF Leads
<1> DEFINE n == Len(events)
           rest == [k \in 0..n - 1 |-> seen[k + 1]]
<1>2. /\ n \in Nat \ {0} /\ Len(Tail(events)) = n - 1 /\ Head(events) = events[1]
      /\ \A k \in 1..n - 1 : Tail(events)[k] = events[k + 1]
  OBVIOUS
<1>3. /\ Accepts(seen[0], events[1]) /\ seen[1] = Observe(seen[0], events[1])
      /\ seen[0] = from
  <2>1. 1 \in 1..n /\ 1 - 1 = 0
    BY <1>2
  <2> QED BY <1>1, <2>1 DEF Follows
<1>4. ASSUME NEW k \in 1..n - 1
      PROVE  /\ Accepts(rest[k - 1], Tail(events)[k])
             /\ rest[k] = Observe(rest[k - 1], Tail(events)[k])
  <2>1. /\ k + 1 \in 1..n /\ (k + 1) - 1 = k /\ (k - 1) + 1 = k
        /\ k \in 0..n - 1 /\ k - 1 \in 0..n - 1
    BY <1>2
  <2>2. Accepts(seen[k], events[k + 1]) /\ seen[k + 1] = Observe(seen[k], events[k + 1])
    BY <1>1, <2>1 DEF Follows
  <2>3. rest[k] = seen[k + 1] /\ rest[k - 1] = seen[k]
    BY <2>1
  <2> QED BY <1>2, <2>2, <2>3
<1>5. rest[0] = seen[1] /\ rest[n - 1] = to
  <2>1. 0 \in 0..n - 1 /\ n - 1 \in 0..n - 1 /\ 0 + 1 = 1 /\ (n - 1) + 1 = n
    BY <1>2
  <2> QED BY <1>1, <2>1
<1> HIDE DEF rest
<1>6. Follows(seen[1], Tail(events), rest) /\ rest[Len(Tail(events))] = to
  BY <1>2, <1>4, <1>5 DEF Follows
<1>7. Leads(seen[1], Tail(events), to)
  BY <1>6 DEF Leads
<1> QED BY <1>2, <1>3, <1>7

-----------------------------------------------------------------------------
(* What an observer knows of a block that is not complete, and what each   *)
(* event adds.                                                             *)

Known(block, kind, id, name, body, call) ==
  /\ DOMAIN block = {"kind", "id", "name", "body", "call", "completed"}
  /\ block.kind = kind /\ block.id = id /\ block.name = name
  /\ block.body = body /\ block.call = call
  /\ block.completed = FALSE

\* Nothing but the block of i may differ.
Elsewhere(c, b, i) ==
  /\ DOMAIN c = DOMAIN b
  /\ \A j \in DOMAIN b : j # i => c[j] = b[j]

(* A new block, of each kind. *)
LEMMA NewBlockIs ==
  ASSUME NEW kind
  PROVE  Known(NewBlock(kind), kind, Nil, Nil, <<>>, Nil)
BY DEF NewBlock, Known

(* ContentStarted adds a block. *)
LEMMA StartShows ==
  ASSUME NEW b, NEW i, i \notin DOMAIN b, NEW kind
  PROVE  /\ Accepts(b, ContentStarted(i, kind))
         /\ Observe(b, ContentStarted(i, kind)) = Put(b, i, NewBlock(kind))
BY DEF Accepts, Observe, ContentStarted

(* TextDelta adds to the text. *)
LEMMA TextShows ==
  ASSUME NEW b, NEW i \in DOMAIN b, NEW text, NEW more,
         Known(b[i], "Text", Nil, Nil, text, Nil)
  PROVE  /\ Accepts(b, TextDelta(i, more))
         /\ LET c == Observe(b, TextDelta(i, more))
            IN  Elsewhere(c, b, i) /\ Known(c[i], "Text", Nil, Nil, text \o more, Nil)
<1>1. Observe(b, TextDelta(i, more)) = [b EXCEPT ![i] = [b[i] EXCEPT !.body = @ \o more]]
  BY DEF Observe, TextDelta
<1>2. Known([b[i] EXCEPT !.body = @ \o more], "Text", Nil, Nil, text \o more, Nil)
  BY DEF Known
<1>3. Accepts(b, TextDelta(i, more))
  BY DEF Accepts, TextDelta, Active, Known
<1> QED BY <1>1, <1>2, <1>3 DEF Elsewhere

(* ToolCallStarted names the call. *)
LEMMA CallStartShows ==
  ASSUME NEW b, NEW i \in DOMAIN b, NEW id, NEW name,
         Known(b[i], "ToolCall", Nil, Nil, <<>>, Nil)
  PROVE  /\ Accepts(b, ToolCallStarted(i, id, name))
         /\ LET c == Observe(b, ToolCallStarted(i, id, name))
            IN  Elsewhere(c, b, i) /\ Known(c[i], "ToolCall", id, name, <<>>, Nil)
<1>1. Observe(b, ToolCallStarted(i, id, name))
        = [b EXCEPT ![i] = [b[i] EXCEPT !.id = id, !.name = name]]
  BY DEF Observe, ToolCallStarted
<1>2. Known([b[i] EXCEPT !.id = id, !.name = name], "ToolCall", id, name, <<>>, Nil)
  BY DEF Known
<1>3. Accepts(b, ToolCallStarted(i, id, name))
  BY DEF Accepts, ToolCallStarted, Active, Known
<1> QED BY <1>1, <1>2, <1>3 DEF Elsewhere

(* ToolCallArgumentsDelta adds to the arguments of a call that was named. *)
LEMMA ArgumentsShow ==
  ASSUME NEW b, NEW i \in DOMAIN b, NEW id, id # Nil, NEW name, NEW args, NEW more,
         Known(b[i], "ToolCall", id, name, args, Nil)
  PROVE  /\ Accepts(b, ToolCallArgumentsDelta(i, more))
         /\ LET c == Observe(b, ToolCallArgumentsDelta(i, more))
            IN  Elsewhere(c, b, i) /\ Known(c[i], "ToolCall", id, name, args \o more, Nil)
<1>1. Observe(b, ToolCallArgumentsDelta(i, more))
        = [b EXCEPT ![i] = [b[i] EXCEPT !.body = @ \o more]]
  BY DEF Observe, ToolCallArgumentsDelta
<1>2. Known([b[i] EXCEPT !.body = @ \o more], "ToolCall", id, name, args \o more, Nil)
  BY DEF Known
<1>3. Accepts(b, ToolCallArgumentsDelta(i, more))
  BY DEF Accepts, ToolCallArgumentsDelta, Active, Known
<1> QED BY <1>1, <1>2, <1>3 DEF Elsewhere

(* ToolCallCompleted gives the call, which says what its fragments said. *)
LEMMA CallShows ==
  ASSUME NEW b, NEW i \in DOMAIN b, NEW args, NEW call,
         Known(b[i], "ToolCall", call.id, call.name, args, Nil),
         args # <<>> => Parsed(args) = call.args
  PROVE  /\ Accepts(b, ToolCallCompleted(i, call))
         /\ LET c == Observe(b, ToolCallCompleted(i, call))
            IN  /\ Elsewhere(c, b, i)
                /\ Known(c[i], "ToolCall", call.id, call.name, args, call)
<1>1. Observe(b, ToolCallCompleted(i, call)) = [b EXCEPT ![i] = [b[i] EXCEPT !.call = call]]
  BY DEF Observe, ToolCallCompleted
<1>2. Known([b[i] EXCEPT !.call = call], "ToolCall", call.id, call.name, args, call)
  BY DEF Known
<1>3. Accepts(b, ToolCallCompleted(i, call))
  <2>1. Active(b, i, {"ToolCall"}) /\ Announced(b[i], call)
    BY DEF Active, Announced, Known
  <2> QED BY <2>1 DEF Accepts, ToolCallCompleted
<1> QED BY <1>1, <1>2, <1>3 DEF Elsewhere

\* The block is complete and shows the part.
Fits(block, part) ==
  /\ block.completed
  /\ block.kind = part.kind
  /\ block.kind = "Text" => block.body = part.text
  /\ block.kind = "ToolCall" => block.call = part.call

(* ContentCompleted completes the block; of a tool call, once it was given. *)
LEMMA CompletionShows ==
  ASSUME NEW b, NEW i \in DOMAIN b, NEW kind \in Kinds, NEW id, NEW name, NEW body,
         NEW call, Known(b[i], kind, id, name, body, call),
         kind = "ToolCall" => call # Nil,
         NEW part, part.kind = kind, kind = "Text" => body = part.text,
         kind = "ToolCall" => call = part.call
  PROVE  /\ Accepts(b, ContentCompleted(i))
         /\ LET c == Observe(b, ContentCompleted(i))
            IN  Elsewhere(c, b, i) /\ Fits(c[i], part)
<1>1. Observe(b, ContentCompleted(i)) = [b EXCEPT ![i] = [b[i] EXCEPT !.completed = TRUE]]
  BY DEF Observe, ContentCompleted
<1>2. Fits([b[i] EXCEPT !.completed = TRUE], part)
  BY DEF Known, Fits
<1>3. Accepts(b, ContentCompleted(i))
  <2>1. Active(b, i, Kinds) /\ (b[i].kind = "ToolCall" => b[i].call # Nil)
    BY DEF Active, Known
  <2> QED BY <2>1 DEF Accepts, ContentCompleted
<1> QED BY <1>1, <1>2, <1>3 DEF Elsewhere

(* The other events show nothing of the content. *)
LEMMA NoticeShows ==
  ASSUME NEW b
  PROVE  /\ \A kind : Accepts(b, ProviderEvent(kind)) /\ Observe(b, ProviderEvent(kind)) = b
         /\ Accepts(b, Usage) /\ Observe(b, Usage) = b
         /\ Observe(b, ResponseStarted) = b
BY DEF Accepts, Observe, ProviderEvent, Usage, ResponseStarted

-----------------------------------------------------------------------------
(* What the assembler has told.                                            *)

\* The blocks b say what the assembler holds: every kept part, the text so
\* far, and of a call that is not complete nothing but its place.
Shown(b, s) ==
  /\ DOMAIN b = 0..s.next - 1
  /\ \A i \in DOMAIN s.content : Fits(b[i], s.content[i])
  /\ s.text # Nil => Known(b[s.text.index], "Text", Nil, Nil, s.text.text, Nil)
  /\ s.reasoning # Nil =>
       Known(b[s.reasoning.index], "ProviderData", Nil, Nil, <<>>, Nil)
  /\ \A t \in DOMAIN s.tools :
       ~s.tools[t].completed =>
         /\ Known(b[s.tools[t].index], "ToolCall", Nil, Nil, <<>>, Nil)
         /\ s.tools[t].id = Nil /\ ~s.tools[t].started /\ s.tools[t].emitted = 0

\* An observer of from that is given what is pending knows b.
Telling(from, s, b) == Leads(from, s.pending, b) /\ Shown(b, s)

Tells(from, s) == \E b : Telling(from, s, b)

(* What is in hand, open or held by a tool has a place of its own. *)
LEMMA Apart ==
  ASSUME NEW s, NEW hand, Ready(s, hand)
  PROVE  /\ s.next \in Nat
         /\ \A i \in hand \cup OpenIndexes(s) \cup ToolIndexes(s) :
              i \in 0..s.next - 1 /\ i \notin DOMAIN s.content
         /\ DOMAIN s.content \subseteq 0..s.next - 1
         /\ \A i \in hand : i \notin OpenIndexes(s) /\ i \notin ToolIndexes(s)
         /\ \A i \in OpenIndexes(s) : i \notin ToolIndexes(s)
         /\ s.text # Nil => s.text.index \in OpenIndexes(s) /\ s.reasoning = Nil
         /\ s.reasoning # Nil => s.reasoning.index \in OpenIndexes(s)
         /\ \A t \in DOMAIN s.tools :
              ~s.tools[t].completed => s.tools[t].index \in ToolIndexes(s)
         /\ \A t, u \in DOMAIN s.tools :
              t # u => s.tools[t].index # s.tools[u].index
<1>1. Owned(s, hand) /\ s.next \in Nat
  BY DEF Ready, Typed
<1>2. /\ s.text # Nil => s.text.index \in OpenIndexes(s) /\ s.reasoning = Nil
      /\ s.reasoning # Nil => s.reasoning.index \in OpenIndexes(s)
  BY <1>1 DEF Owned, OpenIndexes
<1>3. \A t \in DOMAIN s.tools :
        ~s.tools[t].completed => s.tools[t].index \in ToolIndexes(s)
  BY DEF ToolIndexes
<1> QED BY <1>1, <1>2, <1>3 DEF Owned

(* Shown looks at the content, the open blocks, the tools and the count. *)
LEMMA ShownSame ==
  ASSUME NEW b, NEW s, Shown(b, s), NEW r, NEW changed,
         changed \cap {"content", "text", "reasoning", "tools", "next"} = {},
         Same(r, s, changed)
  PROVE  Shown(b, r)
<1>1. /\ r.content = s.content /\ r.text = s.text /\ r.reasoning = s.reasoning
      /\ r.tools = s.tools /\ r.next = s.next
  BY FieldsAre DEF Same
<1> QED BY <1>1 DEF Shown

(* One pending event more, that leads from b to c. *)
LEMMA TellsOne ==
  ASSUME NEW from, NEW s, NEW b, Leads(from, s.pending, b), s.pending \in Seq(Previews),
         NEW e \in Previews, NEW c, Accepts(b, e), c = Observe(b, e),
         NEW r, r.pending = Append(s.pending, e) \/ r.pending = s.pending \o <<e>>
  PROVE  Leads(from, r.pending, c)
<1>1. s.pending \o <<e>> = Append(s.pending, e)
  OBVIOUS
<1> QED BY <1>1, LeadsOn

(* A notice says nothing of the content. *)
LEMMA NoticeTells ==
  ASSUME NEW from, NEW s, NEW hand, Ready(s, hand), NEW b, Telling(from, s, b),
         NEW kind \in {"text_metadata", "reasoning_delta", "reasoning",
                       "tool_call_metadata", "unknown_stream_item"}
  PROVE  Telling(from, Emit(s, <<ProviderEvent(kind)>>), b)
<1> DEFINE e == ProviderEvent(kind)
           r == Emit(s, <<e>>)
<1>1. DOMAIN s = Fields /\ s.pending \in Seq(Previews)
  BY DEF Ready, Typed
<1>2. Same(r, s, {"pending"}) /\ r.pending = s.pending \o <<e>>
  BY <1>1, EmitIs
<1>3. Accepts(b, e) /\ b = Observe(b, e) /\ e \in Previews
  BY NoticeShows, NoticeTypes
<1> HIDE DEF e, r
<1>4. Leads(from, r.pending, b)
  BY <1>1, <1>2, <1>3, TellsOne DEF Telling
<1>5. Shown(b, r)
  BY <1>2, ShownSame DEF Telling
<1> QED BY <1>4, <1>5 DEF Telling, r, e

(* A new index is a new block. *)
LEMMA AllocateTells ==
  ASSUME NEW from, NEW s, Ready(s, {}), NEW b, Telling(from, s, b), NEW kind \in Kinds
  PROVE  LET c == Put(b, s.next, NewBlock(kind))
         IN  /\ Telling(from, Allocate(s, kind), c)
             /\ Known(c[s.next], kind, Nil, Nil, <<>>, Nil)
<1> DEFINE e == ContentStarted(s.next, kind)
           c == Put(b, s.next, NewBlock(kind))
           r == Allocate(s, kind)
<1>1. DOMAIN s = Fields /\ s.next \in Nat /\ s.pending \in Seq(Previews)
  BY DEF Ready, Typed
<1>2. Same(r, s, {"pending", "next"}) /\ r.next = s.next + 1 /\ r.pending = Append(s.pending, e)
  BY <1>1, AllocateIs
<1>3. DOMAIN b = 0..s.next - 1 /\ s.next \notin DOMAIN b
  BY <1>1 DEF Telling, Shown
<1>4. Accepts(b, e) /\ Observe(b, e) = c
  BY <1>3, StartShows
<1>5. e \in Previews
  BY <1>1, EventTypes
<1>6. /\ DOMAIN c = DOMAIN b \cup {s.next} /\ c[s.next] = NewBlock(kind)
      /\ \A j \in DOMAIN b : c[j] = b[j]
  BY <1>3 DEF Put
<1>7. Known(c[s.next], kind, Nil, Nil, <<>>, Nil)
  BY <1>6, NewBlockIs
<1>8. /\ r.content = s.content /\ r.text = s.text /\ r.reasoning = s.reasoning
      /\ r.tools = s.tools
  BY <1>2, FieldsAre DEF Same
<1> HIDE DEF e, c, r
<1>9. Leads(from, r.pending, c)
  BY <1>1, <1>2, <1>4, <1>5, TellsOne DEF Telling
<1>10. Shown(c, r)
  <2>1. DOMAIN c = 0..r.next - 1
    BY <1>1, <1>2, <1>3, <1>6
  <2>2. Shown(b, s)
    BY DEF Telling
  <2>3. \A i \in DOMAIN s.content : i \in DOMAIN b
    BY <1>3, Apart
  <2>4. /\ s.text # Nil => s.text.index \in DOMAIN b
        /\ s.reasoning # Nil => s.reasoning.index \in DOMAIN b
        /\ \A t \in DOMAIN s.tools : ~s.tools[t].completed => s.tools[t].index \in DOMAIN b
    BY <1>3, Apart
  <2> QED BY <1>6, <1>8, <2>1, <2>2, <2>3, <2>4 DEF Shown
<1> QED BY <1>7, <1>9, <1>10 DEF Telling, c, r

(* The block in hand is completed and its part kept. *)
LEMMA CloseTells ==
  ASSUME NEW from, NEW i \in Nat, NEW s, Ready(s, {i}), NEW b, Telling(from, s, b),
         NEW kind \in Kinds, NEW id, NEW name, NEW body, NEW call,
         Known(b[i], kind, id, name, body, call), kind = "ToolCall" => call # Nil,
         NEW part, part.kind = kind, kind = "Text" => body = part.text,
         kind = "ToolCall" => call = part.call
  PROVE  Tells(from, Close(s, i, part))
<1> DEFINE e == ContentCompleted(i)
           c == Observe(b, e)
           r == Close(s, i, part)
<1>1. DOMAIN s = Fields /\ s.pending \in Seq(Previews)
  BY DEF Ready, Typed
<1>2. /\ Same(r, s, {"pending", "content"}) /\ r.content = Put(s.content, i, part)
      /\ r.pending = Append(s.pending, e)
  BY <1>1, CloseIs
<1>3. i \in DOMAIN b /\ DOMAIN b = 0..s.next - 1 /\ Shown(b, s)
  BY Apart DEF Telling, Shown
<1>4. Accepts(b, e) /\ Elsewhere(c, b, i) /\ Fits(c[i], part)
  BY <1>3, CompletionShows
<1>5. e \in Previews
  BY EventTypes
<1>6. /\ r.text = s.text /\ r.reasoning = s.reasoning /\ r.tools = s.tools
      /\ r.next = s.next
  BY <1>2, FieldsAre DEF Same
<1>7. /\ DOMAIN r.content = DOMAIN s.content \cup {i} /\ r.content[i] = part
      /\ \A j \in DOMAIN s.content : j # i /\ r.content[j] = s.content[j]
  <2>1. i \notin DOMAIN s.content
    BY Apart
  <2> HIDE DEF r
  <2> QED BY <1>2, <2>1 DEF Put
<1>8. Leads(from, r.pending, c)
  <2> HIDE DEF e, r
  <2> QED BY <1>1, <1>2, <1>4, <1>5, TellsOne DEF Telling
<1> HIDE DEF e, c, r
<1>9. Shown(c, r)
  <2>1. \A j \in DOMAIN r.content : Fits(c[j], r.content[j])
    <3>1. \A j \in DOMAIN s.content : j \in DOMAIN b
      BY <1>3, Apart
    <3> QED BY <1>3, <1>4, <1>7, <3>1 DEF Shown, Elsewhere
  <2>2. /\ s.text # Nil => s.text.index \in DOMAIN b /\ s.text.index # i
        /\ s.reasoning # Nil => s.reasoning.index \in DOMAIN b /\ s.reasoning.index # i
        /\ \A t \in DOMAIN s.tools :
             ~s.tools[t].completed => s.tools[t].index \in DOMAIN b /\ s.tools[t].index # i
    BY <1>3, Apart
  <2> QED BY <1>3, <1>4, <1>6, <2>1, <2>2 DEF Shown, Elsewhere
<1> QED BY <1>8, <1>9 DEF Tells, Telling, r

(* Opening text starts a block, if none is open. *)
LEMMA OpenTextTells ==
  ASSUME NEW from, NEW s, Ready(s, {}), s.reasoning = Nil, Tells(from, s)
  PROVE  Tells(from, OpenText(s))
<1>1. CASE s.text # Nil
  BY <1>1 DEF OpenText
<1>2. CASE s.text = Nil
  <2> DEFINE a == Allocate(s, "Text")
             block == [index |-> s.next, text |-> <<>>]
             r == OpenText(s)
  <2>1. PICK b : Telling(from, s, b)
    BY DEF Tells
  <2> DEFINE c == Put(b, s.next, NewBlock("Text"))
  <2>2. Telling(from, a, c) /\ Known(c[s.next], "Text", Nil, Nil, <<>>, Nil)
    BY <2>1, AllocateTells DEF Kinds
  <2>3. r = [a EXCEPT !.text = block]
    BY <1>2 DEF OpenText
  <2>4. DOMAIN s = Fields /\ DOMAIN a = Fields
    BY AllocateIs DEF Same, Ready, Typed
  <2>5. Same(a, s, {"pending", "next"})
    BY <2>4, AllocateIs
  <2> HIDE DEF a, c
  <2>6. Same(r, a, {"text"}) /\ r.text = block
    BY <2>3, <2>4, FieldsAre DEF Same
  <2>7. block.index = s.next /\ block.text = <<>>
    OBVIOUS
  <2> HIDE DEF r, block
  <2>8. /\ r.content = a.content /\ r.reasoning = a.reasoning /\ r.tools = a.tools
        /\ r.next = a.next /\ r.pending = a.pending /\ a.reasoning = Nil
    BY <2>5, <2>6, FieldsAre DEF Same
  <2>9. Shown(c, r)
    BY <2>2, <2>6, <2>7, <2>8 DEF Telling, Shown
  <2> QED BY <2>2, <2>8, <2>9 DEF Telling, Tells, r
<1> QED BY <1>1, <1>2

(* push_text: the consumer is shown the delta the block takes. *)
LEMMA PushTextTells ==
  ASSUME NEW from, NEW s, Ready(s, {}), s.reasoning = Nil, Tells(from, s),
         NEW text \in Texts
  PROVE  Tells(from, PushText(s, text))
<1> DEFINE o == OpenText(s)
           block == [o.text EXCEPT !.text = @ \o text]
           x == [o EXCEPT !.text = block]
           e == TextDelta(o.text.index, text)
           r == Emit(x, <<e>>)
<1>1. /\ Ready(o, {}) /\ o.text \in TextStates
      /\ Same(o, s, {"pending", "next", "text"})
  BY OpenTextReady
<1>2. PushText(s, text) = r
  BY DEF PushText
<1>3. PICK b : Telling(from, o, b)
  BY OpenTextTells DEF Tells
<1> HIDE DEF o
<1>4. /\ o.text # Nil /\ DOMAIN o = Fields /\ o.reasoning = Nil /\ o.text.index \in Nat
      /\ o.pending \in Seq(Previews) /\ o.text.text \in Texts
  BY <1>1, NilAssumption, FieldsAre DEF Same, Ready, TextStates
<1>5. block.index = o.text.index /\ block.text = o.text.text \o text
  BY <1>1 DEF TextStates
<1>6. Same(x, o, {"text"}) /\ x.text = block
  BY <1>4, FieldsAre DEF Same
<1>7. DOMAIN x = Fields
  BY <1>6 DEF Same
<1>8. e \in Previews
  BY <1>4, EventTypes
<1> HIDE DEF x, block
<1>9. Same(r, x, {"pending"}) /\ r.pending = x.pending \o <<e>>
  BY <1>7, EmitIs
<1>10. /\ r.content = o.content /\ r.reasoning = Nil /\ r.tools = o.tools
       /\ r.next = o.next /\ r.text = block /\ r.pending = o.pending \o <<e>>
  BY <1>4, <1>6, <1>9, FieldsAre DEF Same
<1>11. /\ DOMAIN b = 0..o.next - 1 /\ o.text.index \in DOMAIN b
       /\ Shown(b, o) /\ Known(b[o.text.index], "Text", Nil, Nil, o.text.text, Nil)
  BY <1>1, <1>3, <1>4, Apart DEF Telling, Shown
<1> DEFINE c == Observe(b, e)
<1>12. /\ Accepts(b, e) /\ Elsewhere(c, b, o.text.index)
       /\ Known(c[o.text.index], "Text", Nil, Nil, o.text.text \o text, Nil)
  BY <1>11, TextShows
<1> HIDE DEF e, r
<1>13. Leads(from, r.pending, c)
  BY <1>3, <1>4, <1>8, <1>10, <1>12, TellsOne DEF Telling
<1> HIDE DEF c
<1>14. Shown(c, r)
  <2>1. /\ \A j \in DOMAIN o.content : j \in DOMAIN b /\ j # o.text.index
        /\ \A t \in DOMAIN o.tools :
             ~o.tools[t].completed =>
               o.tools[t].index \in DOMAIN b /\ o.tools[t].index # o.text.index
    BY <1>1, <1>4, <1>11, Apart
  <2>2. DOMAIN c = 0..r.next - 1
    BY <1>10, <1>11, <1>12 DEF Elsewhere
  <2>3. ASSUME NEW j \in DOMAIN r.content PROVE Fits(c[j], r.content[j])
    BY <1>10, <1>11, <1>12, <2>1 DEF Shown, Elsewhere
  <2>4. Known(c[r.text.index], "Text", Nil, Nil, r.text.text, Nil)
    BY <1>5, <1>10, <1>12
  <2>5. ASSUME NEW t \in DOMAIN r.tools, ~r.tools[t].completed
        PROVE  /\ Known(c[r.tools[t].index], "ToolCall", Nil, Nil, <<>>, Nil)
               /\ r.tools[t].id = Nil /\ ~r.tools[t].started /\ r.tools[t].emitted = 0
    BY <1>10, <1>11, <1>12, <2>1, <2>5 DEF Shown, Elsewhere
  <2> QED BY <1>10, <2>2, <2>3, <2>4, <2>5 DEF Shown
<1> QED BY <1>2, <1>13, <1>14 DEF Tells, Telling

(* close_text: the text kept is the text shown. *)
LEMMA CloseTextTells ==
  ASSUME NEW from, NEW s, Ready(s, {}), Tells(from, s)
  PROVE  Tells(from, CloseText(s))
<1>1. CASE s.text = Nil
  BY <1>1 DEF CloseText
<1>2. CASE s.text # Nil
  <2> DEFINE i == s.text.index
             x == [s EXCEPT !.text = Nil]
             part == TextContent(s.text.text)
  <2>1. PICK b : Telling(from, s, b)
    BY DEF Tells
  <2>2. CloseText(s) = Close(x, i, part)
    BY <1>2 DEF CloseText
  <2>3. DOMAIN s = Fields /\ i \in Nat
    BY <1>2, TextIndex DEF Ready, Typed
  <2>4. Same(x, s, {"text"}) /\ x.text = Nil
    BY <2>3, FieldsAre DEF Same
  <2>5. part.kind = "Text" /\ part.text = s.text.text
    BY DEF TextContent
  <2> HIDE DEF x, part
  <2>6. /\ x.content = s.content /\ x.tools = s.tools /\ x.next = s.next
        /\ x.reasoning = s.reasoning /\ x.pending = s.pending
    BY <2>4, FieldsAre DEF Same
  <2>7. Ready(x, {i})
    <3>1. Owned(s, {}) /\ s.reasoning = Nil
      BY <1>2 DEF Ready, Owned
    <3>2. /\ OpenIndexes(s) = {i} /\ OpenIndexes(x) = {}
          /\ ToolIndexes(x) = ToolIndexes(s)
      BY <1>2, <2>4, <2>6, <3>1, ToolsSame DEF OpenIndexes
    <3> HIDE DEF i
    <3>3. Owned(x, {i})
      BY <2>4, <2>6, <3>1, <3>2 DEF Owned
    <3>4. Same(x, s, {"text", "reasoning"})
      BY <2>4 DEF Same
    <3> QED BY <2>4, <2>6, <3>1, <3>3, <3>4, BlocksReady
  <2>8. Telling(from, x, b) /\ Known(b[i], "Text", Nil, Nil, s.text.text, Nil)
    BY <1>2, <2>1, <2>4, <2>6 DEF Telling, Shown
  <2> HIDE DEF i
  <2>9. Tells(from, Close(x, i, part))
    BY <2>3, <2>5, <2>7, <2>8, CloseTells DEF Kinds
  <2> QED BY <2>2, <2>9
<1> QED BY <1>1, <1>2

(* Taking the open reasoning leaves its block in hand. *)
LEMMA TakeReasoningTells ==
  ASSUME NEW from, NEW s, Ready(s, {}), NEW b, Telling(from, s, b), s.reasoning # Nil
  PROVE  /\ Telling(from, [s EXCEPT !.reasoning = Nil], b)
         /\ Known(b[s.reasoning.index], "ProviderData", Nil, Nil, <<>>, Nil)
<1> DEFINE x == [s EXCEPT !.reasoning = Nil]
<1>1. Same(x, s, {"reasoning"}) /\ x.reasoning = Nil
  BY TakeReasoningReady
<1> HIDE DEF x
<1>2. /\ x.content = s.content /\ x.tools = s.tools /\ x.next = s.next
      /\ x.text = s.text /\ x.pending = s.pending
  BY <1>1, FieldsAre DEF Same
<1>3. Telling(from, x, b)
  BY <1>1, <1>2 DEF Telling, Shown
<1> QED BY <1>3 DEF Telling, Shown, x

(* close_reasoning. *)
LEMMA CloseReasoningTells ==
  ASSUME NEW from, NEW s, Ready(s, {}), Tells(from, s)
  PROVE  Tells(from, CloseReasoning(s))
<1>1. CASE s.reasoning = Nil
  BY <1>1 DEF CloseReasoning
<1>2. CASE s.reasoning # Nil
  <2> DEFINE i == s.reasoning.index
             x == [s EXCEPT !.reasoning = Nil]
             part == DataContent("reasoning",
                                 Reasoning(s.reasoning.id, s.reasoning.text))
  <2>1. PICK b : Telling(from, s, b)
    BY DEF Tells
  <2>2. CloseReasoning(s) = Close(x, i, part)
    BY <1>2 DEF CloseReasoning
  <2>3. Ready(x, {i}) /\ i \in Nat
    BY <1>2, TakeReasoningReady, ReasoningIndex
  <2>4. Telling(from, x, b) /\ Known(b[i], "ProviderData", Nil, Nil, <<>>, Nil)
    BY <1>2, <2>1, TakeReasoningTells
  <2>5. part.kind = "ProviderData"
    BY DEF DataContent
  <2> HIDE DEF x, part, i
  <2>6. Tells(from, Close(x, i, part))
    BY <2>3, <2>4, <2>5, CloseTells DEF Kinds
  <2> QED BY <2>2, <2>6
<1> QED BY <1>1, <1>2

(* Opening reasoning starts a block, if none is open. *)
LEMMA OpenReasoningTells ==
  ASSUME NEW from, NEW s, Ready(s, {}), s.text = Nil, Tells(from, s),
         NEW id \in ReasoningIds \cup {Nil}
  PROVE  Tells(from, OpenReasoning(s, id))
<1>1. CASE s.reasoning # Nil
  BY <1>1 DEF OpenReasoning
<1>2. CASE s.reasoning = Nil
  <2> DEFINE a == Allocate(s, "ProviderData")
             block == [index |-> s.next, id |-> id, text |-> <<>>]
             r == OpenReasoning(s, id)
  <2>1. PICK b : Telling(from, s, b)
    BY DEF Tells
  <2> DEFINE c == Put(b, s.next, NewBlock("ProviderData"))
  <2>2. Telling(from, a, c) /\ Known(c[s.next], "ProviderData", Nil, Nil, <<>>, Nil)
    BY <2>1, AllocateTells DEF Kinds
  <2>3. r = [a EXCEPT !.reasoning = block]
    BY <1>2 DEF OpenReasoning
  <2>4. DOMAIN s = Fields /\ DOMAIN a = Fields
    BY AllocateIs DEF Same, Ready, Typed
  <2>5. Same(a, s, {"pending", "next"})
    BY <2>4, AllocateIs
  <2> HIDE DEF a, c
  <2>6. Same(r, a, {"reasoning"}) /\ r.reasoning = block /\ block.index = s.next
    BY <2>3, <2>4, FieldsAre DEF Same
  <2> HIDE DEF r, block
  <2>7. /\ r.content = a.content /\ r.text = a.text /\ r.tools = a.tools
        /\ r.next = a.next /\ r.pending = a.pending /\ a.text = Nil
    BY <2>5, <2>6, FieldsAre DEF Same
  <2>8. Shown(c, r)
    BY <2>2, <2>6, <2>7 DEF Telling, Shown
  <2> QED BY <2>2, <2>7, <2>8 DEF Telling, Tells, r
<1> QED BY <1>1, <1>2

(* push_reasoning_delta: the text of reasoning is not shown. *)
LEMMA PushReasoningDeltaTells ==
  ASSUME NEW from, NEW s, Ready(s, {}), s.text = Nil, Tells(from, s),
         NEW id \in ReasoningIds \cup {Nil}, NEW text \in Texts
  PROVE  Tells(from, PushReasoningDelta(s, id, text))
<1>1. CASE text = <<>>
  BY <1>1 DEF PushReasoningDelta
<1>2. CASE text # <<>>
  <2> DEFINE c == IF s.reasoning # Nil /\ s.reasoning.id # id
                  THEN CloseReasoning(s) ELSE s
             o == OpenReasoning(c, id)
             block == [o.reasoning EXCEPT !.text = @ \o text]
             x == [o EXCEPT !.reasoning = block]
             e == ProviderEvent("reasoning_delta")
  <2>1. PushReasoningDelta(s, id, text) = Emit(x, <<e>>)
    BY <1>2 DEF PushReasoningDelta
  <2>2. /\ Ready(c, {}) /\ Same(c, s, {"pending", "content", "reasoning"})
        /\ Tells(from, c)
    <3>1. DOMAIN s = Fields
      BY DEF Ready, Typed
    <3> QED BY <3>1, CloseReasoningReady, CloseReasoningTells DEF Same
  <2> HIDE DEF c
  <2>3. c.text = Nil
    BY <2>2, FieldsAre DEF Same
  <2>4. /\ Ready(o, {}) /\ Same(o, c, {"pending", "next", "reasoning"})
        /\ o.reasoning \in ReasoningStates
    BY <2>2, <2>3, OpenReasoningReady
  <2>5. PICK b : Telling(from, o, b)
    BY <2>2, <2>3, OpenReasoningTells DEF Tells
  <2> HIDE DEF o
  <2>6. DOMAIN o = Fields /\ o.reasoning # Nil /\ o.pending \in Seq(Previews)
    BY <2>4, NilAssumption DEF Same, Ready
  <2>7. block.index = o.reasoning.index
    BY <2>4 DEF ReasoningStates
  <2> HIDE DEF block
  <2>8. Same(x, o, {"reasoning"}) /\ x.reasoning = block
    BY <2>6, FieldsAre DEF Same
  <2> HIDE DEF x
  <2>9. /\ x.content = o.content /\ x.tools = o.tools /\ x.next = o.next
        /\ x.text = o.text /\ x.pending = o.pending /\ DOMAIN x = Fields
    BY <2>8, FieldsAre DEF Same
  <2>10. Telling(from, x, b)
    BY <2>5, <2>6, <2>7, <2>8, <2>9 DEF Telling, Shown
  <2>11. Same(Emit(x, <<e>>), x, {"pending"}) /\ Emit(x, <<e>>).pending = x.pending \o <<e>>
    BY <2>9, EmitIs
  <2>12. Accepts(b, e) /\ b = Observe(b, e) /\ e \in Previews
    BY NoticeShows, NoticeTypes
  <2> HIDE DEF e
  <2>13. Leads(from, Emit(x, <<e>>).pending, b)
    BY <2>6, <2>9, <2>10, <2>11, <2>12, TellsOne DEF Telling
  <2>14. Shown(b, Emit(x, <<e>>))
    BY <2>10, <2>11, ShownSame DEF Telling
  <2> QED BY <2>1, <2>13, <2>14 DEF Tells, Telling
<1> QED BY <1>1, <1>2

(* complete_reasoning: over the block shown, or one of its own. *)
LEMMA CompleteReasoningTells ==
  ASSUME NEW from, NEW s, Ready(s, {}), s.text = Nil, Tells(from, s),
         NEW r \in Reasonings
  PROVE  Tells(from, CompleteReasoning(s, r))
<1> DEFINE e == ProviderEvent("reasoning")
           part == DataContent("reasoning", r)
<1>1. PICK b : Telling(from, s, b)
  BY DEF Tells
<1>2. part.kind = "ProviderData" /\ <<e>> \in Seq(Previews)
  BY NoticeTypes DEF DataContent
<1>3. ASSUME NEW x, NEW i \in Nat, Ready(x, {i}), NEW c, Telling(from, x, c),
             Known(c[i], "ProviderData", Nil, Nil, <<>>, Nil)
      PROVE  Tells(from, Close(Emit(x, <<e>>), i, part))
  <2>1. Telling(from, Emit(x, <<e>>), c)
    BY <1>3, NoticeTells
  <2>2. Ready(Emit(x, <<e>>), {i})
    BY <1>2, <1>3, EmitReady
  <2> HIDE DEF part, e
  <2> QED BY <1>2, <1>3, <2>1, <2>2, CloseTells DEF Kinds
<1>4. CASE s.reasoning = Nil /\ EmptyReasoning(r)
  BY <1>4 DEF CompleteReasoning
<1>5. CASE s.reasoning # Nil
  <2> DEFINE x == [s EXCEPT !.reasoning = Nil]
  <2>1. CompleteReasoning(s, r) = Close(Emit(x, <<e>>), s.reasoning.index, part)
    BY <1>5 DEF CompleteReasoning
  <2>2. Ready(x, {s.reasoning.index}) /\ s.reasoning.index \in Nat
    BY <1>5, TakeReasoningReady, ReasoningIndex
  <2>3. /\ Telling(from, x, b)
        /\ Known(b[s.reasoning.index], "ProviderData", Nil, Nil, <<>>, Nil)
    BY <1>1, <1>5, TakeReasoningTells
  <2> HIDE DEF x, e, part
  <2> QED BY <1>3, <2>1, <2>2, <2>3
<1>6. CASE s.reasoning = Nil /\ ~EmptyReasoning(r)
  <2> DEFINE a == Allocate(s, "ProviderData")
             x == [a EXCEPT !.reasoning = Nil]
             c == Put(b, s.next, NewBlock("ProviderData"))
  <2>1. CompleteReasoning(s, r) = Close(Emit(x, <<e>>), s.next, part)
    BY <1>6 DEF CompleteReasoning
  <2>2. /\ Ready(a, {s.next}) /\ Same(a, s, {"pending", "next"}) /\ s.next \in Nat
    BY AllocateReady DEF Kinds, Ready, Typed
  <2>3. Telling(from, a, c) /\ Known(c[s.next], "ProviderData", Nil, Nil, <<>>, Nil)
    BY <1>1, AllocateTells DEF Kinds
  <2> HIDE DEF a, c, e, part
  <2>4. DOMAIN a = Fields /\ a.reasoning = Nil /\ a.text = Nil
    BY <1>6, <2>2, FieldsAre DEF Same
  <2>5. Same(x, a, {"reasoning"}) /\ x.reasoning = Nil
    BY <2>4, FieldsAre DEF Same
  <2> HIDE DEF x
  <2>6. /\ x.content = a.content /\ x.tools = a.tools /\ x.next = a.next
        /\ x.text = Nil /\ x.pending = a.pending
    BY <2>4, <2>5, FieldsAre DEF Same
  <2>7. OpenIndexes(x) = OpenIndexes(a) /\ ToolIndexes(x) = ToolIndexes(a)
    BY <2>4, <2>5, <2>6, ToolsSame DEF OpenIndexes
  <2>8. Owned(x, {s.next})
    BY <2>2, <2>5, <2>6, <2>7 DEF Ready, Owned
  <2>9. Same(x, a, {"text", "reasoning"})
    BY <2>5 DEF Same
  <2>10. Ready(x, {s.next})
    BY <2>2, <2>5, <2>6, <2>8, <2>9, BlocksReady
  <2>11. Telling(from, x, c)
    BY <2>3, <2>5, <2>6 DEF Telling, Shown
  <2> QED BY <1>3, <2>1, <2>2, <2>3, <2>10, <2>11
<1> QED BY <1>4, <1>5, <1>6

(* push_provider_content: a block started, noticed and completed. *)
LEMMA PushProviderContentTells ==
  ASSUME NEW from, NEW s, Ready(s, {}), Tells(from, s),
         NEW kind \in {"reasoning", "tool_call_metadata"}, NEW value
  PROVE  Tells(from, PushProviderContent(s, kind, value))
<1> DEFINE a == Allocate(s, "ProviderData")
           x == Emit(a, <<ProviderEvent(kind)>>)
           part == DataContent(kind, value)
           c(b) == Put(b, s.next, NewBlock("ProviderData"))
<1>1. PICK b : Telling(from, s, b)
  BY DEF Tells
<1>2. PushProviderContent(s, kind, value) = Close(x, s.next, part)
  BY DEF PushProviderContent
<1>3. Ready(a, {s.next}) /\ s.next \in Nat
  BY AllocateReady DEF Kinds, Ready, Typed
<1>4. Telling(from, a, c(b)) /\ Known(c(b)[s.next], "ProviderData", Nil, Nil, <<>>, Nil)
  BY <1>1, AllocateTells DEF Kinds
<1>5. part.kind = "ProviderData"
  BY DEF DataContent
<1> HIDE DEF a, c, part
<1>6. Ready(x, {s.next}) /\ Telling(from, x, c(b))
  <2>1. <<ProviderEvent(kind)>> \in Seq(Previews)
    BY NoticeTypes
  <2> QED BY <1>3, <1>4, <2>1, EmitReady, NoticeTells
<1> HIDE DEF x
<1>7. Tells(from, Close(x, s.next, part))
  BY <1>3, <1>4, <1>5, <1>6, CloseTells DEF Kinds
<1> QED BY <1>2, <1>7

(* One tool changes; unless it is complete, only its name and arguments. *)
LEMMA ToolTells ==
  ASSUME NEW from, NEW s, Tells(from, s), NEW t \in DOMAIN s.tools,
         NEW tool, tool.index = s.tools[t].index, tool.id = s.tools[t].id,
         tool.completed = s.tools[t].completed, tool.started = s.tools[t].started,
         tool.emitted = s.tools[t].emitted,
         NEW r, Same(r, s, {"tools"}), r.tools = [s.tools EXCEPT ![t] = tool]
  PROVE  Tells(from, r)
<1>1. PICK b : Telling(from, s, b)
  BY DEF Tells
<1>2. /\ r.content = s.content /\ r.text = s.text /\ r.reasoning = s.reasoning
      /\ r.next = s.next /\ r.pending = s.pending
  BY FieldsAre DEF Same
<1>3. /\ DOMAIN r.tools = DOMAIN s.tools
      /\ \A u \in DOMAIN s.tools :
           /\ r.tools[u].index = s.tools[u].index
           /\ r.tools[u].id = s.tools[u].id
           /\ r.tools[u].completed = s.tools[u].completed
           /\ r.tools[u].started = s.tools[u].started
           /\ r.tools[u].emitted = s.tools[u].emitted
  OBVIOUS
<1>4. Shown(b, r)
  BY <1>1, <1>2, <1>3 DEF Telling, Shown
<1> QED BY <1>1, <1>2, <1>4 DEF Telling, Tells

(* A tool that is first heard of starts a block. *)
LEMMA EnsureToolTells ==
  ASSUME NEW from, NEW s, Ready(s, {}), Tells(from, s), NEW t \in Tools
  PROVE  Tells(from, EnsureTool(s, t))
<1>1. CASE t \in DOMAIN s.tools
  BY <1>1 DEF EnsureTool
<1>2. CASE t \notin DOMAIN s.tools
  <2> DEFINE a == Allocate(s, "ToolCall")
             tool == NewTool(s.next)
             r == EnsureTool(s, t)
  <2>1. PICK b : Telling(from, s, b)
    BY DEF Tells
  <2> DEFINE c == Put(b, s.next, NewBlock("ToolCall"))
  <2>2. Telling(from, a, c) /\ Known(c[s.next], "ToolCall", Nil, Nil, <<>>, Nil)
    BY <2>1, AllocateTells DEF Kinds
  <2>3. r = [a EXCEPT !.tools = Put(a.tools, t, tool)]
    BY <1>2 DEF EnsureTool
  <2>4. DOMAIN s = Fields /\ DOMAIN a = Fields
    BY AllocateIs DEF Same, Ready, Typed
  <2>5. Same(a, s, {"pending", "next"})
    BY <2>4, AllocateIs
  <2> HIDE DEF a, c
  <2>6. Same(r, a, {"tools"}) /\ r.tools = Put(a.tools, t, tool)
    BY <2>3, <2>4, FieldsAre DEF Same
  <2>7. /\ tool.index = s.next /\ tool.id = Nil /\ ~tool.started /\ tool.emitted = 0
    BY DEF NewTool
  <2> HIDE DEF r, tool
  <2>8. /\ r.content = a.content /\ r.text = a.text /\ r.reasoning = a.reasoning
        /\ r.next = a.next /\ r.pending = a.pending /\ a.tools = s.tools
    BY <2>5, <2>6, FieldsAre DEF Same
  <2>9. /\ DOMAIN r.tools = DOMAIN a.tools \cup {t} /\ r.tools[t] = tool
        /\ \A u \in DOMAIN a.tools : u # t /\ r.tools[u] = a.tools[u]
    BY <1>2, <2>6, <2>8 DEF Put
  <2>10. Shown(c, r)
    BY <2>2, <2>7, <2>8, <2>9 DEF Telling, Shown
  <2> QED BY <2>2, <2>8, <2>10 DEF Telling, Tells, r
<1> QED BY <1>1, <1>2

(* A tool that was not complete is not complete once it is known. *)
LEMMA FreshOrOpen ==
  ASSUME NEW s, Ready(s, {}), NEW t \in Tools,
         t \in DOMAIN s.tools => ~s.tools[t].completed
  PROVE  ~EnsureTool(s, t).tools[t].completed
<1>1. CASE t \in DOMAIN s.tools
  BY <1>1 DEF EnsureTool
<1>2. CASE t \notin DOMAIN s.tools
  <2>1. DOMAIN Allocate(s, "ToolCall") = Fields
    BY AllocateIs DEF Same, Ready, Typed
  <2>2. EnsureTool(s, t).tools = Put(Allocate(s, "ToolCall").tools, t, NewTool(s.next))
    BY <1>2, <2>1, FieldsAre DEF EnsureTool
  <2>3. EnsureTool(s, t).tools[t] = NewTool(s.next)
    BY <2>2 DEF Put
  <2> QED BY <2>3 DEF NewTool
<1> QED BY <1>1, <1>2

(* push_tool_delta: nothing is told of a call before it is complete, because it
   gets its id when it is. *)
LEMMA PushToolDeltaTells ==
  ASSUME NEW from, NEW s, Ready(s, {}), Tells(from, s), NEW t \in Tools,
         NEW part \in {"name", "args"}, NEW atom \in Atoms, ~BadDelta(s, t)
  PROVE  Tells(from, PushToolDelta(s, t, part, atom))
<1> DEFINE known == EnsureTool(s, t)
           old == known.tools[t]
           tool == IF part = "name" THEN [old EXCEPT !.name = Append(old.name, atom)]
                   ELSE [old EXCEPT !.args = Append(old.args, atom)]
           pushed == IF part = "name"
                     THEN [known EXCEPT !.tools[t].name = Append(@, atom)]
                     ELSE [known EXCEPT !.tools[t].args = Append(@, atom)]
<1>1. PushToolDelta(s, t, part, atom)
        = FlushArguments(StartIfIdentified(pushed, t, Nil), t)
  BY DEF PushToolDelta
<1>2. Ready(known, {}) /\ t \in DOMAIN known.tools /\ Tells(from, known)
  BY EnsureToolReady, EnsureToolTells
<1>3. ~known.tools[t].completed
  BY FreshOrOpen DEF BadDelta
<1> HIDE DEF known
<1>4. DOMAIN known = Fields /\ old \in ToolStates
  BY <1>2 DEF Ready, Typed
<1>5. /\ tool.index = old.index /\ tool.id = old.id /\ tool.completed = old.completed
      /\ tool.started = old.started /\ tool.emitted = old.emitted
  BY <1>4 DEF ToolStates
<1>6. Same(pushed, known, {"tools"}) /\ pushed.tools = [known.tools EXCEPT ![t] = tool]
  BY <1>4, FieldsAre DEF Same
<1>7. old.id = Nil /\ ~old.started
  BY <1>2, <1>3 DEF Tells, Telling, Shown
<1> HIDE DEF tool, pushed
<1>8. Tells(from, pushed)
  BY <1>2, <1>5, <1>6, ToolTells
<1>9. pushed.tools[t].id = Nil /\ ~pushed.tools[t].started
  BY <1>2, <1>5, <1>6, <1>7
<1>10. StartIfIdentified(pushed, t, Nil) = pushed
  BY <1>9 DEF StartIfIdentified
<1>11. FlushArguments(pushed, t) = pushed
  BY <1>9 DEF FlushArguments
<1> QED BY <1>1, <1>8, <1>10, <1>11

(* flush_tool_arguments of a call that was just named: its fragments, one by
   one, show the arguments it collected. *)
LEMMA FragmentsShow ==
  ASSUME NEW b, NEW i \in DOMAIN b, i \in Nat, NEW id, id # Nil, NEW name,
         NEW args \in Seq(Atoms), Known(b[i], "ToolCall", id, name, <<>>, Nil)
  PROVE  LET events == [k \in DOMAIN args |-> ToolCallArgumentsDelta(i, <<args[k]>>)]
         IN  /\ events \in Seq(Previews)
             /\ \E c : /\ Leads(b, events, c)
                       /\ Elsewhere(c, b, i)
                       /\ Known(c[i], "ToolCall", id, name, args, Nil)
<1> DEFINE events == [k \in DOMAIN args |-> ToolCallArgumentsDelta(i, <<args[k]>>)]
           Shows(n, c) ==
             /\ Leads(b, SubSeq(events, 1, n), c)
             /\ Elsewhere(c, b, i)
             /\ Known(c[i], "ToolCall", id, name, SubSeq(args, 1, n), Nil)
           Bad == {n \in 0..Len(args) : ~(\E c : Shows(n, c))}
<1>1. Len(args) \in Nat /\ DOMAIN args = 1..Len(args)
  OBVIOUS
<1>2. \A k \in 1..Len(args) : events[k] \in Previews
  <2> SUFFICES ASSUME NEW k \in 1..Len(args) PROVE events[k] \in Previews
    OBVIOUS
  <2>1. <<args[k]>> \in Texts
    BY DEF Texts
  <2> QED BY <1>1, <2>1, EventTypes
<1>3. events \in Seq(Previews) /\ Len(events) = Len(args)
  BY <1>1, <1>2
<1>4. \A k \in 1..Len(args) : events[k] = ToolCallArgumentsDelta(i, <<args[k]>>)
  BY <1>1
<1> HIDE DEF events
<1>5. Shows(0, b)
  <2>1. SubSeq(events, 1, 0) = <<>> /\ SubSeq(args, 1, 0) = <<>>
    BY SubSeqEmpty
  <2> QED BY <2>1, LeadsNowhere DEF Elsewhere
<1>6. ASSUME NEW n \in 1..Len(args), NEW c, Shows(n - 1, c)
      PROVE  \E d : Shows(n, d)
  <2> DEFINE e == ToolCallArgumentsDelta(i, <<args[n]>>)
             d == Observe(c, e)
             before == SubSeq(events, 1, n - 1)
             said == SubSeq(args, 1, n - 1)
  <2>1. /\ SubSeq(args, 1, n) = said \o <<args[n]>>
        /\ SubSeq(events, 1, n) = before \o <<e>>
    <3>1. 1 \in 1..Len(args) /\ n \in 1..Len(args)
      BY <1>1
    <3>2. SubSeq(args, 1, n) = said \o <<args[n]>>
      BY <3>1, SubSeqRecursiveSecond
    <3>3. SubSeq(events, 1, n) = before \o <<events[n]>>
      BY <1>3, <3>1, SubSeqRecursiveSecond
    <3> QED BY <1>4, <3>2, <3>3
  <2>2. before \in Seq(Previews)
    BY <1>1, <1>3
  <2>3. i \in DOMAIN c
    BY <1>6 DEF Elsewhere
  <2>4. /\ Accepts(c, e) /\ Elsewhere(d, c, i)
        /\ Known(d[i], "ToolCall", id, name, said \o <<args[n]>>, Nil)
    BY <1>6, <2>3, ArgumentsShow
  <2>5. e \in Previews
    BY <1>2, <1>4
  <2> HIDE DEF e, before, said
  <2>6. before \o <<e>> = Append(before, e)
    BY <2>2, <2>5
  <2>7. Leads(b, SubSeq(events, 1, n), d)
    BY <1>6, <2>1, <2>2, <2>4, <2>5, <2>6, LeadsOn DEF before
  <2>8. Elsewhere(d, b, i)
    BY <1>6, <2>4 DEF Elsewhere
  <2> QED BY <2>1, <2>4, <2>7, <2>8
<1> HIDE DEF Shows
<1>7. Bad = {}
  <2> SUFFICES ASSUME Bad # {} PROVE FALSE
    OBVIOUS
  <2>1. Bad \subseteq Nat
    BY <1>1
  <2>2. PICK n \in Bad : \A m \in Bad : n <= m
    BY <2>1, LeastNatural
  <2>3. n # 0 /\ n \in 1..Len(args)
    BY <1>1, <1>5, <2>2
  <2>4. n - 1 \in 0..Len(args) /\ n - 1 \notin Bad
    BY <1>1, <2>2, <2>3
  <2>5. PICK c : Shows(n - 1, c)
    BY <2>4
  <2> QED BY <1>6, <2>2, <2>3, <2>5
<1>8. PICK c : Shows(Len(args), c)
  BY <1>1, <1>7
<1>9. SubSeq(events, 1, Len(args)) = events /\ SubSeq(args, 1, Len(args)) = args
  BY <1>3, SubSeqFull
<1> QED BY <1>3, <1>8, <1>9 DEF Shows, events

(* The id a complete call gets is all that changes of a tool without one. *)
LEMMA IdentifyIs ==
  ASSUME NEW s, Ready(s, {}), NEW item, item.tool \in DOMAIN s.tools,
         s.tools[item.tool].id = Nil
  PROVE  LET r == Identify(s, item)
             old == s.tools[item.tool]
         IN  /\ Same(r, s, {"tools", "used"})
             /\ \E id : r.tools = [s.tools EXCEPT ![item.tool] = [old EXCEPT !.id = id]]
<1> DEFINE t == item.tool
           old == s.tools[t]
<1>1. DOMAIN s = Fields
  BY DEF Ready, Typed
<1>2. ASSUME NEW id
      PROVE  /\ Same(ObserveToolId(s, t, id), s, {"tools", "used"})
             /\ ObserveToolId(s, t, id).tools = [s.tools EXCEPT ![t] = [old EXCEPT !.id = id]]
  BY <1>1, FieldsAre DEF ObserveToolId, Same
<1>3. \E id : Identify(s, item) = ObserveToolId(s, t, id)
  BY DEF Identify
<1> QED BY <1>2, <1>3

(* A call that has an id and was not started is. *)
LEMMA StartIs ==
  ASSUME NEW s, Ready(s, {}), NEW t \in DOMAIN s.tools, ~s.tools[t].started,
         s.tools[t].id # Nil, NEW name
  PROVE  LET r == StartIfIdentified(s, t, name)
             old == s.tools[t]
         IN  /\ Same(r, s, {"pending", "tools"})
             /\ r.tools = [s.tools EXCEPT ![t] = [old EXCEPT !.started = TRUE]]
             /\ r.pending = s.pending \o <<ToolCallStarted(old.index, old.id, name)>>
<1>1. DOMAIN s = Fields
  BY DEF Ready, Typed
<1> QED BY <1>1, FieldsAre DEF StartIfIdentified, Emit, Same

(* A call that was started has what it collected sent. *)
LEMMA FlushIs ==
  ASSUME NEW s, Ready(s, {}), NEW t \in DOMAIN s.tools, s.tools[t].started,
         s.tools[t].emitted = 0
  PROVE  LET r == FlushArguments(s, t)
             old == s.tools[t]
         IN  /\ Same(r, s, {"pending", "tools"})
             /\ r.tools = [s.tools EXCEPT ![t] = [old EXCEPT !.emitted = Len(old.args)]]
             /\ r.pending = s.pending \o
                  [k \in DOMAIN old.args |-> ToolCallArgumentsDelta(old.index, <<old.args[k]>>)]
<1> DEFINE old == s.tools[t]
           fragments == SubSeq(old.args, old.emitted + 1, Len(old.args))
           events == [k \in DOMAIN fragments |->
                        ToolCallArgumentsDelta(old.index, <<fragments[k]>>)]
           x == [s EXCEPT !.tools[t].emitted = Len(old.args)]
<1>1. DOMAIN s = Fields /\ old.args \in Seq(Atoms)
  BY ToolFields DEF Ready, Typed, Texts
<1>2. fragments = old.args
  BY <1>1, SubSeqFull
<1>3. FlushArguments(s, t) = Emit(x, events)
  BY DEF FlushArguments
<1>4. /\ Same(x, s, {"tools"}) /\ DOMAIN x = Fields
      /\ x.tools = [s.tools EXCEPT ![t] = [old EXCEPT !.emitted = Len(old.args)]]
  BY <1>1, FieldsAre DEF Same
<1>5. events = [k \in DOMAIN old.args |->
                  ToolCallArgumentsDelta(old.index, <<old.args[k]>>)]
  BY <1>2
<1> HIDE DEF x, events, fragments
<1>6. Same(Emit(x, events), x, {"pending"}) /\ Emit(x, events).pending = x.pending \o events
  BY <1>4, EmitIs
<1> QED BY <1>3, <1>4, <1>5, <1>6, FieldsAre DEF Same

(* complete_tool: the call is started under its id, given its fragments and
   itself, and completed; its metadata follow in a block of their own. *)
LEMMA CompleteToolTells ==
  ASSUME NEW from, NEW s, Ready(s, {}), Tells(from, s), NEW item \in ItemSet,
         item.type = "ToolCall", ~BadCall(s, item)
  PROVE  Tells(from, CompleteTool(s, item))
<1> DEFINE t == item.tool
           known == EnsureTool(s, t)
           named == Identify(known, item)
           begun == StartIfIdentified(named, t, item.name)
           flushed == FlushArguments(begun, t)
           i == flushed.tools[t].index
           call == CallOf(flushed, item)
           e == ToolCallCompleted(i, call)
           part == ToolContent(call)
           done == [Close(Emit(flushed, <<e>>), i, part) EXCEPT !.tools[t].completed = TRUE]
           y == [flushed EXCEPT !.tools[t].completed = TRUE]
           args == known.tools[t].args
<1>1. CompleteTool(s, item) =
        IF item.meta = Nil THEN done
        ELSE PushProviderContent(done, "tool_call_metadata", item.meta)
  BY DEF CompleteTool
<1>2. /\ t \in Tools /\ item.name \in Texts /\ item.args \in JsonValues
      /\ item.meta \in Metas \cup {Nil}
  BY ToolCallFields
<1>3. /\ Ready(known, {}) /\ t \in DOMAIN known.tools /\ ~known.tools[t].completed
      /\ item.wire # Nil => ~Contradicts(known, t, item.wire)
      /\ args # <<>> => Parsed(args) = item.args
  BY <1>2, EnsureToolReady DEF BadCall
<1>4. PICK b : Telling(from, known, b)
  BY <1>2, EnsureToolTells DEF Tells
<1> HIDE DEF known
<1>5. /\ known.tools[t].id = Nil /\ ~known.tools[t].started /\ known.tools[t].emitted = 0
      /\ Known(b[known.tools[t].index], "ToolCall", Nil, Nil, <<>>, Nil)
  BY <1>3, <1>4 DEF Telling, Shown
<1>6. known.tools[t] \in ToolStates
  BY <1>3 DEF Ready, Typed
<1>7. /\ Ready(named, {}) /\ Same(named, known, {"tools", "used"})
      /\ t \in DOMAIN named.tools /\ named.tools[t].id \in Ids
  BY <1>3, IdentifyReady
<1>8. PICK id : named.tools = [known.tools EXCEPT ![t] = [known.tools[t] EXCEPT !.id = id]]
  BY <1>3, <1>5, IdentifyIs
<1>9. /\ named.tools[t].index = known.tools[t].index /\ named.tools[t].args = args
      /\ ~named.tools[t].started /\ named.tools[t].emitted = 0
      /\ ~named.tools[t].completed /\ named.tools[t] \in ToolStates
      /\ named.tools[t].id # Nil
  <2>1. named.tools[t] = [known.tools[t] EXCEPT !.id = id]
    BY <1>3, <1>8
  <2>2. named.tools[t] \in ToolStates
    BY <1>7 DEF Ready, Typed
  <2> QED BY <1>3, <1>5, <1>6, <1>7, <2>1, <2>2, NilAssumption DEF ToolStates
<1> HIDE DEF named
<1>10. /\ Ready(begun, {}) /\ Same(begun, named, {"pending", "tools"})
       /\ t \in DOMAIN begun.tools
       /\ begun.tools = [named.tools EXCEPT ![t] = [named.tools[t] EXCEPT !.started = TRUE]]
       /\ begun.pending = named.pending \o
            <<ToolCallStarted(named.tools[t].index, named.tools[t].id, item.name)>>
  <2>1. item.name \in Texts \cup {Nil}
    BY <1>2
  <2>2. /\ Ready(begun, {}) /\ Same(begun, named, {"pending", "tools"})
        /\ DOMAIN begun.tools = DOMAIN named.tools
    BY <1>7, <2>1, StartIfIdentifiedReady
  <2>3. /\ begun.tools = [named.tools EXCEPT ![t] = [named.tools[t] EXCEPT !.started = TRUE]]
        /\ begun.pending = named.pending \o
             <<ToolCallStarted(named.tools[t].index, named.tools[t].id, item.name)>>
    BY <1>7, <1>9, StartIs
  <2> HIDE DEF begun
  <2> QED BY <1>7, <2>2, <2>3
<1>11. /\ begun.tools[t].index = known.tools[t].index /\ begun.tools[t].args = args
       /\ begun.tools[t].started /\ begun.tools[t].emitted = 0
       /\ ~begun.tools[t].completed /\ begun.tools[t] \in ToolStates
       /\ begun.tools[t].id = named.tools[t].id
  <2>1. begun.tools[t] = [named.tools[t] EXCEPT !.started = TRUE]
    BY <1>7, <1>10
  <2>2. begun.tools[t] \in ToolStates
    BY <1>10 DEF Ready, Typed
  <2> QED BY <1>9, <2>1, <2>2 DEF ToolStates
<1> HIDE DEF begun
<1> DEFINE events == [k \in DOMAIN args |->
                        ToolCallArgumentsDelta(known.tools[t].index, <<args[k]>>)]
<1>12. /\ Ready(flushed, {}) /\ Same(flushed, begun, {"pending", "tools"})
       /\ t \in DOMAIN flushed.tools
       /\ flushed.tools = [begun.tools EXCEPT ![t] = [begun.tools[t] EXCEPT !.emitted = Len(args)]]
       /\ flushed.pending = begun.pending \o events
  <2>1. /\ Ready(flushed, {}) /\ Same(flushed, begun, {"pending", "tools"})
        /\ DOMAIN flushed.tools = DOMAIN begun.tools
    BY <1>10, FlushArgumentsReady
  <2> DEFINE old == begun.tools[t]
  <2>2. /\ flushed.tools = [begun.tools EXCEPT ![t] = [old EXCEPT !.emitted = Len(old.args)]]
        /\ flushed.pending = begun.pending \o
             [k \in DOMAIN old.args |-> ToolCallArgumentsDelta(old.index, <<old.args[k]>>)]
    <3>1. /\ Ready(begun, {}) /\ t \in DOMAIN begun.tools
          /\ begun.tools[t].started /\ begun.tools[t].emitted = 0
      BY <1>10, <1>11
    <3> QED BY <3>1, FlushIs
  <2>3. old.args = args /\ old.index = known.tools[t].index
    BY <1>11
  <2> HIDE DEF flushed, old, args
  <2> QED BY <1>10, <2>1, <2>2, <2>3 DEF old
<1>13. /\ i = known.tools[t].index /\ ~flushed.tools[t].completed
       /\ flushed.tools[t] \in ToolStates /\ flushed.tools[t].id = named.tools[t].id
  <2>1. flushed.tools[t] = [begun.tools[t] EXCEPT !.emitted = Len(args)]
    BY <1>10, <1>12
  <2>2. flushed.tools[t] \in ToolStates
    BY <1>12 DEF Ready, Typed
  <2> QED BY <1>11, <2>1, <2>2 DEF ToolStates
<1> HIDE DEF flushed
<1>14. /\ call \in [id : Ids, name : Texts, args : JsonValues]
       /\ call.id = named.tools[t].id /\ call.name = item.name /\ call.args = item.args
       /\ call # Nil
  <2>1. call \in [id : Ids, name : Texts, args : JsonValues]
    BY <1>2, <1>7, <1>13 DEF CallOf
  <2> QED BY <1>13, <2>1, EventAssumption DEF CallOf
<1>15. i \in Nat /\ args \in Seq(Atoms) /\ DOMAIN flushed = Fields
  BY <1>6, <1>12, <1>13, ToolFields DEF Texts, Ready, Typed
<1> HIDE DEF i, call, args
<1>16. e \in Previews /\ part.kind = "ToolCall" /\ part.call = call /\ <<e>> \in Seq(Previews)
  <2>1. e \in Previews
    BY <1>14, <1>15, EventTypes
  <2>2. part.kind = "ToolCall" /\ part.call = call
    BY DEF ToolContent
  <2> HIDE DEF e
  <2> QED BY <2>1, <2>2
<1>17. done = Close(Emit(y, <<e>>), i, part)
  <2> HIDE DEF e, part
  <2> QED BY <1>15, FieldsAre DEF Close, Emit
<1>18. /\ Same(y, flushed, {"tools"}) /\ DOMAIN y = Fields
       /\ y.tools = [flushed.tools EXCEPT ![t] = [flushed.tools[t] EXCEPT !.completed = TRUE]]
  BY <1>15, FieldsAre DEF Same
<1> HIDE DEF y
<1>19. Ready(y, {i})
  BY <1>12, <1>13, <1>18, TakeToolReady DEF i
<1>20. i \in DOMAIN b /\ DOMAIN b = 0..known.next - 1 /\ Shown(b, known)
  BY <1>3, <1>4, <1>13, Apart DEF Telling, Shown
<1>21. PICK c : /\ Leads(from, flushed.pending, c) /\ Elsewhere(c, b, i)
                /\ Known(c[i], "ToolCall", call.id, call.name, args, Nil)
  <2> DEFINE start == ToolCallStarted(i, call.id, call.name)
             a == Observe(b, start)
  <2>1. /\ Accepts(b, start) /\ Elsewhere(a, b, i)
        /\ Known(a[i], "ToolCall", call.id, call.name, <<>>, Nil)
    BY <1>5, <1>13, <1>20, CallStartShows
  <2>2. start \in Previews
    BY <1>14, <1>15, EventTypes
  <2>3. known.pending \in Seq(Previews) /\ named.pending = known.pending
        /\ begun.pending \in Seq(Previews)
    BY <1>3, <1>7, <1>10, FieldsAre DEF Ready, Same
  <2>4. begun.pending = known.pending \o <<start>>
    BY <1>9, <1>10, <1>13, <1>14, <2>3
  <2> HIDE DEF start, a
  <2>5. Leads(from, begun.pending, a)
    BY <1>4, <2>1, <2>2, <2>3, <2>4, TellsOne DEF Telling, a
  <2>6. i \in DOMAIN a /\ call.id # Nil
    BY <1>14, <1>20, <2>1, NilAssumption DEF Elsewhere
  <2>7. /\ events \in Seq(Previews)
        /\ \E c : /\ Leads(a, events, c) /\ Elsewhere(c, a, i)
                  /\ Known(c[i], "ToolCall", call.id, call.name, args, Nil)
    <3>1. events = [k \in DOMAIN args |-> ToolCallArgumentsDelta(i, <<args[k]>>)]
      BY <1>13
    <3>2. /\ [k \in DOMAIN args |-> ToolCallArgumentsDelta(i, <<args[k]>>)] \in Seq(Previews)
          /\ \E c : /\ Leads(a, [k \in DOMAIN args |-> ToolCallArgumentsDelta(i, <<args[k]>>)], c)
                    /\ Elsewhere(c, a, i)
                    /\ Known(c[i], "ToolCall", call.id, call.name, args, Nil)
      BY <1>15, <2>1, <2>6, FragmentsShow
    <3> HIDE DEF events
    <3> QED BY <3>1, <3>2
  <2> HIDE DEF events
  <2>8. PICK c : /\ Leads(a, events, c) /\ Elsewhere(c, a, i)
                 /\ Known(c[i], "ToolCall", call.id, call.name, args, Nil)
    BY <2>7
  <2>9. Leads(from, flushed.pending, c)
    BY <1>12, <2>3, <2>5, <2>7, <2>8, LeadsAlong
  <2>10. Elsewhere(c, b, i)
    BY <2>1, <2>8 DEF Elsewhere
  <2> QED BY <2>8, <2>9, <2>10
<1>22. Telling(from, y, c)
  <2>1. /\ y.content = known.content /\ y.text = known.text
        /\ y.reasoning = known.reasoning /\ y.next = known.next
        /\ y.pending = flushed.pending
    <3>1. Same(y, known, {"pending", "tools", "used"})
      BY <1>7, <1>10, <1>12, <1>18, FieldsAre DEF Same
    <3>2. y.pending = flushed.pending
      BY <1>18, FieldsAre DEF Same
    <3> QED BY <3>1, <3>2, FieldsAre DEF Same
  <2>2. /\ DOMAIN y.tools = DOMAIN known.tools /\ y.tools[t].completed
        /\ \A u \in DOMAIN known.tools : u # t => y.tools[u] = known.tools[u]
    <3>1. y.tools[t] = [flushed.tools[t] EXCEPT !.completed = TRUE]
      BY <1>12, <1>18
    <3>2. y.tools[t].completed
      BY <1>13, <3>1 DEF ToolStates
    <3>3. DOMAIN known.tools = DOMAIN named.tools
          /\ \A u \in DOMAIN known.tools : u # t => named.tools[u] = known.tools[u]
      BY <1>8
    <3>4. DOMAIN begun.tools = DOMAIN named.tools
          /\ \A u \in DOMAIN named.tools : u # t => begun.tools[u] = named.tools[u]
      BY <1>10
    <3>5. DOMAIN flushed.tools = DOMAIN begun.tools
          /\ \A u \in DOMAIN begun.tools : u # t => flushed.tools[u] = begun.tools[u]
      BY <1>12
    <3>6. DOMAIN y.tools = DOMAIN flushed.tools
          /\ \A u \in DOMAIN flushed.tools : u # t => y.tools[u] = flushed.tools[u]
      BY <1>18
    <3> QED BY <3>2, <3>3, <3>4, <3>5, <3>6
  <2>3. /\ \A j \in DOMAIN known.content : j \in DOMAIN b /\ j # i
        /\ known.text # Nil => known.text.index \in DOMAIN b /\ known.text.index # i
        /\ known.reasoning # Nil =>
             known.reasoning.index \in DOMAIN b /\ known.reasoning.index # i
        /\ \A u \in DOMAIN known.tools :
             u # t /\ ~known.tools[u].completed =>
               known.tools[u].index \in DOMAIN b /\ known.tools[u].index # i
    BY <1>3, <1>13, <1>20, Apart
  <2>4. Shown(c, y)
    BY <1>20, <1>21, <2>1, <2>2, <2>3 DEF Shown, Elsewhere
  <2> QED BY <1>21, <2>1, <2>4 DEF Telling
<1> DEFINE z == Emit(y, <<e>>)
           d == Observe(c, e)
<1>23. Ready(z, {i})
  BY <1>16, <1>19, EmitReady
<1>24. /\ Accepts(c, e) /\ Elsewhere(d, c, i)
       /\ Known(d[i], "ToolCall", call.id, call.name, args, call)
  <2>1. i \in DOMAIN c
    BY <1>20, <1>21 DEF Elsewhere
  <2> QED BY <1>3, <1>14, <1>21, <2>1, CallShows DEF args
<1>25. Telling(from, z, d)
  <2>1. Same(z, y, {"pending"}) /\ z.pending = y.pending \o <<e>>
    BY <1>18, EmitIs
  <2>2. y.pending \in Seq(Previews)
    BY <1>19 DEF Ready
  <2> HIDE DEF e, z
  <2>3. Leads(from, z.pending, d)
    BY <1>16, <1>22, <1>24, <2>1, <2>2, TellsOne DEF Telling
  <2> HIDE DEF d
  <2>4. Shown(d, z)
    <3>1. /\ z.content = y.content /\ z.text = y.text /\ z.reasoning = y.reasoning
          /\ z.next = y.next /\ z.tools = y.tools
      BY <2>1, FieldsAre DEF Same
    <3>2. Shown(c, y)
      BY <1>22 DEF Telling
    <3>3. /\ \A j \in DOMAIN y.content : j \in DOMAIN c /\ j # i
          /\ y.text # Nil => y.text.index \in DOMAIN c /\ y.text.index # i
          /\ y.reasoning # Nil => y.reasoning.index \in DOMAIN c /\ y.reasoning.index # i
          /\ \A u \in DOMAIN y.tools :
               ~y.tools[u].completed => y.tools[u].index \in DOMAIN c /\ y.tools[u].index # i
      BY <1>19, <3>2, Apart DEF Shown
    <3> QED BY <1>24, <3>1, <3>2, <3>3 DEF Shown, Elsewhere
  <2> QED BY <2>3, <2>4 DEF Telling
<1> HIDE DEF e, part, z, d, done
<1>26. Tells(from, done)
  BY <1>14, <1>15, <1>16, <1>17, <1>23, <1>24, <1>25, CloseTells DEF Kinds, z
<1>27. CASE item.meta = Nil
  BY <1>1, <1>26, <1>27
<1>28. CASE item.meta # Nil
  <2>1. Ready(done, {})
    <3>1. part \in AssistantParts
      BY <1>14, PartTypes DEF part
    <3> QED BY <1>15, <1>17, <1>23, <3>1, CloseReady DEF z
  <2> QED BY <1>1, <1>26, <1>28, <2>1, PushProviderContentTells
<1> QED BY <1>27, <1>28

(* Closing text and reasoning. *)
LEMMA QuietTells ==
  ASSUME NEW from, NEW s, Ready(s, {}), Tells(from, s)
  PROVE  Tells(from, Quiet(s))
BY CloseTextReady, CloseTextTells, CloseReasoningTells DEF Quiet

(* handle_item: whatever it does with an item, what it tells of it is what a
   consumer may be told, and all the consumer needs to know. *)
LEMMA HandleTells ==
  ASSUME NEW from, NEW s, Ready(s, {}), Tells(from, s), NEW item \in ItemSet,
         ~Rejects(s, item)
  PROVE  Tells(from, Handle(s, item))
<1> DEFINE q == Quiet(s)
<1>1. /\ Ready(q, {}) /\ Same(q, s, {"pending", "content", "text", "reasoning"})
      /\ Tells(from, q)
  BY QuietReady, QuietTells
<1>2. DOMAIN q = Fields /\ DOMAIN s = Fields /\ q.tools = s.tools /\ q.used = s.used
  BY <1>1, FieldsAre DEF Same, Ready, Typed
<1>3. CASE item.type = "Text"
  <2> DEFINE c == CloseReasoning(s)
             pushed == PushText(c, item.text)
  <2>1. Ready(c, {}) /\ c.reasoning = Nil /\ Tells(from, c)
    BY CloseReasoningReady, CloseReasoningTells
  <2>2. Handle(s, item) = IF item.meta THEN Emit(pushed, <<ProviderEvent("text_metadata")>>)
                          ELSE pushed
    BY <1>3 DEF Handle
  <2> HIDE DEF c
  <2>3. Ready(pushed, {}) /\ Tells(from, pushed)
    BY <1>3, <2>1, TextFields, PushTextReady, PushTextTells
  <2> HIDE DEF pushed
  <2>4. Tells(from, Emit(pushed, <<ProviderEvent("text_metadata")>>))
    BY <2>3, NoticeTells DEF Tells
  <2> QED BY <2>2, <2>3, <2>4
<1>4. CASE item.type = "ToolCallDelta"
  <2>1. Handle(s, item) = PushToolDelta(q, item.tool, item.part, item.atom)
    BY <1>4 DEF Handle
  <2>2. ~BadDelta(q, item.tool)
    BY <1>2, <1>4 DEF Rejects, BadDelta
  <2> HIDE DEF q
  <2> QED BY <1>1, <1>4, <2>1, <2>2, DeltaFields, PushToolDeltaTells
<1>5. CASE item.type = "ToolCall"
  <2>1. Handle(s, item) = CompleteTool(q, item)
    BY <1>5 DEF Handle
  <2>2. q.next = s.next
    BY <1>1, FieldsAre DEF Same
  <2> HIDE DEF q
  <2>3. /\ EnsureTool(q, item.tool).tools = EnsureTool(s, item.tool).tools
        /\ EnsureTool(q, item.tool).used = EnsureTool(s, item.tool).used
    BY <1>2, <2>2, FieldsAre DEF EnsureTool, Allocate
  <2>4. ~BadCall(q, item)
    BY <1>5, <2>3 DEF Rejects, BadCall, Contradicts
  <2> QED BY <1>1, <1>5, <2>1, <2>4, CompleteToolTells
<1>6. ASSUME item.type \in {"Reasoning", "ReasoningDelta"}
      PROVE  Tells(from, Handle(s, item))
  <2> DEFINE c == CloseText(s)
  <2>1. Ready(c, {}) /\ c.text = Nil /\ Tells(from, c)
    BY CloseTextReady, CloseTextTells
  <2>2. \/ /\ item.type = "Reasoning"
           /\ Handle(s, item) = CompleteReasoning(c, item.reasoning)
        \/ /\ item.type = "ReasoningDelta"
           /\ Handle(s, item) = PushReasoningDelta(c, item.id, item.text)
    BY <1>6 DEF Handle
  <2> HIDE DEF c
  <2> QED BY <2>1, <2>2, ReasoningFields, CompleteReasoningTells, PushReasoningDeltaTells
<1>7. CASE item.type = "Final"
  <2> DEFINE r == [q EXCEPT !.usage = item.usage, !.stop = item.stop, !.final = TRUE]
  <2>1. Handle(s, item) = r
    BY <1>7 DEF Handle
  <2> HIDE DEF q
  <2>2. Same(r, q, {"usage", "stop", "final"}) /\ r.pending = q.pending
    BY <1>2, FieldsAre DEF Same
  <2> HIDE DEF r
  <2>3. PICK b : Telling(from, q, b)
    BY <1>1 DEF Tells
  <2>4. Shown(b, r)
    BY <2>2, <2>3, ShownSame DEF Telling
  <2> QED BY <2>1, <2>2, <2>3, <2>4 DEF Telling, Tells
<1>8. CASE item.type = "Unknown"
  BY <1>8, NoticeTells DEF Handle, Tells
<1> HIDE DEF q
<1> QED BY <1>3, <1>4, <1>5, <1>6, <1>7, <1>8, ItemTypes

\* What is left to tell of a finished stream: usage, and a response that agrees
\* with what was shown.
Closing(b, events) ==
  \A k \in DOMAIN events :
    \/ events[k] = Usage
    \/ events[k].type = "ResponseCompleted" /\ Agrees(b, events[k].content)

(* finish_stream: the response is what the events showed. *)
LEMMA FinishStreamTells ==
  ASSUME NEW b, NEW s, Ready(s, {}), Tells(b, s), s.pending = <<>>, ~Incomplete(s),
         s.final => s.text = Nil /\ s.reasoning = Nil
  PROVE  Closing(b, FinishStream(s).pending)
<1> DEFINE content == [k \in 1..s.next |-> s.content[k - 1]]
           usage == IF s.usage THEN <<Usage>> ELSE <<>>
           response == ResponseCompleted(content, s.stop)
           events == usage \o <<response>>
<1>1. DOMAIN s = Fields /\ s.next \in Nat
  BY DEF Ready, Typed
<1>2. DOMAIN s.content = 0..s.next - 1
  BY ContentIsWhole DEF Incomplete
<1>3. Shown(b, s)
  <2>1. PICK c : Leads(b, <<>>, c) /\ Shown(c, s)
    BY DEF Tells, Telling
  <2>2. b = c
    BY <2>1 DEF Leads, Follows
  <2> QED BY <2>1, <2>2
<1>4. Agrees(b, content)
  <2>1. Len(content) = s.next /\ DOMAIN b = 0..Len(content) - 1
    BY <1>1, <1>3 DEF Shown
  <2>2. ASSUME NEW i \in DOMAIN b PROVE Fits(b[i], content[i + 1])
    <3>1. i + 1 \in 1..s.next /\ (i + 1) - 1 = i /\ i \in DOMAIN s.content
      BY <1>1, <1>2, <2>1, <2>2
    <3>2. content[i + 1] = s.content[i]
      BY <3>1
    <3> HIDE DEF content
    <3> QED BY <1>3, <3>1, <3>2 DEF Shown
  <2> HIDE DEF content
  <2> QED BY <2>1, <2>2 DEF Agrees, Fits
<1>5. response.type = "ResponseCompleted" /\ response.content = content
  BY DEF ResponseCompleted
<1>6. FinishStream(s).pending = events
  <2>1. FinishStream(s).pending = <<>> \o events
    BY <1>1, FieldsAre DEF FinishStream, Emit
  <2> QED BY <2>1
<1> HIDE DEF content, response
<1>7. ASSUME NEW k \in DOMAIN events PROVE events[k] \in {Usage, response}
  BY <1>7
<1> HIDE DEF events
<1> QED BY <1>4, <1>5, <1>6, <1>7 DEF Closing

-----------------------------------------------------------------------------
(* The refinement of StreamContract.                                       *)

\* What the assembler holds is what is pending will have shown of it; a stream
\* that failed has nothing pending, a finished one its last words.
Showing ==
  /\ event = Nil => asm = NewState /\ blocks = NoBlocks
  /\ event # Nil /\ ~asm.finished /\ ~asm.failed => Tells(blocks, asm)
  /\ asm.failed => asm.pending = <<>>
  /\ asm.finished => Closing(blocks, asm.pending)

(* A new call: nothing but the first event, nothing finished. *)
LEMMA NewStateIs ==
  /\ DOMAIN NewState = Fields /\ NewState.pending = <<ResponseStarted>>
  /\ NewState.finished = FALSE /\ NewState.failed = FALSE
  /\ NewState.text = Nil /\ NewState.reasoning = Nil /\ NewState.next = 0
  /\ DOMAIN NewState.content = {} /\ DOMAIN NewState.tools = {}
BY DEF NewState, Fields

(* The call starts so. *)
LEMMA InitShowing == Init => Showing
BY NewStateIs DEF Init, Showing

(* The provider is asked once the consumer has had the first event. *)
LEMMA PullingShows ==
  ASSUME Showing, Pulling
  PROVE  event # Nil /\ Tells(blocks, asm)
<1>1. asm.pending = <<>> /\ ~asm.finished /\ ~asm.failed
  BY DEF Pulling
<1>2. event # Nil
  <2>1. <<ResponseStarted>> # <<>>
    OBVIOUS
  <2> QED BY <1>1, <2>1, NewStateIs DEF Showing
<1> QED BY <1>1, <1>2 DEF Showing

(* A stream that fails keeps nothing for the consumer. *)
LEMMA InterruptShows ==
  ASSUME CallInv, Showing, Pulling, Interrupt
  PROVE  Showing'
<1>1. event # Nil /\ DOMAIN asm = Fields /\ ~asm.finished
  BY PullingShows DEF CallInv, Assembled, Typed, Pulling
<1>2. asm'.pending = <<>> /\ asm'.failed = TRUE /\ asm'.finished = asm.finished
  BY <1>1, FieldsAre DEF Interrupt
<1>3. event' = event
  BY DEF Interrupt
<1> QED BY <1>1, <1>2, <1>3 DEF Showing

(* Items, failures and the end of the provider. *)
LEMMA ProvideShows ==
  ASSUME CallInv, Showing, Provide
  PROVE  Showing'
<1>1. ASSUME NEW item \in Items, Pull(item) PROVE Showing'
  <2>1. /\ Pulling /\ ~Rejects(asm, item) /\ asm' = Handle(asm, item)
        /\ event' = event /\ blocks' = blocks
    BY <1>1 DEF Pull, contractVars
  <2>2. Ready(asm, {}) /\ item \in ItemSet /\ ~asm.finished /\ ~asm.failed
    BY <2>1, PullingReady, ItemsAssumption
  <2>3. event # Nil /\ Tells(blocks, asm)
    BY <2>1, PullingShows
  <2>4. Handled(asm', asm) /\ Tells(blocks, asm')
    BY <2>1, <2>2, <2>3, HandleReady, HandleTells
  <2>5. ~asm'.finished /\ ~asm'.failed
    BY <2>2, <2>4 DEF Handled
  <2> QED BY <2>1, <2>3, <2>4, <2>5 DEF Showing
<1>2. ASSUME NEW item \in Items, PullBad(item) PROVE Showing'
  BY <1>2, InterruptShows DEF PullBad
<1>3. CASE ProviderFails \/ ProviderEndsEarly
  BY <1>3, InterruptShows DEF ProviderFails, ProviderEndsEarly
<1>4. CASE ProviderEnds
  <2>1. /\ Pulling /\ ~Incomplete(asm) /\ asm' = FinishStream(asm)
        /\ event' = event /\ blocks' = blocks
    BY <1>4 DEF ProviderEnds, contractVars
  <2>2. /\ Ready(asm, {}) /\ asm.final => asm.text = Nil /\ asm.reasoning = Nil
        /\ asm.pending = <<>> /\ ~asm.failed
    BY <2>1, PullingReady
  <2>3. event # Nil /\ Tells(blocks, asm)
    BY <2>1, PullingShows
  <2>4. asm'.finished /\ ~asm'.failed
    BY <2>1, <2>2, PullingReady, FinishStreamReady
  <2>5. Closing(blocks, asm'.pending)
    BY <2>1, <2>2, <2>3, PullingReady, FinishStreamTells
  <2> QED BY <2>1, <2>3, <2>4, <2>5 DEF Showing
<1> QED BY <1>1, <1>2, <1>3, <1>4 DEF Provide

(* A delivery: the event is one, and the rest of the assembler stays. *)
LEMMA DeliveringIs ==
  ASSUME CallInv, NEW e, Delivering(e)
  PROVE  /\ asm.pending \in Seq(Previews \cup Responses) /\ asm.pending # <<>>
         /\ e = Head(asm.pending) /\ e # Nil
         /\ Same(asm', asm, {"pending"}) /\ asm'.pending = Tail(asm.pending)
         /\ asm'.finished = asm.finished /\ asm'.failed = asm.failed
         /\ ~asm.finished => asm.pending \in Seq(Previews)
<1>1. /\ asm.pending # <<>> /\ e = Head(asm.pending)
      /\ asm' = [asm EXCEPT !.pending = Tail(asm.pending)]
  BY DEF Delivering
<1>2. /\ DOMAIN asm = Fields /\ asm.pending \in Seq(Previews \cup Responses)
      /\ ~asm.finished => asm.pending \in Seq(Previews)
  BY DEF CallInv, Assembled, Typed
<1>3. e # Nil
  <2>1. e \in Previews \cup Responses
    BY <1>1, <1>2
  <2> QED BY <2>1, EventAssumption
<1>4. /\ Same(asm', asm, {"pending"}) /\ asm'.pending = Tail(asm.pending)
      /\ asm'.finished = asm.finished /\ asm'.failed = asm.failed
  BY <1>1, <1>2, FieldsAre DEF Same
<1> QED BY <1>1, <1>2, <1>3, <1>4

(* A preview delivered is one the blocks accept, and they show one more. *)
LEMMA DeliverShows ==
  ASSUME CallInv, Showing, Deliver
  PROVE  /\ Showing'
         /\ event = Nil => event' = ResponseStarted /\ blocks' = blocks
         /\ event # Nil => Accepts(blocks, event') /\ event' # Nil
<1> DEFINE e == Head(asm.pending)
<1>1. /\ Delivering(e) /\ event' = e /\ blocks' = Observe(blocks, e)
      /\ e.type # "ResponseCompleted"
  BY DEF Deliver
<1>2. /\ asm.pending \in Seq(Previews \cup Responses) /\ asm.pending # <<>> /\ e # Nil
      /\ Same(asm', asm, {"pending"}) /\ asm'.pending = Tail(asm.pending)
      /\ asm'.finished = asm.finished /\ asm'.failed = asm.failed
      /\ ~asm.finished => asm.pending \in Seq(Previews)
  <2> HIDE DEF e
  <2> QED BY <1>1, DeliveringIs
<1>3. ~asm.failed
  BY <1>2 DEF Showing
<1>4. CASE event = Nil
  <2>1. asm = NewState /\ blocks = NoBlocks
    BY <1>4 DEF Showing
  <2>2. e = ResponseStarted /\ asm'.pending = <<>> /\ ~asm'.finished /\ ~asm'.failed
    BY <1>2, <2>1, NewStateIs
  <2>3. blocks' = blocks
    BY <1>1, <2>2, NoticeShows
  <2>4. Shown(blocks, asm')
    <3>1. Shown(NoBlocks, NewState)
      BY NewStateIs DEF Shown, NoBlocks
    <3> QED BY <1>2, <2>1, <3>1, ShownSame
  <2>5. Tells(blocks', asm')
    BY <2>2, <2>3, <2>4, LeadsNowhere DEF Tells, Telling
  <2> QED BY <1>1, <1>2, <1>4, <2>2, <2>3, <2>5 DEF Showing
<1>5. CASE event # Nil /\ ~asm.finished
  <2>1. PICK b : Leads(blocks, asm.pending, b) /\ Shown(b, asm)
    BY <1>3, <1>5 DEF Showing, Tells, Telling
  <2>2. Accepts(blocks, e) /\ Leads(blocks', asm'.pending, b)
    BY <1>1, <1>2, <2>1, LeadsFirst
  <2>3. Shown(b, asm')
    BY <1>2, <2>1, ShownSame
  <2>4. Tells(blocks', asm')
    BY <2>2, <2>3 DEF Tells, Telling
  <2> QED BY <1>1, <1>2, <1>3, <1>5, <2>2, <2>4 DEF Showing
<1>6. CASE event # Nil /\ asm.finished
  <2>1. Closing(blocks, asm.pending)
    BY <1>6 DEF Showing
  <2>2. e = asm.pending[1] /\ 1 \in DOMAIN asm.pending
    BY <1>2
  <2>3. e = Usage
    BY <1>1, <2>1, <2>2 DEF Closing
  <2>4. Accepts(blocks, e) /\ blocks' = blocks
    BY <1>1, <2>3, NoticeShows
  <2>5. Closing(blocks, asm'.pending)
    <3>1. \A k \in DOMAIN Tail(asm.pending) :
            k + 1 \in DOMAIN asm.pending /\ Tail(asm.pending)[k] = asm.pending[k + 1]
      BY <1>2
    <3> QED BY <1>2, <2>1, <3>1 DEF Closing
  <2> QED BY <1>1, <1>2, <1>3, <1>6, <2>4, <2>5 DEF Showing
<1> QED BY <1>4, <1>5, <1>6

(* The response delivered is what the events showed. *)
LEMMA DeliverResponseShows ==
  ASSUME CallInv, Showing, DeliverResponse
  PROVE  /\ Showing' /\ event # Nil
         /\ event'.type = "ResponseCompleted" /\ Agrees(blocks, event'.content)
<1> DEFINE e == Head(asm.pending)
<1>1. Delivering(e) /\ event' = e /\ blocks' = blocks /\ e.type = "ResponseCompleted"
  BY DEF DeliverResponse
<1> HIDE DEF e
<1>2. /\ asm.pending \in Seq(Previews \cup Responses) /\ asm.pending # <<>> /\ e # Nil
      /\ e = Head(asm.pending) /\ asm'.finished = asm.finished /\ asm'.failed = asm.failed
  BY <1>1, DeliveringIs
<1>3. asm'.pending = <<>> /\ asm.finished
  BY <1>1, DeliveringKeeps
<1>4. event # Nil
  BY <1>3, NewStateIs DEF Showing
<1>5. Agrees(blocks, e.content)
  <2>1. e = asm.pending[1] /\ 1 \in DOMAIN asm.pending
    BY <1>2
  <2>2. e # Usage
    BY <1>1 DEF Usage
  <2> QED BY <1>3, <2>1, <2>2 DEF Showing, Closing
<1>6. Showing'
  BY <1>1, <1>2, <1>3 DEF Showing, Closing
<1> QED BY <1>1, <1>4, <1>5, <1>6

(* A refused response leaves nothing to tell. *)
LEMMA RefuseResponseShows ==
  ASSUME CallInv, Showing, RefuseResponse
  PROVE  Showing'
<1> DEFINE e == Head(asm.pending)
<1>1. Delivering(e) /\ event' = event /\ blocks' = blocks /\ e.type = "ResponseCompleted"
  BY DEF RefuseResponse, Passes
<1> HIDE DEF e
<1>2. asm'.finished = asm.finished /\ asm'.failed = asm.failed
  BY <1>1, DeliveringIs
<1>3. asm'.pending = <<>> /\ asm.finished
  BY <1>1, DeliveringKeeps
<1>4. event # Nil
  BY <1>3, NewStateIs DEF Showing
<1> QED BY <1>1, <1>2, <1>3, <1>4 DEF Showing, Closing

(* Every step keeps Showing. *)
LEMMA StepShows == CallInv /\ Showing /\ [Next]_vars => Showing'
<1> SUFFICES ASSUME CallInv, Showing, [Next]_vars PROVE Showing'
  OBVIOUS
<1>1. CASE asm' = asm /\ event' = event /\ blocks' = blocks
  BY <1>1 DEF Showing
<1>2. CASE Connect \/ ConnectFails \/ End \/ Drop \/ UNCHANGED vars
  BY <1>1, <1>2 DEF Connect, ConnectFails, End, Drop, contractVars, vars
<1>3. CASE Provide
  BY <1>3, ProvideShows
<1>4. CASE Deliver \/ DeliverResponse \/ RefuseResponse
  BY <1>4, DeliverShows, DeliverResponseShows, RefuseResponseShows
<1> QED BY <1>2, <1>3, <1>4 DEF Next, Poll

(* The contract speaks of the same events and blocks. *)
LEMMA SameVocabulary ==
  /\ \A b, e : Contract!Accepts(b, e) = Accepts(b, e)
  /\ \A b, e : Contract!Observe(b, e) = Observe(b, e)
  /\ \A b, content : Contract!Agrees(b, content) = Agrees(b, content)
  /\ Contract!ResponseStarted = ResponseStarted /\ Contract!NoBlocks = NoBlocks
<1>1. ASSUME NEW b, NEW i, NEW kinds PROVE Contract!Active(b, i, kinds) = Active(b, i, kinds)
  BY DEF Contract!Active, Active
<1>2. ASSUME NEW string PROVE Contract!Parsed(string) = Parsed(string)
  BY DEF Contract!Parsed, Parsed
<1>3. ASSUME NEW block, NEW call PROVE Contract!Announced(block, call) = Announced(block, call)
  BY <1>2 DEF Contract!Announced, Announced
<1>4. ASSUME NEW f, NEW x, NEW y PROVE Contract!Put(f, x, y) = Put(f, x, y)
  BY DEF Contract!Put, Put
<1>5. ASSUME NEW kind PROVE Contract!NewBlock(kind) = NewBlock(kind)
  BY DEF Contract!NewBlock, NewBlock
<1>6. Contract!Kinds = Kinds
  BY DEF Contract!Kinds, Kinds
<1>7. ASSUME NEW b, NEW e PROVE Contract!Accepts(b, e) = Accepts(b, e)
  BY <1>1, <1>3, <1>6, Zenon DEF Contract!Accepts, Accepts
<1>8. ASSUME NEW b, NEW e PROVE Contract!Observe(b, e) = Observe(b, e)
  BY <1>4, <1>5 DEF Contract!Observe, Observe
<1>9. ASSUME NEW b, NEW content PROVE Contract!Agrees(b, content) = Agrees(b, content)
  BY DEF Contract!Agrees, Agrees
<1>10. Contract!ResponseStarted = ResponseStarted /\ Contract!NoBlocks = NoBlocks
  BY DEF Contract!ResponseStarted, ResponseStarted, Contract!NoBlocks, NoBlocks
<1> QED BY <1>7, <1>8, <1>9, <1>10

(* Every step is a step of the contract, or none the consumer sees. *)
LEMMA ContractStep ==
  CallInv /\ Showing /\ [Next]_vars => [Contract!Next]_(Contract!vars)
<1> SUFFICES ASSUME CallInv, Showing, [Next]_vars
             PROVE  Contract!Next \/ UNCHANGED Contract!vars
  OBVIOUS
<1>1. CASE UNCHANGED contractVars
  BY <1>1 DEF contractVars, Contract!vars
<1>2. CASE Connect \/ ConnectFails
  <2>1. outcome = "idle" /\ event' = event /\ blocks' = blocks
    BY <1>2 DEF Connect, ConnectFails, CallInv, Told
  <2>2. outcome' \in {"open", "failed"}
    BY <1>2 DEF Connect, ConnectFails
  <2> QED BY <2>1, <2>2 DEF Contract!Next, Contract!Begin, Contract!Fail
<1>3. ASSUME Pulling, Interrupt PROVE Contract!Next
  <2>1. outcome = "open"
    BY <1>3, PullingReady, OpenHasNoRecord
  <2> QED BY <1>3, <2>1 DEF Interrupt, Contract!Next, Contract!Fail
<1>4. ASSUME Provide PROVE Contract!Next \/ UNCHANGED contractVars
  BY <1>3, <1>4 DEF Provide, Pull, PullBad, ProviderFails, ProviderEnds, ProviderEndsEarly
<1>5. CASE Deliver
  <2>1. outcome = "open" /\ outcome' = outcome /\ blocks' = Observe(blocks, event')
    BY <1>5, DeliveringKeeps, OpenHasNoRecord DEF Deliver
  <2>2. CASE event = Nil
    BY <1>5, <2>1, <2>2, DeliverShows, SameVocabulary DEF Contract!Next, Contract!Start
  <2>3. CASE event # Nil
    BY <1>5, <2>1, <2>3, DeliverShows, SameVocabulary DEF Contract!Next, Contract!Deliver
  <2> QED BY <2>2, <2>3
<1>6. CASE DeliverResponse
  <2>1. outcome = "open" /\ outcome' = "completed" /\ blocks' = blocks
    BY <1>6, DeliveringKeeps, OpenHasNoRecord DEF DeliverResponse
  <2> QED BY <1>6, <2>1, DeliverResponseShows, SameVocabulary
          DEF Contract!Next, Contract!Complete
<1>7. CASE RefuseResponse
  <2>1. /\ outcome = "open" /\ outcome' = "failed" /\ blocks' = blocks
        /\ event' = event
    BY <1>7, DeliveringKeeps, OpenHasNoRecord DEF RefuseResponse
  <2> QED BY <2>1 DEF Contract!Next, Contract!Fail
<1>8. CASE End \/ Drop \/ UNCHANGED vars
  BY <1>1, <1>8 DEF End, Drop, vars, contractVars
<1> QED BY <1>1, <1>2, <1>4, <1>5, <1>6, <1>7, <1>8 DEF Next, Poll

\* What the consumer receives is a stream StreamContract allows, for every
\* provider, any number of items and every interleaving of delivery, failure and
\* refusal: each event is accepted by what the events before it showed, the final
\* response agrees with them block by block, and nothing follows an error or the
\* response (stream.rs behind structured.rs, against mock/contract.rs).
THEOREM StreamKeepsItsContract == Spec => RefinesContract
<1>1. Init => Contract!Init
  BY SameVocabulary DEF Init, Contract!Init
<1>2. Spec => [](CallInv /\ Showing)
  BY InitCall, InitShowing, StepCall, StepShows, PTL DEF Spec
<1> QED BY <1>1, <1>2, ContractStep, PTL DEF Spec, RefinesContract, Contract!Spec

-----------------------------------------------------------------------------
(* The text of a response and of what was sent, piece by piece.            *)

\* One part more.
TextAfter(text, part) == IF part.kind = "Text" THEN text \o part.text ELSE text

(* TextOf, part by part. *)
LEMMA TextOfIs ==
  ASSUME NEW c \in Seq(AssistantParts)
  PROVE  \E acc : /\ acc[0] = <<>>
                  /\ \A k \in 1..Len(c) : acc[k] = TextAfter(acc[k - 1], c[k])
                  /\ TextOf(c) = acc[Len(c)]
<1> DEFINE n == Len(c)
           Body(f, S) == IF S = {} THEN <<>> ELSE TextAfter(f[S \ {Max(S)}], c[Max(S)])
           fold == CHOOSE f : f = [S \in SUBSET (DOMAIN c) |-> Body(f, S)]
           step == [p \in Texts \X (1..n) |-> TextAfter(p[1], c[p[2]])]
           acc == [k \in 0..n |-> fold[1..k]]
<1>1. TextOf(c) = fold[DOMAIN c]
  BY DEF TextOf, FoldLeft, MapThenFoldSet, TextAfter
<1>2. n \in Nat /\ DOMAIN c = 1..n /\ <<>> \in Texts
  BY DEF Texts
<1>3. step \in [Texts \X (1..n) -> Texts]
  <2> SUFFICES ASSUME NEW text \in Texts, NEW i \in 1..n PROVE TextAfter(text, c[i]) \in Texts
    OBVIOUS
  <2>1. c[i] \in AssistantParts
    BY <1>2
  <2>2. c[i].kind = "Text" => c[i].text \in Texts
    BY <2>1 DEF AssistantParts
  <2> QED BY <2>2 DEF TextAfter, Texts
<1>4. PICK g : IsFold(g, n, Texts, <<>>, step, TakeMax(n))
  <2> DEFINE empty == <<>>
  <2>1. n \in Nat /\ empty \in Texts /\ TakesGreatest(TakeMax(n), n)
    BY <1>2, TakeMaxTakesGreatest
  <2> HIDE DEF n, step, empty
  <2>2. \E g : IsFold(g, n, Texts, empty, step, TakeMax(n))
    BY <1>3, <2>1, FoldSolution
  <2> QED BY <2>2 DEF empty
<1>6. ASSUME NEW S \in SUBSET (1..n) PROVE g[S] = Body(g, S)
  <2>1. CASE S = {}
    BY <1>4, <2>1 DEF IsFold
  <2>2. CASE S # {}
    <3> DEFINE m == Max(S)
    <3>1. m \in 1..n /\ TakeMax(n)[S] = m
      BY <1>2, <2>2, MaxFacts DEF TakeMax
    <3> HIDE DEF m, step
    <3>2. g[S \ {m}] \in Texts /\ g[S] = step[<<g[S \ {m}], m>>]
      BY <1>4, <2>2, <3>1 DEF IsFold
    <3>3. g[S] = TextAfter(g[S \ {m}], c[m])
      BY <3>1, <3>2 DEF step
    <3> QED BY <2>2, <3>3 DEF m
  <2> QED BY <2>1, <2>2
<1> HIDE DEF step
<1>7. fold = [S \in SUBSET (DOMAIN c) |-> Body(fold, S)]
  <2> HIDE DEF Body
  <2>1. g \in [SUBSET (1..n) -> Texts]
    BY <1>4 DEF IsFold
  <2>2. g = [S \in SUBSET (DOMAIN c) |-> Body(g, S)]
    BY <1>2, <1>6, <2>1
  <2> QED BY <2>2
<1> HIDE DEF fold
<1>8. fold[1..0] = <<>>
  <2>1. 1..0 = {} /\ {} \in SUBSET (DOMAIN c)
    OBVIOUS
  <2> QED BY <1>7, <2>1
<1>9. ASSUME NEW k \in 1..n PROVE fold[1..k] = TextAfter(fold[1..k - 1], c[k])
  <2>1. 1..k \in SUBSET (DOMAIN c) /\ 1..k # {} /\ Max(1..k) = k /\ (1..k) \ {k} = 1..k - 1
    BY <1>2, IntervalFacts
  <2> QED BY <1>7, <2>1
<1>10. /\ acc[0] = <<>>
       /\ \A k \in 1..n : acc[k] = TextAfter(acc[k - 1], c[k])
       /\ TextOf(c) = acc[n]
  BY <1>1, <1>2, <1>8, <1>9
<1> HIDE DEF acc
<1> QED BY <1>10

\* One item more.
SaidAfter(text, item) == IF item.type = "Text" THEN text \o item.text ELSE text

\* The text of some items: TextSent is that of those sent.
Said(items) ==
  FoldLeft(LAMBDA text, item :
             IF item.type = "Text" THEN text \o item.text ELSE text, <<>>, items)

(* TextSent, item by item. *)
LEMMA SaidIs ==
  ASSUME NEW c \in Seq(ItemSet)
  PROVE  \E acc : /\ acc[0] = <<>>
                  /\ \A k \in 1..Len(c) : acc[k] = SaidAfter(acc[k - 1], c[k])
                  /\ Said(c) = acc[Len(c)]
<1> DEFINE n == Len(c)
           Body(f, S) == IF S = {} THEN <<>> ELSE SaidAfter(f[S \ {Max(S)}], c[Max(S)])
           fold == CHOOSE f : f = [S \in SUBSET (DOMAIN c) |-> Body(f, S)]
           step == [p \in Texts \X (1..n) |-> SaidAfter(p[1], c[p[2]])]
           acc == [k \in 0..n |-> fold[1..k]]
<1>1. Said(c) = fold[DOMAIN c]
  BY DEF Said, FoldLeft, MapThenFoldSet, SaidAfter
<1>2. n \in Nat /\ DOMAIN c = 1..n /\ <<>> \in Texts
  BY DEF Texts
<1>3. step \in [Texts \X (1..n) -> Texts]
  <2> SUFFICES ASSUME NEW text \in Texts, NEW i \in 1..n PROVE SaidAfter(text, c[i]) \in Texts
    OBVIOUS
  <2>1. c[i] \in ItemSet
    BY <1>2
  <2>2. c[i].type = "Text" => c[i].text \in Texts
    BY <2>1 DEF ItemSet
  <2> QED BY <2>2 DEF SaidAfter, Texts
<1>4. PICK g : IsFold(g, n, Texts, <<>>, step, TakeMax(n))
  <2> DEFINE empty == <<>>
  <2>1. n \in Nat /\ empty \in Texts /\ TakesGreatest(TakeMax(n), n)
    BY <1>2, TakeMaxTakesGreatest
  <2> HIDE DEF n, step, empty
  <2>2. \E g : IsFold(g, n, Texts, empty, step, TakeMax(n))
    BY <1>3, <2>1, FoldSolution
  <2> QED BY <2>2 DEF empty
<1>6. ASSUME NEW S \in SUBSET (1..n) PROVE g[S] = Body(g, S)
  <2>1. CASE S = {}
    BY <1>4, <2>1 DEF IsFold
  <2>2. CASE S # {}
    <3> DEFINE m == Max(S)
    <3>1. m \in 1..n /\ TakeMax(n)[S] = m
      BY <1>2, <2>2, MaxFacts DEF TakeMax
    <3> HIDE DEF m, step
    <3>2. g[S \ {m}] \in Texts /\ g[S] = step[<<g[S \ {m}], m>>]
      BY <1>4, <2>2, <3>1 DEF IsFold
    <3>3. g[S] = SaidAfter(g[S \ {m}], c[m])
      BY <3>1, <3>2 DEF step
    <3> QED BY <2>2, <3>3 DEF m
  <2> QED BY <2>1, <2>2
<1> HIDE DEF step
<1>7. fold = [S \in SUBSET (DOMAIN c) |-> Body(fold, S)]
  <2> HIDE DEF Body
  <2>1. g \in [SUBSET (1..n) -> Texts]
    BY <1>4 DEF IsFold
  <2>2. g = [S \in SUBSET (DOMAIN c) |-> Body(g, S)]
    BY <1>2, <1>6, <2>1
  <2> QED BY <2>2
<1> HIDE DEF fold
<1>8. fold[1..0] = <<>>
  <2>1. 1..0 = {} /\ {} \in SUBSET (DOMAIN c)
    OBVIOUS
  <2> QED BY <1>7, <2>1
<1>9. ASSUME NEW k \in 1..n PROVE fold[1..k] = SaidAfter(fold[1..k - 1], c[k])
  <2>1. 1..k \in SUBSET (DOMAIN c) /\ 1..k # {} /\ Max(1..k) = k /\ (1..k) \ {k} = 1..k - 1
    BY <1>2, IntervalFacts
  <2> QED BY <1>7, <2>1
<1>10. /\ acc[0] = <<>>
       /\ \A k \in 1..n : acc[k] = SaidAfter(acc[k - 1], c[k])
       /\ Said(c) = acc[n]
  BY <1>1, <1>2, <1>8, <1>9
<1> HIDE DEF acc
<1> QED BY <1>10

(* An item says its text, or nothing. *)
LEMMA SaidAfterTyped ==
  ASSUME NEW text \in Texts, NEW item \in ItemSet
  PROVE  SaidAfter(text, item) \in Texts
<1>1. item.type = "Text" => item.text \in Texts
  BY TextFields
<1> QED BY <1>1 DEF SaidAfter, Texts

(* What is said is text. *)
LEMMA SaidTyped ==
  ASSUME NEW c \in Seq(ItemSet)
  PROVE  Said(c) \in Texts
<1> DEFINE n == Len(c)
<1>1. PICK acc : /\ acc[0] = <<>>
                 /\ \A k \in 1..n : acc[k] = SaidAfter(acc[k - 1], c[k])
                 /\ Said(c) = acc[n]
  BY SaidIs
<1> DEFINE Typical == {k \in 0..n : acc[k] \in Texts}
<1>2. n \in Nat /\ n \in 0..n /\ \A k \in 1..n : c[k] \in ItemSet
  OBVIOUS
<1>3. 0 \in Typical
  <2>1. <<>> \in Texts /\ 0 \in 0..n
    BY <1>2 DEF Texts
  <2> QED BY <1>1, <2>1
<1>4. ASSUME NEW k \in 1..n, k - 1 \in Typical PROVE k \in Typical
  BY <1>1, <1>2, <1>4, SaidAfterTyped
<1>5. \A k \in 0..n : k \in Typical
  <2> HIDE DEF Typical, n
  <2> QED BY <1>2, <1>3, <1>4, CountUp
<1> QED BY <1>1, <1>2, <1>5

(* Nothing says nothing. *)
LEMMA SaidNothing == Said(<<>>) = <<>>
<1>1. <<>> \in Seq(ItemSet) /\ Len(<<>>) = 0
  OBVIOUS
<1> QED BY <1>1, SaidIs

(* One item more says what it says. *)
LEMMA SaidMore ==
  ASSUME NEW c \in Seq(ItemSet), NEW item \in ItemSet
  PROVE  Said(Append(c, item)) = SaidAfter(Said(c), item)
<1> DEFINE n == Len(c)
           d == Append(c, item)
<1>1. PICK acc : /\ acc[0] = <<>>
                 /\ \A k \in 1..n : acc[k] = SaidAfter(acc[k - 1], c[k])
                 /\ Said(c) = acc[n]
  BY SaidIs
<1>2. /\ n \in Nat /\ n \in 0..n /\ d \in Seq(ItemSet) /\ Len(d) = n + 1
      /\ d[n + 1] = item /\ \A k \in 1..n : d[k] = c[k]
  OBVIOUS
<1> HIDE DEF d
<1>3. PICK more : /\ more[0] = <<>>
                  /\ \A k \in 1..n + 1 : more[k] = SaidAfter(more[k - 1], d[k])
                  /\ Said(d) = more[n + 1]
  BY <1>2, SaidIs
<1> DEFINE Agreed == {k \in 0..n : more[k] = acc[k]}
<1>4. 0 \in Agreed
  BY <1>1, <1>2, <1>3
<1>5. ASSUME NEW k \in 1..n, k - 1 \in Agreed PROVE k \in Agreed
  <2>1. more[k] = SaidAfter(more[k - 1], d[k]) /\ acc[k] = SaidAfter(acc[k - 1], c[k])
    BY <1>1, <1>2, <1>3
  <2> QED BY <1>2, <1>5, <2>1
<1>6. \A k \in 0..n : k \in Agreed
  <2> HIDE DEF Agreed, n
  <2> QED BY <1>2, <1>4, <1>5, CountUp
<1>7. more[n + 1] = SaidAfter(more[n], item)
  BY <1>2, <1>3
<1> QED BY <1>1, <1>2, <1>3, <1>6, <1>7 DEF d

-----------------------------------------------------------------------------
(* What the assembler has of the text, index by index, and of the calls.   *)

Piece(s, i) ==
  IF i \in DOMAIN s.content
  THEN (IF s.content[i].kind = "Text" THEN s.content[i].text ELSE <<>>)
  ELSE IF s.text # Nil /\ s.text.index = i THEN s.text.text ELSE <<>>

TextSoFar(s, total) ==
  \E acc \in [0..s.next -> Texts] :
    /\ acc[0] = <<>>
    /\ \A i \in 0..s.next - 1 : acc[i + 1] = acc[i] \o Piece(s, i)
    /\ acc[s.next] = total

(* No text comes or goes; if text is open, it is what it was and still last. *)
SameText(r, s) ==
  /\ r.next \in Nat /\ s.next \in Nat /\ s.next <= r.next
  /\ \A i \in 0..s.next - 1 : Piece(r, i) = Piece(s, i)
  /\ \A i \in s.next..r.next - 1 : Piece(r, i) = <<>>
  /\ r.text # Nil => r.text = s.text /\ r.next = s.next

(* No call is completed, and what is complete stays; the tools are those there
   were and new ones. *)
SameCalls(r, s, new) ==
  /\ DOMAIN r.tools = DOMAIN s.tools \cup new
  /\ \A t \in DOMAIN s.tools : s.tools[t].completed => r.tools[t] = s.tools[t]
  /\ \A t \in DOMAIN r.tools :
       r.tools[t].completed => t \in DOMAIN s.tools /\ s.tools[t].completed
  /\ \A i \in DOMAIN s.content : i \in DOMAIN r.content /\ r.content[i] = s.content[i]
  /\ \A i \in DOMAIN r.content :
       r.content[i].kind = "ToolCall" => i \in DOMAIN s.content

Continues(r, s, new) == SameText(r, s) /\ SameCalls(r, s, new)

(* One after the other. *)
LEMMA ContinuesOn ==
  ASSUME NEW q, NEW r, NEW s, NEW new, NEW more, Continues(r, s, new), Continues(q, r, more)
  PROVE  Continues(q, s, new \cup more)
<1>1. SameText(q, s)
  <2>1. /\ q.next \in Nat /\ r.next \in Nat /\ s.next \in Nat
        /\ s.next <= r.next /\ r.next <= q.next
    BY DEF Continues, SameText
  <2>2. ASSUME NEW i \in 0..s.next - 1 PROVE Piece(q, i) = Piece(s, i)
    <3>1. i \in 0..r.next - 1
      BY <2>1
    <3> QED BY <3>1 DEF Continues, SameText
  <2>3. ASSUME NEW i \in s.next..q.next - 1 PROVE Piece(q, i) = <<>>
    <3>1. (i \in s.next..r.next - 1 /\ i \in 0..r.next - 1) \/ i \in r.next..q.next - 1
      BY <2>1
    <3> QED BY <3>1 DEF Continues, SameText
  <2>4. q.text # Nil => q.text = s.text /\ q.next = s.next
    BY DEF Continues, SameText
  <2> QED BY <2>1, <2>2, <2>3, <2>4 DEF SameText
<1>2. SameCalls(q, s, new \cup more)
  <2>1. DOMAIN q.tools = DOMAIN s.tools \cup (new \cup more)
    BY DEF Continues, SameCalls
  <2>2. \A t \in DOMAIN s.tools : s.tools[t].completed => q.tools[t] = s.tools[t]
    BY DEF Continues, SameCalls
  <2>3. \A t \in DOMAIN q.tools :
          q.tools[t].completed => t \in DOMAIN s.tools /\ s.tools[t].completed
    BY DEF Continues, SameCalls
  <2>4. \A i \in DOMAIN s.content : i \in DOMAIN q.content /\ q.content[i] = s.content[i]
    BY DEF Continues, SameCalls
  <2>5. ASSUME NEW i \in DOMAIN q.content, q.content[i].kind = "ToolCall"
        PROVE  i \in DOMAIN s.content
    <3>1. i \in DOMAIN r.content /\ q.content[i] = r.content[i]
      BY <2>5 DEF Continues, SameCalls
    <3> QED BY <2>5, <3>1 DEF Continues, SameCalls
  <2> QED BY <2>1, <2>2, <2>3, <2>4, <2>5 DEF SameCalls
<1> QED BY <1>1, <1>2 DEF Continues

(* The same, when neither or only the second has new tools. *)
LEMMA ContinuesAgain ==
  ASSUME NEW q, NEW r, NEW s, NEW new, Continues(r, s, {}), Continues(q, r, new)
  PROVE  Continues(q, s, new)
<1>1. Continues(q, s, {} \cup new)
  BY ContinuesOn
<1>2. {} \cup new = new
  OBVIOUS
<1> QED BY <1>1, <1>2

(* A change of anything but text, content, tools and count continues. *)
LEMMA SameContinues ==
  ASSUME NEW s, s.next \in Nat, NEW r, r.content = s.content, r.text = s.text,
         r.next = s.next, r.tools = s.tools
  PROVE  Continues(r, s, {})
<1>1. \A i \in 0..s.next - 1 : Piece(r, i) = Piece(s, i)
  BY DEF Piece
<1>2. \A i \in s.next..r.next - 1 : FALSE
  OBVIOUS
<1>3. SameText(r, s)
  BY <1>1, <1>2 DEF SameText
<1> QED BY <1>3 DEF Continues, SameCalls

(* A tool that is not complete changes and is not completed. *)
LEMMA ToolContinues ==
  ASSUME NEW s, s.next \in Nat, NEW r, r.content = s.content, r.text = s.text,
         r.next = s.next, NEW t \in DOMAIN s.tools, ~s.tools[t].completed,
         DOMAIN r.tools = DOMAIN s.tools, ~r.tools[t].completed,
         \A u \in DOMAIN s.tools : u # t => r.tools[u] = s.tools[u]
  PROVE  Continues(r, s, {})
<1>1. \A i \in 0..s.next - 1 : Piece(r, i) = Piece(s, i)
  BY DEF Piece
<1>2. \A i \in s.next..r.next - 1 : FALSE
  OBVIOUS
<1>3. SameText(r, s)
  BY <1>1, <1>2 DEF SameText
<1> QED BY <1>3 DEF Continues, SameCalls

(* A new index has no text yet. *)
LEMMA AllocateContinues ==
  ASSUME NEW s, Ready(s, {}), s.text = Nil, NEW kind
  PROVE  Continues(Allocate(s, kind), s, {})
<1> DEFINE r == Allocate(s, kind)
<1>1. DOMAIN s = Fields /\ s.next \in Nat /\ DOMAIN s.content \subseteq 0..s.next - 1
  BY Apart DEF Ready, Typed
<1>2. Same(r, s, {"pending", "next"}) /\ r.next = s.next + 1
  BY <1>1, AllocateIs
<1> HIDE DEF r
<1>3. r.content = s.content /\ r.text = Nil /\ r.tools = s.tools
  BY <1>2, FieldsAre DEF Same
<1>4. \A i \in 0..s.next - 1 : Piece(r, i) = Piece(s, i)
  BY <1>3 DEF Piece
<1>5. ASSUME NEW i \in s.next..r.next - 1 PROVE Piece(r, i) = <<>>
  <2>1. i \notin DOMAIN r.content
    BY <1>1, <1>3
  <2> QED BY <1>3, <2>1 DEF Piece
<1>6. SameText(r, s)
  BY <1>1, <1>2, <1>3, <1>4, <1>5 DEF SameText
<1>7. SameCalls(r, s, {})
  BY <1>3 DEF SameCalls
<1> QED BY <1>6, <1>7 DEF Continues, r

(* A part that is no text and no call is kept under the index in hand. *)
LEMMA CloseContinues ==
  ASSUME NEW s, NEW i, Ready(s, {i}), NEW part, part.kind = "ProviderData"
  PROVE  Continues(Close(s, i, part), s, {})
<1> DEFINE r == Close(s, i, part)
<1>1. /\ DOMAIN s = Fields /\ s.next \in Nat /\ i \notin DOMAIN s.content
      /\ s.text # Nil => s.text.index # i
  BY Apart DEF Ready, Typed
<1>2. Same(r, s, {"pending", "content"}) /\ r.content = Put(s.content, i, part)
  BY <1>1, CloseIs
<1>3. r.next = s.next /\ r.text = s.text /\ r.tools = s.tools
  BY <1>2, FieldsAre DEF Same
<1>4. /\ DOMAIN r.content = DOMAIN s.content \cup {i} /\ r.content[i] = part
      /\ \A k \in DOMAIN s.content : k # i /\ r.content[k] = s.content[k]
  <2> HIDE DEF r
  <2> QED BY <1>1, <1>2 DEF Put
<1> HIDE DEF r
<1>5. ASSUME NEW k PROVE Piece(r, k) = Piece(s, k)
  <2>1. CASE k = i
    <3>1. Piece(r, k) = <<>>
      BY <1>4, <2>1 DEF Piece
    <3>2. Piece(s, k) = <<>>
      BY <1>1, <2>1 DEF Piece
    <3> QED BY <3>1, <3>2
  <2>2. CASE k # i
    <3>1. k \in DOMAIN r.content <=> k \in DOMAIN s.content
      BY <1>4, <2>2
    <3> QED BY <1>3, <1>4, <2>2, <3>1 DEF Piece
  <2> QED BY <2>1, <2>2
<1>6. SameText(r, s)
  <2>1. \A k \in s.next..r.next - 1 : FALSE
    BY <1>1, <1>3
  <2> QED BY <1>1, <1>3, <1>5, <2>1 DEF SameText
<1>7. SameCalls(r, s, {})
  BY <1>3, <1>4 DEF SameCalls
<1> QED BY <1>6, <1>7 DEF Continues, r

(* Text that is closed stays where it was. *)
LEMMA CloseTextContinues ==
  ASSUME NEW s, Ready(s, {})
  PROVE  Continues(CloseText(s), s, {})
<1>0. s.next \in Nat /\ DOMAIN s = Fields
  BY DEF Ready, Typed
<1>1. CASE s.text = Nil
  BY <1>0, <1>1, SameContinues DEF CloseText
<1>2. CASE s.text # Nil
  <2> DEFINE i == s.text.index
             x == [s EXCEPT !.text = Nil]
             part == TextContent(s.text.text)
             r == Close(x, i, part)
  <2>1. CloseText(s) = r
    BY <1>2 DEF CloseText
  <2>2. /\ x.content = s.content /\ x.tools = s.tools /\ x.next = s.next
        /\ x.text = Nil /\ DOMAIN x = Fields
    BY <1>0, FieldsAre
  <2>3. part.kind = "Text" /\ part.text = s.text.text
    BY DEF TextContent
  <2>4. i \notin DOMAIN s.content
    BY <1>2, Apart
  <2> HIDE DEF x, part
  <2>5. Same(r, x, {"pending", "content"}) /\ r.content = Put(x.content, i, part)
    BY <2>2, CloseIs
  <2>6. r.next = s.next /\ r.text = Nil /\ r.tools = s.tools
    BY <2>2, <2>5, FieldsAre DEF Same
  <2>7. /\ DOMAIN r.content = DOMAIN s.content \cup {i} /\ r.content[i] = part
        /\ \A k \in DOMAIN s.content : k # i /\ r.content[k] = s.content[k]
    <3> HIDE DEF r, i
    <3> QED BY <2>2, <2>4, <2>5 DEF Put
  <2> HIDE DEF r
  <2>8. ASSUME NEW k PROVE Piece(r, k) = Piece(s, k)
    <3>1. CASE k = i
      BY <1>2, <2>3, <2>4, <2>7, <3>1 DEF Piece
    <3>2. CASE k # i
      <4>1. k \in DOMAIN r.content <=> k \in DOMAIN s.content
        BY <2>7, <3>2
      <4> QED BY <2>6, <2>7, <3>2, <4>1 DEF Piece
    <3> QED BY <3>1, <3>2
  <2>9. SameText(r, s)
    <3>1. \A k \in s.next..r.next - 1 : FALSE
      BY <1>0, <2>6
    <3> QED BY <1>0, <2>6, <2>8, <3>1 DEF SameText
  <2>10. SameCalls(r, s, {})
    BY <2>3, <2>6, <2>7 DEF SameCalls
  <2> QED BY <2>1, <2>9, <2>10 DEF Continues
<1> QED BY <1>1, <1>2

(* close_reasoning. *)
LEMMA CloseReasoningContinues ==
  ASSUME NEW s, Ready(s, {})
  PROVE  Continues(CloseReasoning(s), s, {})
<1>0. s.next \in Nat
  BY DEF Ready, Typed
<1>1. CASE s.reasoning = Nil
  BY <1>0, <1>1, SameContinues DEF CloseReasoning
<1>2. CASE s.reasoning # Nil
  <2> DEFINE i == s.reasoning.index
             x == [s EXCEPT !.reasoning = Nil]
             part == DataContent("reasoning",
                                 Reasoning(s.reasoning.id, s.reasoning.text))
  <2>1. CloseReasoning(s) = Close(x, i, part)
    BY <1>2 DEF CloseReasoning
  <2>2. Ready(x, {i}) /\ Same(x, s, {"reasoning"})
    BY <1>2, TakeReasoningReady
  <2>3. part.kind = "ProviderData"
    BY DEF DataContent
  <2> HIDE DEF x, part, i
  <2>4. Continues(x, s, {})
    BY <1>0, <2>2, SameContinues, FieldsAre DEF Same
  <2>5. Continues(Close(x, i, part), x, {})
    BY <2>2, <2>3, CloseContinues
  <2> QED BY <2>1, <2>4, <2>5, ContinuesAgain
<1> QED BY <1>1, <1>2

(* Opening reasoning. *)
LEMMA OpenReasoningContinues ==
  ASSUME NEW s, Ready(s, {}), s.text = Nil, NEW id
  PROVE  Continues(OpenReasoning(s, id), s, {})
<1>0. s.next \in Nat /\ DOMAIN s = Fields
  BY DEF Ready, Typed
<1>1. CASE s.reasoning # Nil
  BY <1>0, <1>1, SameContinues DEF OpenReasoning
<1>2. CASE s.reasoning = Nil
  <2> DEFINE a == Allocate(s, "ProviderData")
             block == [index |-> s.next, id |-> id, text |-> <<>>]
             r == [a EXCEPT !.reasoning = block]
  <2>1. OpenReasoning(s, id) = r
    BY <1>2 DEF OpenReasoning
  <2>2. Continues(a, s, {})
    BY AllocateContinues
  <2>3. DOMAIN a = Fields /\ a.next \in Nat
    BY <1>0, AllocateIs DEF Same
  <2> HIDE DEF a, block
  <2>4. /\ r.content = a.content /\ r.text = a.text /\ r.next = a.next
        /\ r.tools = a.tools
    BY <2>3, FieldsAre
  <2> HIDE DEF r
  <2>5. Continues(r, a, {})
    BY <2>3, <2>4, SameContinues
  <2> QED BY <2>1, <2>2, <2>5, ContinuesAgain
<1> QED BY <1>1, <1>2

(* push_reasoning_delta. *)
LEMMA PushReasoningDeltaContinues ==
  ASSUME NEW s, Ready(s, {}), s.text = Nil, NEW id \in ReasoningIds \cup {Nil},
         NEW text
  PROVE  Continues(PushReasoningDelta(s, id, text), s, {})
<1>0. s.next \in Nat /\ DOMAIN s = Fields
  BY DEF Ready, Typed
<1>1. CASE text = <<>>
  BY <1>0, <1>1, SameContinues DEF PushReasoningDelta
<1>2. CASE text # <<>>
  <2> DEFINE c == IF s.reasoning # Nil /\ s.reasoning.id # id
                  THEN CloseReasoning(s) ELSE s
             o == OpenReasoning(c, id)
             x == [o EXCEPT !.reasoning.text = @ \o text]
             events == <<ProviderEvent("reasoning_delta")>>
             r == Emit(x, events)
  <2>1. PushReasoningDelta(s, id, text) = r
    BY <1>2 DEF PushReasoningDelta
  <2>2. Ready(c, {}) /\ c.text = Nil /\ Continues(c, s, {})
    <3>1. s.next \in Nat /\ Continues(s, s, {})
      BY <1>0, SameContinues
    <3>2. /\ Ready(CloseReasoning(s), {}) /\ CloseReasoning(s).text = Nil
          /\ Continues(CloseReasoning(s), s, {})
      BY CloseReasoningReady, CloseReasoningContinues, FieldsAre DEF Same
    <3> QED BY <3>1, <3>2
  <2> HIDE DEF c
  <2>3. Ready(o, {}) /\ Continues(o, c, {})
    BY <2>2, OpenReasoningReady, OpenReasoningContinues
  <2> HIDE DEF o
  <2>4. DOMAIN o = Fields /\ o.next \in Nat
    BY <2>3 DEF Ready, Typed
  <2>5. /\ x.content = o.content /\ x.text = o.text /\ x.next = o.next
        /\ x.tools = o.tools /\ DOMAIN x = Fields
    BY <2>4, FieldsAre
  <2> HIDE DEF x, events
  <2>6. Same(r, x, {"pending"})
    BY <2>5, EmitIs
  <2> HIDE DEF r
  <2>7. Continues(r, o, {})
    BY <2>4, <2>5, <2>6, SameContinues, FieldsAre DEF Same
  <2> QED BY <2>1, <2>2, <2>3, <2>7, ContinuesAgain
<1> QED BY <1>1, <1>2

(* complete_reasoning. *)
LEMMA CompleteReasoningContinues ==
  ASSUME NEW s, Ready(s, {}), s.text = Nil, NEW r \in Reasonings
  PROVE  Continues(CompleteReasoning(s, r), s, {})
<1>0. s.next \in Nat /\ DOMAIN s = Fields
  BY DEF Ready, Typed
<1>1. CASE s.reasoning = Nil /\ EmptyReasoning(r)
  BY <1>0, <1>1, SameContinues DEF CompleteReasoning
<1>2. CASE ~(s.reasoning = Nil /\ EmptyReasoning(r))
  <2> DEFINE a == Allocate(s, "ProviderData")
             opened == IF s.reasoning # Nil THEN s ELSE a
             i == IF s.reasoning # Nil THEN s.reasoning.index ELSE s.next
             x == [opened EXCEPT !.reasoning = Nil]
             events == <<ProviderEvent("reasoning")>>
             e == Emit(x, events)
             part == DataContent("reasoning", r)
  <2>1. CompleteReasoning(s, r) = Close(e, i, part)
    BY <1>2 DEF CompleteReasoning
  <2>2. part.kind = "ProviderData"
    BY DEF DataContent
  <2>3. events \in Seq(Previews)
    BY NoticeTypes
  <2>4. Ready(x, {i}) /\ Continues(x, s, {})
    <3>1. CASE s.reasoning # Nil
      <4>1. Ready(x, {i}) /\ Same(x, s, {"reasoning"})
        BY <3>1, TakeReasoningReady
      <4> HIDE DEF x
      <4> QED BY <1>0, <4>1, SameContinues, FieldsAre DEF Same
    <3>2. CASE s.reasoning = Nil
      <4>1. /\ Ready(a, {s.next}) /\ Same(a, s, {"pending", "next"})
            /\ Continues(a, s, {})
        BY AllocateReady, AllocateContinues DEF Kinds
      <4>2. opened = a /\ i = s.next
        BY <3>2
      <4> HIDE DEF a, opened, i
      <4>3. DOMAIN a = Fields /\ a.reasoning = Nil /\ a.next \in Nat
        BY <3>2, <4>1, FieldsAre DEF Same, Ready, Typed
      <4>4. x = a
        <5>1. a = [k \in DOMAIN a |-> a[k]]
          BY <1>0 DEF a, Allocate
        <5> QED BY <4>2, <4>3, <5>1
      <4> HIDE DEF x
      <4> QED BY <4>1, <4>2, <4>4
    <3> QED BY <3>1, <3>2
  <2> HIDE DEF x, i, part, events
  <2>5. Ready(e, {i}) /\ Same(e, x, {"pending"}) /\ x.next \in Nat
    BY <2>3, <2>4, EmitReady DEF Ready, Typed
  <2> HIDE DEF e
  <2>6. Continues(e, x, {})
    BY <2>5, SameContinues, FieldsAre DEF Same
  <2>7. Continues(Close(e, i, part), e, {})
    BY <2>2, <2>5, CloseContinues
  <2> QED BY <2>1, <2>4, <2>6, <2>7, ContinuesAgain
<1> QED BY <1>1, <1>2

(* push_provider_content. *)
LEMMA PushProviderContentContinues ==
  ASSUME NEW s, Ready(s, {}), s.text = Nil,
         NEW kind \in {"reasoning", "tool_call_metadata"}, NEW value
  PROVE  Continues(PushProviderContent(s, kind, value), s, {})
<1> DEFINE a == Allocate(s, "ProviderData")
           events == <<ProviderEvent(kind)>>
           e == Emit(a, events)
           part == DataContent(kind, value)
<1>1. PushProviderContent(s, kind, value) = Close(e, s.next, part)
  BY DEF PushProviderContent
<1>2. Ready(a, {s.next}) /\ Continues(a, s, {}) /\ a.next \in Nat
  BY AllocateReady, AllocateContinues DEF Kinds, Ready, Typed
<1>3. events \in Seq(Previews) /\ part.kind = "ProviderData"
  BY NoticeTypes DEF DataContent
<1> HIDE DEF a, events, part
<1>4. Ready(e, {s.next}) /\ Same(e, a, {"pending"})
  BY <1>2, <1>3, EmitReady
<1> HIDE DEF e
<1>5. Continues(e, a, {})
  BY <1>2, <1>4, SameContinues, FieldsAre DEF Same
<1>6. Continues(Close(e, s.next, part), e, {})
  BY <1>3, <1>4, CloseContinues
<1> QED BY <1>1, <1>2, <1>5, <1>6, ContinuesAgain

(* Closing text and reasoning. *)
LEMMA QuietContinues ==
  ASSUME NEW s, Ready(s, {})
  PROVE  Continues(Quiet(s), s, {})
<1>1. Ready(CloseText(s), {}) /\ Continues(CloseText(s), s, {})
  BY CloseTextReady, CloseTextContinues
<1>2. Continues(CloseReasoning(CloseText(s)), CloseText(s), {})
  BY <1>1, CloseReasoningContinues
<1> QED BY <1>1, <1>2, ContinuesAgain DEF Quiet

(* A tool that is first heard of has no text and no call. *)
LEMMA EnsureToolContinues ==
  ASSUME NEW s, Ready(s, {}), s.text = Nil, NEW t \in Tools
  PROVE  Continues(EnsureTool(s, t), s, {t})
<1>0. s.next \in Nat /\ DOMAIN s = Fields
  BY DEF Ready, Typed
<1>1. CASE t \in DOMAIN s.tools
  <2>1. Continues(s, s, {})
    BY <1>0, SameContinues
  <2>2. DOMAIN s.tools \cup {} = DOMAIN s.tools \cup {t}
    BY <1>1
  <2>3. Continues(s, s, {t})
    BY <2>1, <2>2 DEF Continues, SameCalls
  <2> QED BY <1>1, <2>3 DEF EnsureTool
<1>2. CASE t \notin DOMAIN s.tools
  <2> DEFINE a == Allocate(s, "ToolCall")
             tool == NewTool(s.next)
             r == [a EXCEPT !.tools = Put(a.tools, t, tool)]
  <2>1. EnsureTool(s, t) = r
    BY <1>2 DEF EnsureTool
  <2>2. Continues(a, s, {}) /\ Same(a, s, {"pending", "next"}) /\ a.next \in Nat
    BY <1>0, AllocateContinues, AllocateIs
  <2>3. ~tool.completed
    BY DEF NewTool
  <2> HIDE DEF a, tool
  <2>4. DOMAIN a = Fields /\ a.tools = s.tools
    BY <2>2, FieldsAre DEF Same
  <2>5. /\ r.content = a.content /\ r.text = a.text /\ r.next = a.next
        /\ r.tools = Put(s.tools, t, tool)
    BY <2>4, FieldsAre
  <2> HIDE DEF r
  <2>6. /\ DOMAIN r.tools = DOMAIN s.tools \cup {t} /\ r.tools[t] = tool
        /\ \A u \in DOMAIN s.tools : u # t /\ r.tools[u] = s.tools[u]
    BY <1>2, <2>5 DEF Put
  <2>7. SameText(r, s)
    <3>1. \A i : Piece(r, i) = Piece(a, i)
      BY <2>5 DEF Piece
    <3> QED BY <2>2, <2>5, <3>1 DEF Continues, SameText
  <2>8. SameCalls(r, s, {t})
    <3>1. \A u \in DOMAIN s.tools : s.tools[u].completed => r.tools[u] = s.tools[u]
      BY <2>6
    <3>2. \A u \in DOMAIN r.tools :
            r.tools[u].completed => u \in DOMAIN s.tools /\ s.tools[u].completed
      BY <2>3, <2>6
    <3>3. r.content = s.content
      BY <2>2, <2>5, FieldsAre DEF Same
    <3> QED BY <2>6, <3>1, <3>2, <3>3 DEF SameCalls
  <2> QED BY <2>1, <2>7, <2>8 DEF Continues
<1> QED BY <1>1, <1>2

(* The id, the start and the fragments of a call that is not complete. *)
LEMMA OpenToolContinues ==
  ASSUME NEW s, Ready(s, {}), NEW t \in DOMAIN s.tools, ~s.tools[t].completed
  PROVE  /\ \A id : Continues(ObserveToolId(s, t, id), s, {})
         /\ \A name : Continues(StartIfIdentified(s, t, name), s, {})
         /\ Continues(FlushArguments(s, t), s, {})
         /\ \A atom : /\ Continues([s EXCEPT !.tools[t].name = Append(@, atom)], s, {})
                      /\ Continues([s EXCEPT !.tools[t].args = Append(@, atom)], s, {})
<1>0. s.next \in Nat /\ DOMAIN s = Fields /\ s.tools[t] \in ToolStates
  BY DEF Ready, Typed
<1>1. ASSUME NEW r, NEW tool, ~tool.completed, r.content = s.content, r.text = s.text,
             r.next = s.next, r.tools = [s.tools EXCEPT ![t] = tool]
      PROVE  Continues(r, s, {})
  BY <1>0, <1>1, ToolContinues
<1>2. Continues(s, s, {})
  BY <1>0, SameContinues
<1>3. ASSUME NEW id PROVE Continues(ObserveToolId(s, t, id), s, {})
  <2> DEFINE r == [s EXCEPT !.tools[t].id = id, !.used = @ \cup {id}]
             tool == [s.tools[t] EXCEPT !.id = id]
  <2>1. /\ r.content = s.content /\ r.text = s.text /\ r.next = s.next
        /\ r.tools = [s.tools EXCEPT ![t] = tool]
    BY <1>0, FieldsAre
  <2>2. ~tool.completed
    BY <1>0 DEF ToolStates
  <2> HIDE DEF tool, r
  <2>3. Continues(r, s, {})
    BY <1>1, <2>1, <2>2
  <2> QED BY <1>2, <2>3 DEF ObserveToolId, r
<1>4. ASSUME NEW name PROVE Continues(StartIfIdentified(s, t, name), s, {})
  <2> DEFINE x == [s EXCEPT !.tools[t].started = TRUE]
             events == <<ToolCallStarted(s.tools[t].index, s.tools[t].id, name)>>
             r == Emit(x, events)
             tool == [s.tools[t] EXCEPT !.started = TRUE]
  <2>1. /\ x.content = s.content /\ x.text = s.text /\ x.next = s.next
        /\ x.tools = [s.tools EXCEPT ![t] = tool] /\ DOMAIN x = Fields
    BY <1>0, FieldsAre
  <2>2. ~tool.completed
    BY <1>0 DEF ToolStates
  <2> HIDE DEF tool, x, events
  <2>3. Same(r, x, {"pending"})
    BY <2>1, EmitIs
  <2> HIDE DEF r
  <2>4. Continues(r, s, {})
    BY <1>1, <2>1, <2>2, <2>3, FieldsAre DEF Same
  <2> QED BY <1>2, <2>4 DEF StartIfIdentified, r, x, events
<1>5. Continues(FlushArguments(s, t), s, {})
  <2> DEFINE old == s.tools[t]
             fragments == SubSeq(old.args, old.emitted + 1, Len(old.args))
             x == [s EXCEPT !.tools[t].emitted = Len(old.args)]
             events == [k \in DOMAIN fragments |->
                          ToolCallArgumentsDelta(old.index, <<fragments[k]>>)]
             r == Emit(x, events)
             tool == [old EXCEPT !.emitted = Len(old.args)]
  <2>1. /\ x.content = s.content /\ x.text = s.text /\ x.next = s.next
        /\ x.tools = [s.tools EXCEPT ![t] = tool] /\ DOMAIN x = Fields
    BY <1>0, FieldsAre
  <2>2. ~tool.completed
    BY <1>0 DEF ToolStates
  <2>3. FlushArguments(s, t) \in {s, r}
    BY DEF FlushArguments
  <2> HIDE DEF tool, x, events
  <2>4. Same(r, x, {"pending"})
    BY <2>1, EmitIs
  <2> HIDE DEF r
  <2>5. Continues(r, s, {})
    BY <1>1, <2>1, <2>2, <2>4, FieldsAre DEF Same
  <2> QED BY <1>2, <2>3, <2>5
<1>6. ASSUME NEW atom
      PROVE  /\ Continues([s EXCEPT !.tools[t].name = Append(@, atom)], s, {})
             /\ Continues([s EXCEPT !.tools[t].args = Append(@, atom)], s, {})
  <2> DEFINE x == [s EXCEPT !.tools[t].name = Append(@, atom)]
             y == [s EXCEPT !.tools[t].args = Append(@, atom)]
             named == [s.tools[t] EXCEPT !.name = Append(@, atom)]
             argued == [s.tools[t] EXCEPT !.args = Append(@, atom)]
  <2>1. /\ x.content = s.content /\ x.text = s.text /\ x.next = s.next
        /\ x.tools = [s.tools EXCEPT ![t] = named]
        /\ y.content = s.content /\ y.text = s.text /\ y.next = s.next
        /\ y.tools = [s.tools EXCEPT ![t] = argued]
    BY <1>0, FieldsAre
  <2>2. ~named.completed /\ ~argued.completed
    BY <1>0 DEF ToolStates
  <2> HIDE DEF x, y, named, argued
  <2>3. Continues(x, s, {}) /\ Continues(y, s, {})
    BY <1>1, <2>1, <2>2
  <2> QED BY <2>3 DEF x, y
<1> QED BY <1>3, <1>4, <1>5, <1>6

(* push_tool_delta. *)
LEMMA PushToolDeltaContinues ==
  ASSUME NEW s, Ready(s, {}), s.text = Nil, NEW t \in Tools,
         NEW part \in {"name", "args"}, NEW atom \in Atoms, ~BadDelta(s, t)
  PROVE  Continues(PushToolDelta(s, t, part, atom), s, {t})
<1> DEFINE known == EnsureTool(s, t)
           pushed == IF part = "name"
                     THEN [known EXCEPT !.tools[t].name = Append(@, atom)]
                     ELSE [known EXCEPT !.tools[t].args = Append(@, atom)]
           begun == StartIfIdentified(pushed, t, Nil)
<1>1. PushToolDelta(s, t, part, atom) = FlushArguments(begun, t)
  BY DEF PushToolDelta
<1>2. /\ Ready(known, {}) /\ t \in DOMAIN known.tools /\ ~known.tools[t].completed
      /\ Continues(known, s, {t})
  BY EnsureToolReady, EnsureToolContinues, FreshOrOpen DEF BadDelta
<1> HIDE DEF known
<1>3. DOMAIN known = Fields /\ known.tools[t] \in ToolStates
  BY <1>2 DEF Ready, Typed
<1>4. /\ Ready(pushed, {}) /\ DOMAIN pushed.tools = DOMAIN known.tools
      /\ ~pushed.tools[t].completed
  <2> DEFINE old == known.tools[t]
             tool == IF part = "name" THEN [old EXCEPT !.name = Append(old.name, atom)]
                     ELSE [old EXCEPT !.args = Append(old.args, atom)]
  <2>1. Append(old.name, atom) \in Texts /\ Append(old.args, atom) \in Texts
    BY <1>3, ToolFields DEF Texts
  <2>2. /\ tool \in ToolStates /\ tool.index = old.index
        /\ tool.completed = old.completed /\ tool.id = old.id
    BY <1>3, <2>1 DEF ToolStates
  <2>3. Same(pushed, known, {"tools"}) /\ pushed.tools = [known.tools EXCEPT ![t] = tool]
    BY <1>3, FieldsAre DEF Same
  <2> HIDE DEF pushed, tool
  <2>4. Ready(pushed, {})
    BY <1>2, <2>2, <2>3, ToolReady
  <2> QED BY <1>2, <2>2, <2>3, <2>4
<1>5. Continues(pushed, known, {})
  BY <1>2, OpenToolContinues
<1> HIDE DEF pushed
<1>6. /\ Ready(begun, {}) /\ t \in DOMAIN begun.tools /\ ~begun.tools[t].completed
      /\ Continues(begun, pushed, {})
  BY <1>2, <1>4, StartIfIdentifiedReady, OpenToolContinues
<1> HIDE DEF begun
<1>7. Continues(FlushArguments(begun, t), begun, {})
  BY <1>6, OpenToolContinues
<1>8. Continues(FlushArguments(begun, t), known, {})
  BY <1>5, <1>6, <1>7, ContinuesAgain
<1>9. Continues(FlushArguments(begun, t), s, {t} \cup {})
  BY <1>2, <1>8, ContinuesOn
<1>10. {t} \cup {} = {t}
  OBVIOUS
<1> QED BY <1>1, <1>9, <1>10

-----------------------------------------------------------------------------
(* What the assembler has is what was sent.                                *)

\* The tools of some items: ToolsSent are those of the items sent.
ToolsOf(items) ==
  {items[k].tool : k \in {j \in DOMAIN items :
                            items[j].type \in {"ToolCall", "ToolCallDelta"}}}

\* The tool an item is of, if any.
ToolOf(item) == IF item.type \in {"ToolCall", "ToolCallDelta"} THEN {item.tool} ELSE {}

\* A complete tool has its call among the content, as its item gave it.
Answered(s, t, said) ==
  LET i == s.tools[t].index
  IN  /\ i \in DOMAIN s.content /\ s.content[i].kind = "ToolCall"
      /\ s.content[i].call.id = s.tools[t].id
      /\ \E j \in DOMAIN said :
           /\ said[j].type = "ToolCall" /\ said[j].tool = t
           /\ said[j].name = s.content[i].call.name
           /\ said[j].args = s.content[i].call.args

CallsCarried(s, said) ==
  /\ DOMAIN s.tools = ToolsOf(said)
  /\ \A t \in DOMAIN s.tools : s.tools[t].completed => Answered(s, t, said)
  /\ \A i \in DOMAIN s.content :
       s.content[i].kind = "ToolCall" =>
         \E t \in DOMAIN s.tools : s.tools[t].completed /\ s.tools[t].index = i

Carried(s, said) ==
  /\ TextSoFar(s, Said(said))
  /\ s.text # Nil => s.text.index = s.next - 1
  /\ CallsCarried(s, said)

(* One item more is of one tool more, or of none. *)
LEMMA ToolsMore ==
  ASSUME NEW c \in Seq(ItemSet), NEW item
  PROVE  ToolsOf(Append(c, item)) = ToolsOf(c) \cup ToolOf(item)
<1> DEFINE d == Append(c, item)
           n == Len(c)
<1>1. /\ n \in Nat /\ DOMAIN c = 1..n /\ DOMAIN d = 1..n + 1
      /\ d[n + 1] = item /\ \A k \in 1..n : d[k] = c[k]
  OBVIOUS
<1>2. \A k : k \in 1..n + 1 <=> k \in 1..n \/ k = n + 1
  BY <1>1
<1> HIDE DEF d, n
<1>3. ASSUME NEW t \in ToolsOf(d) PROVE t \in ToolsOf(c) \cup ToolOf(item)
  <2>1. PICK k \in DOMAIN d : /\ d[k].type \in {"ToolCall", "ToolCallDelta"}
                              /\ t = d[k].tool
    BY <1>3 DEF ToolsOf
  <2> QED BY <1>1, <1>2, <2>1 DEF ToolsOf, ToolOf
<1>4. ASSUME NEW t \in ToolsOf(c) PROVE t \in ToolsOf(d)
  <2>1. PICK k \in DOMAIN c : /\ c[k].type \in {"ToolCall", "ToolCallDelta"}
                              /\ t = c[k].tool
    BY <1>4 DEF ToolsOf
  <2> QED BY <1>1, <1>2, <2>1 DEF ToolsOf
<1>5. ASSUME NEW t \in ToolOf(item) PROVE t \in ToolsOf(d)
  <2>1. item.type \in {"ToolCall", "ToolCallDelta"} /\ t = item.tool
    BY <1>5 DEF ToolOf
  <2> QED BY <1>1, <1>2, <2>1 DEF ToolsOf
<1> QED BY <1>3, <1>4, <1>5 DEF d

(* Text that neither comes nor goes adds up to the same. *)
LEMMA TextStays ==
  ASSUME NEW s, NEW r, SameText(r, s), NEW total, TextSoFar(s, total)
  PROVE  TextSoFar(r, total)
<1>1. PICK acc \in [0..s.next -> Texts] :
        /\ acc[0] = <<>>
        /\ \A i \in 0..s.next - 1 : acc[i + 1] = acc[i] \o Piece(s, i)
        /\ acc[s.next] = total
  BY DEF TextSoFar
<1>2. s.next \in Nat /\ r.next \in Nat /\ s.next <= r.next
  BY DEF SameText
<1>3. total \in Texts /\ total \o <<>> = total
  BY <1>1, <1>2 DEF Texts
<1> DEFINE more == [k \in 0..r.next |-> IF k <= s.next THEN acc[k] ELSE total]
<1>4. more \in [0..r.next -> Texts]
  <2>1. \A k \in 0..r.next : k <= s.next => k \in 0..s.next
    BY <1>2
  <2>2. \A k \in 0..r.next : k <= s.next => acc[k] \in Texts
    BY <1>1, <2>1
  <2> QED BY <1>3, <2>2
<1>5. more[0] = <<>> /\ more[r.next] = total
  BY <1>1, <1>2
<1>6. ASSUME NEW i \in 0..r.next - 1 PROVE more[i + 1] = more[i] \o Piece(r, i)
  <2>1. CASE i \in 0..s.next - 1
    <3>1. more[i + 1] = acc[i + 1] /\ more[i] = acc[i]
      BY <1>2, <2>1
    <3>2. Piece(r, i) = Piece(s, i)
      BY <2>1 DEF SameText
    <3> HIDE DEF more
    <3> QED BY <1>1, <2>1, <3>1, <3>2
  <2>2. CASE i \in s.next..r.next - 1
    <3>1. more[i + 1] = total /\ more[i] = total
      BY <1>1, <1>2, <2>2
    <3>2. Piece(r, i) = <<>>
      BY <2>2 DEF SameText
    <3> HIDE DEF more
    <3> QED BY <1>3, <3>1, <3>2
  <2>3. i \in 0..s.next - 1 \/ i \in s.next..r.next - 1
    BY <1>2
  <2> QED BY <2>1, <2>2, <2>3
<1> HIDE DEF more
<1> QED BY <1>4, <1>5, <1>6 DEF TextSoFar

(* What continues carries what it carried, and what says nothing more. *)
LEMMA CarriedOn ==
  ASSUME NEW s, NEW said, Carried(s, said), NEW r, NEW new, Continues(r, s, new),
         NEW now, Said(now) = Said(said), ToolsOf(now) = ToolsOf(said) \cup new,
         \A j \in DOMAIN said : j \in DOMAIN now /\ now[j] = said[j]
  PROVE  Carried(r, now)
<1>1. TextSoFar(r, Said(now))
  BY TextStays DEF Carried, Continues
<1>2. r.text # Nil => r.text.index = r.next - 1
  BY DEF Carried, Continues, SameText
<1>3. CallsCarried(s, said) /\ SameCalls(r, s, new)
  BY DEF Carried, Continues
<1>4. DOMAIN r.tools = ToolsOf(now)
  BY <1>3 DEF CallsCarried, SameCalls
<1>5. ASSUME NEW t \in DOMAIN r.tools, r.tools[t].completed PROVE Answered(r, t, now)
  <2> DEFINE i == s.tools[t].index
  <2>1. t \in DOMAIN s.tools /\ s.tools[t].completed /\ r.tools[t] = s.tools[t]
    BY <1>3, <1>5 DEF SameCalls
  <2>2. Answered(s, t, said)
    BY <1>3, <2>1 DEF CallsCarried
  <2>3. /\ i \in DOMAIN s.content /\ s.content[i].kind = "ToolCall"
        /\ s.content[i].call.id = s.tools[t].id
    BY <2>2 DEF Answered
  <2>4. i \in DOMAIN r.content /\ r.content[i] = s.content[i]
    BY <1>3, <2>3 DEF SameCalls
  <2>5. PICK j \in DOMAIN said : /\ said[j].type = "ToolCall" /\ said[j].tool = t
                                /\ said[j].name = s.content[i].call.name
                                /\ said[j].args = s.content[i].call.args
    BY <2>2 DEF Answered
  <2>6. j \in DOMAIN now /\ now[j] = said[j]
    OBVIOUS
  <2>7. r.tools[t].index = i /\ r.tools[t].id = s.tools[t].id
    BY <2>1
  <2> HIDE DEF i
  <2> QED BY <2>3, <2>4, <2>5, <2>6, <2>7 DEF Answered
<1>6. ASSUME NEW i \in DOMAIN r.content, r.content[i].kind = "ToolCall"
      PROVE  \E t \in DOMAIN r.tools : r.tools[t].completed /\ r.tools[t].index = i
  <2>1. i \in DOMAIN s.content /\ s.content[i].kind = "ToolCall"
    BY <1>3, <1>6 DEF SameCalls
  <2>2. PICK t \in DOMAIN s.tools : s.tools[t].completed /\ s.tools[t].index = i
    BY <1>3, <2>1 DEF CallsCarried
  <2> QED BY <1>3, <2>2 DEF SameCalls
<1> QED BY <1>1, <1>2, <1>4, <1>5, <1>6 DEF Carried, CallsCarried

(* Texts are put together in any order. *)
LEMMA TextsConcat ==
  ASSUME NEW a \in Texts, NEW b \in Texts, NEW c \in Texts
  PROVE  (a \o b) \o c = a \o (b \o c)
BY ConcatAssociative DEF Texts

(* push_text: the open block, or a new one, takes what the item says. *)
LEMMA PushTextCarries ==
  ASSUME NEW s, Ready(s, {}), s.reasoning = Nil, NEW said \in Seq(ItemSet),
         Carried(s, said), NEW item \in ItemSet, item.type = "Text"
  PROVE  Carried(PushText(s, item.text), Append(said, item))
<1> DEFINE text == item.text
           o == OpenText(s)
           block == [o.text EXCEPT !.text = @ \o text]
           x == [o EXCEPT !.text = block]
           events == <<TextDelta(o.text.index, text)>>
           r == Emit(x, events)
           i == o.text.index
           old == o.text.text
           now == Append(said, item)
<1>1. PushText(s, text) = r
  BY DEF PushText
<1>2. /\ Ready(o, {}) /\ o.text \in TextStates
      /\ Same(o, s, {"pending", "next", "text"})
  BY OpenTextReady
<1>3. text \in Texts
  BY TextFields
<1>4. s.next \in Nat /\ DOMAIN s = Fields
  BY DEF Ready, Typed
<1>5. /\ i \in Nat /\ o.next = i + 1 /\ old \in Texts
      /\ \/ s.text = Nil /\ i = s.next /\ old = <<>>
         \/ s.text # Nil /\ i = s.next - 1 /\ old = s.text.text /\ s.text.index = i
  <2>1. i \in Nat /\ old \in Texts
    BY <1>2 DEF TextStates
  <2>2. CASE s.text = Nil
    <3> DEFINE a == Allocate(s, "Text")
               opened == [index |-> s.next, text |-> <<>>]
    <3>1. o = [a EXCEPT !.text = opened]
      BY <2>2 DEF OpenText
    <3>2. DOMAIN a = Fields /\ a.next = s.next + 1
      BY <1>4, AllocateIs DEF Same
    <3> HIDE DEF a
    <3>3. o.text = opened /\ o.next = a.next
      BY <3>1, <3>2, FieldsAre
    <3> HIDE DEF o
    <3> QED BY <1>4, <2>1, <2>2, <3>2, <3>3
  <2>3. CASE s.text # Nil
    <3>1. o = s
      BY <2>3 DEF OpenText
    <3>2. s.text.index = s.next - 1
      BY <2>3 DEF Carried
    <3> HIDE DEF o
    <3> QED BY <1>4, <2>1, <2>3, <3>1, <3>2
  <2> QED BY <2>2, <2>3
<1>6. o.content = s.content /\ o.tools = s.tools /\ DOMAIN o = Fields
  BY <1>2, FieldsAre DEF Same
<1>7. i \notin DOMAIN s.content
  <2>1. o.text # Nil
    BY <1>2, NilAssumption
  <2> HIDE DEF o
  <2> QED BY <1>2, <1>6, <2>1, Apart
<1>8. block.index = i /\ block.text = old \o text /\ block # Nil
  <2>1. old \o text \in Texts
    BY <1>3, <1>5 DEF Texts
  <2> HIDE DEF o, text
  <2>2. block \in TextStates
    BY <1>2, <2>1 DEF TextStates
  <2> QED BY <1>2, <2>2, NilAssumption DEF TextStates
<1> HIDE DEF o, block
<1>9. /\ x.content = s.content /\ x.tools = s.tools /\ x.next = i + 1
      /\ x.text = block /\ DOMAIN x = Fields
  BY <1>5, <1>6, FieldsAre
<1> HIDE DEF x, events
<1>10. Same(r, x, {"pending"})
  BY <1>9, EmitIs
<1> HIDE DEF r
<1>11. /\ r.content = s.content /\ r.tools = s.tools /\ r.next = i + 1
       /\ r.text = block
  BY <1>9, <1>10, FieldsAre DEF Same
<1>12. Said(now) = Said(said) \o text
  BY SaidMore DEF SaidAfter
<1>13. PICK acc \in [0..s.next -> Texts] :
        /\ acc[0] = <<>>
        /\ \A k \in 0..s.next - 1 : acc[k + 1] = acc[k] \o Piece(s, k)
        /\ acc[s.next] = Said(said)
  BY DEF Carried, TextSoFar
<1> HIDE DEF i, old, text
<1>14. /\ acc[i] \in Texts /\ Said(said) = acc[i] \o old
       /\ \A k \in 0..i : k \in 0..s.next
       /\ \A k \in 0..i - 1 : k \in 0..s.next - 1
  <2>1. CASE s.text = Nil /\ i = s.next /\ old = <<>>
    <3>1. acc[i] \in Texts
      BY <1>4, <2>1
    <3>2. acc[i] \o <<>> = acc[i]
      BY <3>1 DEF Texts
    <3> QED BY <1>13, <2>1, <3>1, <3>2
  <2>2. CASE s.text # Nil /\ i = s.next - 1 /\ old = s.text.text /\ s.text.index = i
    <3>1. Piece(s, i) = old
      BY <1>7, <2>2 DEF Piece
    <3>2. i \in 0..s.next - 1 /\ i \in 0..s.next /\ i + 1 = s.next
      BY <1>4, <1>5, <2>2
    <3>3. acc[i] \in Texts /\ Said(said) = acc[i] \o old
      BY <1>13, <3>1, <3>2
    <3>4. /\ \A k \in 0..i : k \in 0..s.next
          /\ \A k \in 0..i - 1 : k \in 0..s.next - 1
      BY <1>4, <1>5, <3>2
    <3> QED BY <3>3, <3>4
  <2> QED BY <1>5, <2>1, <2>2
<1>15. Said(now) = acc[i] \o (old \o text)
  <2>1. (acc[i] \o old) \o text = acc[i] \o (old \o text)
    BY <1>3, <1>5, <1>14, TextsConcat
  <2> HIDE DEF now
  <2> QED BY <1>12, <1>14, <2>1
<1> DEFINE more == [k \in 0..i + 1 |-> IF k <= i THEN acc[k] ELSE acc[i] \o (old \o text)]
<1>16. TextSoFar(r, Said(now))
  <2>1. more \in [0..i + 1 -> Texts]
    <3>1. \A k \in 0..i + 1 : k <= i => k \in 0..i
      BY <1>5
    <3>2. \A k \in 0..i + 1 : k <= i => acc[k] \in Texts
      BY <1>14, <3>1
    <3>3. acc[i] \o (old \o text) \in Texts
      BY <1>3, <1>5, <1>14 DEF Texts
    <3> QED BY <3>2, <3>3
  <2>2. more[0] = <<>> /\ more[i + 1] = Said(now) /\ more[i] = acc[i]
    <3>1. /\ 0 \in 0..i + 1 /\ i \in 0..i + 1 /\ i + 1 \in 0..i + 1
          /\ 0 <= i /\ i <= i /\ ~(i + 1 <= i)
      BY <1>5
    <3> HIDE DEF now
    <3> QED BY <1>13, <1>15, <3>1
  <2>3. Piece(r, i) = old \o text
    BY <1>7, <1>8, <1>11 DEF Piece
  <2>4. ASSUME NEW k \in 0..i PROVE more[k + 1] = more[k] \o Piece(r, k)
    <3>1. CASE k = i
      <4> HIDE DEF more
      <4> QED BY <1>15, <2>2, <2>3, <3>1
    <3>2. CASE k # i
      <4>1. k \in 0..i - 1 /\ k + 1 \in 0..i /\ k <= i /\ k + 1 <= i
        BY <1>5, <3>2
      <4>2. more[k + 1] = acc[k + 1] /\ more[k] = acc[k]
        BY <1>5, <4>1
      <4>3. Piece(r, k) = Piece(s, k)
        <5>1. s.text # Nil => s.text.index # k
          BY <1>5, <3>2
        <5> QED BY <1>8, <1>11, <3>2, <5>1 DEF Piece
      <4> HIDE DEF more
      <4> QED BY <1>13, <1>14, <4>1, <4>2, <4>3
    <3> QED BY <3>1, <3>2
  <2> HIDE DEF more
  <2>5. r.next = i + 1 /\ 0..r.next - 1 = 0..i
    BY <1>5, <1>11
  <2> QED BY <2>1, <2>2, <2>4, <2>5 DEF TextSoFar
<1>17. CallsCarried(r, now)
  <2>1. ToolsOf(now) = ToolsOf(said)
    BY ToolsMore DEF ToolOf
  <2>2. \A j \in DOMAIN said : j \in DOMAIN now /\ now[j] = said[j]
    OBVIOUS
  <2>3. CallsCarried(s, said)
    BY DEF Carried
  <2> HIDE DEF now
  <2>4. ASSUME NEW t \in DOMAIN s.tools, s.tools[t].completed PROVE Answered(r, t, now)
    <3>1. Answered(s, t, said)
      BY <2>3, <2>4 DEF CallsCarried
    <3> QED BY <1>11, <2>2, <3>1 DEF Answered
  <2> QED BY <1>11, <2>1, <2>3, <2>4 DEF CallsCarried
<1>18. r.text.index = r.next - 1
  BY <1>5, <1>8, <1>11
<1> QED BY <1>1, <1>16, <1>17, <1>18 DEF Carried, text

(* A call is completed: its part is kept under the index of its tool. *)
LEMMA CompletionCarries ==
  ASSUME NEW s, Ready(s, {}), NEW said, Carried(s, said), NEW t \in DOMAIN s.tools,
         ~s.tools[t].completed, NEW call, call.id = s.tools[t].id,
         NEW j \in DOMAIN said, said[j].type = "ToolCall", said[j].tool = t,
         said[j].name = call.name, said[j].args = call.args,
         NEW r, r.text = s.text, r.next = s.next,
         r.content = Put(s.content, s.tools[t].index, ToolContent(call)),
         r.tools = [s.tools EXCEPT ![t] = [s.tools[t] EXCEPT !.completed = TRUE]]
  PROVE  Carried(r, said)
<1> DEFINE i == s.tools[t].index
           part == ToolContent(call)
<1>1. /\ s.next \in Nat /\ i \notin DOMAIN s.content /\ s.tools[t] \in ToolStates
      /\ s.text # Nil => s.text.index # i
  BY Apart DEF Ready, Typed
<1>2. part.kind = "ToolCall" /\ part.call = call
  BY DEF ToolContent
<1>3. /\ DOMAIN r.content = DOMAIN s.content \cup {i} /\ r.content[i] = part
      /\ \A k \in DOMAIN s.content : k # i /\ r.content[k] = s.content[k]
  <2> HIDE DEF part, i
  <2> QED BY <1>1 DEF Put, part, i
<1>4. /\ DOMAIN r.tools = DOMAIN s.tools
      /\ \A u \in DOMAIN s.tools :
           /\ r.tools[u].index = s.tools[u].index /\ r.tools[u].id = s.tools[u].id
           /\ r.tools[u].completed = IF u = t THEN TRUE ELSE s.tools[u].completed
  <2> DEFINE tool == [s.tools[t] EXCEPT !.completed = TRUE]
  <2>1. tool.index = i /\ tool.id = s.tools[t].id /\ tool.completed
    BY <1>1 DEF ToolStates
  <2>2. r.tools = [s.tools EXCEPT ![t] = tool]
    OBVIOUS
  <2> HIDE DEF tool
  <2> QED BY <2>1, <2>2
<1> HIDE DEF part, i
<1>5. ASSUME NEW k PROVE Piece(r, k) = Piece(s, k)
  <2>1. CASE k = i
    BY <1>1, <1>2, <1>3, <2>1 DEF Piece
  <2>2. CASE k # i
    <3>1. k \in DOMAIN r.content <=> k \in DOMAIN s.content
      BY <1>3, <2>2
    <3> QED BY <1>3, <2>2, <3>1 DEF Piece
  <2> QED BY <2>1, <2>2
<1>6. SameText(r, s)
  <2>1. \A k \in s.next..r.next - 1 : FALSE
    BY <1>1
  <2> QED BY <1>1, <1>5, <2>1 DEF SameText
<1>7. CallsCarried(r, said)
  <2>0. CallsCarried(s, said)
    BY DEF Carried
  <2>1. DOMAIN r.tools = ToolsOf(said)
    BY <1>4, <2>0 DEF CallsCarried
  <2>2. ASSUME NEW u \in DOMAIN r.tools, r.tools[u].completed PROVE Answered(r, u, said)
    <3>1. CASE u = t
      <4>1. r.tools[u].index = i /\ r.tools[u].id = call.id
        BY <1>4, <3>1 DEF i
      <4>2. i \in DOMAIN r.content /\ r.content[i] = part
        BY <1>3
      <4> QED BY <1>2, <3>1, <4>1, <4>2 DEF Answered
    <3>2. CASE u # t
      <4>1. Answered(s, u, said)
        BY <1>4, <2>0, <2>2, <3>2 DEF CallsCarried
      <4>2. /\ s.tools[u].index \in DOMAIN r.content
            /\ r.content[s.tools[u].index] = s.content[s.tools[u].index]
        BY <1>3, <4>1 DEF Answered
      <4>3. /\ r.tools[u].index = s.tools[u].index /\ r.tools[u].id = s.tools[u].id
        BY <1>4
      <4> QED BY <4>1, <4>2, <4>3 DEF Answered
    <3> QED BY <3>1, <3>2
  <2>3. ASSUME NEW k \in DOMAIN r.content, r.content[k].kind = "ToolCall"
        PROVE  \E u \in DOMAIN r.tools : r.tools[u].completed /\ r.tools[u].index = k
    <3>1. CASE k = i
      BY <1>4, <3>1 DEF i
    <3>2. CASE k # i
      <4>1. k \in DOMAIN s.content /\ s.content[k].kind = "ToolCall"
        BY <1>3, <2>3, <3>2
      <4>2. PICK u \in DOMAIN s.tools : s.tools[u].completed /\ s.tools[u].index = k
        BY <2>0, <4>1 DEF CallsCarried
      <4> QED BY <1>4, <4>2
    <3> QED BY <3>1, <3>2
  <2> QED BY <2>1, <2>2, <2>3 DEF CallsCarried
<1> QED BY <1>6, <1>7, TextStays DEF Carried

(* complete_tool. *)
LEMMA CompleteToolCarries ==
  ASSUME NEW s, Ready(s, {}), s.text = Nil, NEW said \in Seq(ItemSet), Carried(s, said),
         NEW item \in ItemSet, item.type = "ToolCall", ~BadCall(s, item)
  PROVE  Carried(CompleteTool(s, item), Append(said, item))
<1> DEFINE t == item.tool
           known == EnsureTool(s, t)
           named == Identify(known, item)
           begun == StartIfIdentified(named, t, item.name)
           flushed == FlushArguments(begun, t)
           i == flushed.tools[t].index
           call == CallOf(flushed, item)
           events == <<ToolCallCompleted(i, call)>>
           part == ToolContent(call)
           done == [Close(Emit(flushed, events), i, part) EXCEPT
                      !.tools[t].completed = TRUE]
           y == [flushed EXCEPT !.tools[t].completed = TRUE]
           now == Append(said, item)
<1>1. CompleteTool(s, item) =
        IF item.meta = Nil THEN done
        ELSE PushProviderContent(done, "tool_call_metadata", item.meta)
  BY DEF CompleteTool
<1>2. /\ t \in Tools /\ item.name \in Texts /\ item.args \in JsonValues
      /\ item.meta \in Metas \cup {Nil}
  BY ToolCallFields
<1>3. /\ Ready(known, {}) /\ t \in DOMAIN known.tools /\ Continues(known, s, {t})
  BY <1>2, EnsureToolReady, EnsureToolContinues
<1>4. /\ ~known.tools[t].completed
      /\ item.wire # Nil => ~Contradicts(known, t, item.wire)
  BY DEF BadCall
<1> HIDE DEF known
<1>5. /\ Ready(named, {}) /\ t \in DOMAIN named.tools /\ ~named.tools[t].completed
      /\ named.tools[t].id \in Ids
  BY <1>3, <1>4, IdentifyReady
<1>6. Continues(named, known, {})
  <2>1. \E id : named = ObserveToolId(known, t, id)
    BY DEF Identify
  <2> HIDE DEF named
  <2> QED BY <1>3, <1>4, <2>1, OpenToolContinues
<1> HIDE DEF named
<1>7. /\ Ready(begun, {}) /\ t \in DOMAIN begun.tools /\ ~begun.tools[t].completed
      /\ begun.tools[t].id \in Ids /\ Continues(begun, named, {})
  BY <1>2, <1>5, StartIfIdentifiedReady, OpenToolContinues
<1> HIDE DEF begun
<1>8. /\ Ready(flushed, {}) /\ t \in DOMAIN flushed.tools /\ ~flushed.tools[t].completed
      /\ flushed.tools[t].id \in Ids /\ Continues(flushed, begun, {})
  BY <1>7, FlushArgumentsReady, OpenToolContinues
<1> HIDE DEF flushed
<1>9. Continues(flushed, s, {t})
  <2>1. Continues(flushed, known, {})
    BY <1>6, <1>7, <1>8, ContinuesAgain
  <2>2. Continues(flushed, s, {t} \cup {}) /\ {t} \cup {} = {t}
    BY <1>3, <2>1, ContinuesOn
  <2> QED BY <2>2
<1>10. /\ Len(said) + 1 \in DOMAIN now /\ now[Len(said) + 1] = item
       /\ \A j \in DOMAIN said : j \in DOMAIN now /\ now[j] = said[j]
  OBVIOUS
<1>11. Said(now) = Said(said) /\ ToolsOf(now) = ToolsOf(said) \cup {t}
  BY SaidMore, ToolsMore DEF SaidAfter, ToolOf
<1> HIDE DEF now
<1>12. Carried(flushed, now)
  BY <1>9, <1>10, <1>11, CarriedOn
<1>13. /\ DOMAIN flushed = Fields /\ flushed.tools[t] \in ToolStates /\ i \in Nat
  BY <1>8, ToolFields DEF Ready, Typed
<1>14. /\ call \in [id : Ids, name : Texts, args : JsonValues]
       /\ call.id = flushed.tools[t].id /\ call.name = item.name /\ call.args = item.args
  BY <1>2, <1>8 DEF CallOf
<1>15. events \in Seq(Previews) /\ part \in AssistantParts
  BY <1>13, <1>14, EventTypes, PartTypes
<1>16. done = Close(Emit(y, events), i, part)
  <2> HIDE DEF i, events, part
  <2> QED BY <1>13, FieldsAre DEF Close, Emit
<1>17. /\ Same(y, flushed, {"tools"})
       /\ y.tools = [flushed.tools EXCEPT ![t] = [flushed.tools[t] EXCEPT !.completed = TRUE]]
  BY <1>13, FieldsAre DEF Same
<1> HIDE DEF y
<1>18. Ready(y, {i})
  BY <1>8, <1>17, TakeToolReady
<1> HIDE DEF i, events, part, call, done
<1>19. Ready(Emit(y, events), {i}) /\ Same(Emit(y, events), y, {"pending"})
  BY <1>15, <1>18, EmitReady
<1>20. /\ Ready(done, {}) /\ Same(done, Emit(y, events), {"pending", "content"})
       /\ done.content = Put(Emit(y, events).content, i, part)
  <2> DEFINE e == Emit(y, events)
  <2>1. Ready(e, {i}) /\ DOMAIN e = Fields
    BY <1>19 DEF Same
  <2>2. done = Close(e, i, part)
    BY <1>16
  <2> HIDE DEF e
  <2>3. Ready(done, {}) /\ Same(done, e, {"pending", "content"})
    BY <1>13, <1>15, <2>1, <2>2, CloseReady DEF i
  <2>4. done.content = Put(e.content, i, part)
    BY <2>1, <2>2, CloseIs
  <2> QED BY <2>3, <2>4 DEF e
<1>21. /\ done.text = flushed.text /\ done.next = flushed.next
       /\ done.content = Put(flushed.content, i, part)
       /\ done.tools = [flushed.tools EXCEPT ![t] = [flushed.tools[t] EXCEPT !.completed = TRUE]]
  BY <1>17, <1>19, <1>20, FieldsAre DEF Same
<1>22. Carried(done, now)
  <2> DEFINE j == Len(said) + 1
  <2>1. /\ j \in DOMAIN now /\ now[j].type = "ToolCall" /\ now[j].tool = t
        /\ now[j].name = call.name /\ now[j].args = call.args
    BY <1>10, <1>14 DEF call
  <2>2. done.content = Put(flushed.content, flushed.tools[t].index, ToolContent(call))
    BY <1>21 DEF i, part
  <2> HIDE DEF j, t
  <2> QED BY <1>8, <1>12, <1>14, <1>21, <2>1, <2>2, CompletionCarries
<1>23. CASE item.meta = Nil
  BY <1>1, <1>22, <1>23 DEF now
<1>24. CASE item.meta # Nil
  <2> DEFINE r == PushProviderContent(done, "tool_call_metadata", item.meta)
  <2>1. done.text = Nil
    BY <1>9, <1>21 DEF Continues, SameText
  <2>2. Continues(r, done, {})
    BY <1>20, <2>1, PushProviderContentContinues
  <2>3. CompleteTool(s, item) = r
    BY <1>1, <1>24
  <2> HIDE DEF r
  <2>4. ToolsOf(now) = ToolsOf(now) \cup {}
    OBVIOUS
  <2>5. Carried(r, now)
    BY <1>22, <2>2, <2>4, CarriedOn
  <2> QED BY <2>3, <2>5 DEF now
<1> QED BY <1>23, <1>24

(* An item that says nothing and whose handling continues. *)
LEMMA SilentCarries ==
  ASSUME NEW s, NEW said \in Seq(ItemSet), Carried(s, said), NEW item \in ItemSet,
         item.type # "Text", NEW r, Continues(r, s, ToolOf(item))
  PROVE  Carried(r, Append(said, item))
<1>1. Said(Append(said, item)) = Said(said)
  BY SaidMore DEF SaidAfter
<1>2. ToolsOf(Append(said, item)) = ToolsOf(said) \cup ToolOf(item)
  BY ToolsMore
<1>3. \A j \in DOMAIN said :
        j \in DOMAIN Append(said, item) /\ Append(said, item)[j] = said[j]
  OBVIOUS
<1> QED BY <1>1, <1>2, <1>3, CarriedOn

(* Nothing is lost by what continues. *)
LEMMA CarriedStill ==
  ASSUME NEW s, NEW said, Carried(s, said), NEW r, Continues(r, s, {})
  PROVE  Carried(r, said)
<1>1. ToolsOf(said) = ToolsOf(said) \cup {}
  OBVIOUS
<1> QED BY <1>1, CarriedOn

(* handle_item, for every item it does not reject. *)
LEMMA HandleCarries ==
  ASSUME NEW s, Ready(s, {}), NEW said \in Seq(ItemSet), Carried(s, said),
         NEW item \in ItemSet, ~Rejects(s, item)
  PROVE  Carried(Handle(s, item), Append(said, item))
<1> DEFINE q == Quiet(s)
<1>1. /\ Ready(q, {}) /\ Same(q, s, {"pending", "content", "text", "reasoning"})
      /\ q.text = Nil /\ Continues(q, s, {})
  BY QuietReady, QuietContinues
<1>2. q.tools = s.tools /\ q.used = s.used /\ q.next = s.next /\ q.next \in Nat
  BY <1>1, FieldsAre DEF Same, Ready, Typed
<1>3. CASE item.type = "Text"
  <2> DEFINE c == CloseReasoning(s)
             pushed == PushText(c, item.text)
             events == <<ProviderEvent("text_metadata")>>
             e == Emit(pushed, events)
  <2>1. Ready(c, {}) /\ c.reasoning = Nil /\ Continues(c, s, {})
    BY CloseReasoningReady, CloseReasoningContinues
  <2>2. Handle(s, item) = IF item.meta THEN e ELSE pushed
    BY <1>3 DEF Handle
  <2> HIDE DEF c
  <2>3. Carried(c, said)
    BY <2>1, CarriedStill
  <2>4. Carried(pushed, Append(said, item))
    BY <1>3, <2>1, <2>3, PushTextCarries
  <2> HIDE DEF events
  <2>5. Ready(pushed, {}) /\ pushed.next \in Nat /\ DOMAIN pushed = Fields
    <3>1. item.text \in Texts
      BY <1>3, TextFields
    <3>2. Ready(pushed, {})
      BY <2>1, <3>1, PushTextReady
    <3> HIDE DEF pushed
    <3> QED BY <3>2 DEF Ready, Typed
  <2> HIDE DEF pushed
  <2>6. Same(e, pushed, {"pending"})
    BY <2>5, EmitIs
  <2> HIDE DEF e
  <2>7. Continues(e, pushed, {})
    BY <2>5, <2>6, SameContinues, FieldsAre DEF Same
  <2>8. Carried(e, Append(said, item))
    BY <2>4, <2>7, CarriedStill
  <2> QED BY <2>2, <2>4, <2>8
<1>4. CASE item.type = "ToolCallDelta"
  <2> DEFINE r == PushToolDelta(q, item.tool, item.part, item.atom)
  <2>1. Handle(s, item) = r
    BY <1>4 DEF Handle
  <2>2. ~BadDelta(q, item.tool)
    BY <1>2, <1>4 DEF Rejects, BadDelta
  <2>3. ToolOf(item) = {item.tool}
    BY <1>4 DEF ToolOf
  <2> HIDE DEF q
  <2>4. Continues(r, q, {item.tool})
    BY <1>1, <1>4, <2>2, DeltaFields, PushToolDeltaContinues
  <2> HIDE DEF r
  <2>5. Continues(r, s, ToolOf(item))
    BY <1>1, <2>3, <2>4, ContinuesAgain
  <2> QED BY <1>4, <2>1, <2>5, SilentCarries
<1>5. CASE item.type = "ToolCall"
  <2>1. Handle(s, item) = CompleteTool(q, item)
    BY <1>5 DEF Handle
  <2>2. ~BadCall(s, item)
    BY <1>5 DEF Rejects
  <2>3. ~BadCall(q, item)
    <3>1. /\ EnsureTool(q, item.tool).tools = EnsureTool(s, item.tool).tools
          /\ EnsureTool(q, item.tool).used = EnsureTool(s, item.tool).used
      <4>1. DOMAIN s = Fields /\ DOMAIN q = Fields
        BY <1>1 DEF Same, Ready, Typed
      <4> HIDE DEF q
      <4> QED BY <1>2, <4>1, FieldsAre DEF EnsureTool, Allocate
    <3> HIDE DEF q
    <3> QED BY <2>2, <3>1 DEF BadCall, Contradicts
  <2>4. Carried(q, said)
    BY <1>1, CarriedStill
  <2> HIDE DEF q
  <2> QED BY <1>1, <1>5, <2>1, <2>3, <2>4, CompleteToolCarries
<1>6. ASSUME item.type \in {"Reasoning", "ReasoningDelta"}
      PROVE  Carried(Handle(s, item), Append(said, item))
  <2> DEFINE c == CloseText(s)
             r == Handle(s, item)
  <2>1. Ready(c, {}) /\ c.text = Nil /\ Continues(c, s, {})
    BY CloseTextReady, CloseTextContinues
  <2>2. \/ /\ item.type = "Reasoning"
           /\ r = CompleteReasoning(c, item.reasoning)
        \/ /\ item.type = "ReasoningDelta"
           /\ r = PushReasoningDelta(c, item.id, item.text)
    BY <1>6 DEF Handle
  <2>3. ToolOf(item) = {}
    BY <1>6 DEF ToolOf
  <2> HIDE DEF c, r
  <2>4. Continues(r, c, {})
    BY <2>1, <2>2, ReasoningFields, CompleteReasoningContinues, PushReasoningDeltaContinues
  <2>5. Continues(r, s, ToolOf(item))
    BY <2>1, <2>3, <2>4, ContinuesAgain
  <2>6. item.type # "Text"
    BY <1>6
  <2> QED BY <2>5, <2>6, SilentCarries DEF r
<1>7. CASE item.type = "Final"
  <2> DEFINE r == [q EXCEPT !.usage = item.usage, !.stop = item.stop, !.final = TRUE]
  <2>1. Handle(s, item) = r
    BY <1>7 DEF Handle
  <2>2. DOMAIN q = Fields /\ ToolOf(item) = {}
    BY <1>1, <1>7 DEF Same, ToolOf
  <2> HIDE DEF q
  <2>3. /\ r.content = q.content /\ r.text = q.text /\ r.next = q.next
        /\ r.tools = q.tools
    BY <2>2, FieldsAre
  <2> HIDE DEF r
  <2>4. Continues(r, s, ToolOf(item))
    BY <1>1, <1>2, <2>2, <2>3, SameContinues, ContinuesAgain
  <2> QED BY <1>7, <2>1, <2>4, SilentCarries
<1>8. CASE item.type = "Unknown"
  <2> DEFINE events == <<ProviderEvent("unknown_stream_item")>>
             r == Emit(s, events)
  <2>1. Handle(s, item) = r
    BY <1>8 DEF Handle
  <2>2. DOMAIN s = Fields /\ s.next \in Nat /\ ToolOf(item) = {}
    BY <1>8 DEF Ready, Typed, ToolOf
  <2> HIDE DEF events
  <2>3. Same(r, s, {"pending"})
    BY <2>2, EmitIs
  <2> HIDE DEF r
  <2>4. Continues(r, s, ToolOf(item))
    BY <2>2, <2>3, SameContinues, FieldsAre DEF Same
  <2> QED BY <1>8, <2>1, <2>4, SilentCarries
<1> HIDE DEF q
<1> QED BY <1>3, <1>4, <1>5, <1>6, <1>7, <1>8, ItemTypes

-----------------------------------------------------------------------------
(* The response has what was sent.                                         *)

Delivered(content, tools, said) ==
  /\ TextOf(content) = Said(said)
  /\ Cardinality(CallsIn(content)) = Cardinality(ToolsOf(said))
  /\ \A t \in ToolsOf(said) : \E k \in CallsIn(content), j \in DOMAIN said :
       /\ said[j].type = "ToolCall" /\ said[j].tool = t
       /\ tools[t].id = content[k].call.id
       /\ said[j].name = content[k].call.name
       /\ said[j].args = content[k].call.args

\* The content of a response, taken out index by index.
ContentOf(s) == [k \in 1..s.next |-> s.content[k - 1]]

(* A stream that is complete has every index of its content. *)
LEMMA CompleteIsWhole ==
  ASSUME NEW s, Ready(s, {}), s.final => s.text = Nil /\ s.reasoning = Nil,
         ~Incomplete(s)
  PROVE  /\ s.next \in Nat /\ DOMAIN s.content = 0..s.next - 1
         /\ s.text = Nil /\ \A t \in DOMAIN s.tools : s.tools[t].completed
         /\ ContentOf(s) \in Seq(AssistantParts) /\ Len(ContentOf(s)) = s.next
         /\ DOMAIN ContentOf(s) = 1..s.next
         /\ \A k \in 1..s.next : ContentOf(s)[k] = s.content[k - 1]
<1> DEFINE content == ContentOf(s)
<1>1. s.next \in Nat /\ \A i \in DOMAIN s.content : s.content[i] \in AssistantParts
  BY DEF Ready, Typed
<1>2. /\ s.final /\ s.text = Nil /\ s.reasoning = Nil
      /\ \A t \in DOMAIN s.tools : s.tools[t].completed
  BY DEF Incomplete
<1>3. DOMAIN s.content = 0..s.next - 1
  BY <1>2, ContentIsWhole
<1>4. \A k \in 1..s.next : k - 1 \in 0..s.next - 1
  BY <1>1
<1>5. \A k \in 1..s.next : s.content[k - 1] \in AssistantParts
  BY <1>1, <1>3, <1>4
<1>6. content \in Seq(AssistantParts) /\ Len(content) = s.next
  BY <1>1, <1>5 DEF ContentOf
<1> QED BY <1>1, <1>2, <1>3, <1>6 DEF ContentOf

(* The text of the response is the text that was sent. *)
LEMMA TextDelivered ==
  ASSUME NEW s, Ready(s, {}), s.final => s.text = Nil /\ s.reasoning = Nil,
         ~Incomplete(s), NEW total, TextSoFar(s, total)
  PROVE  TextOf(ContentOf(s)) = total
<1> DEFINE content == ContentOf(s)
           n == s.next
<1>1. /\ n \in Nat /\ DOMAIN s.content = 0..n - 1
      /\ content \in Seq(AssistantParts) /\ Len(content) = n
      /\ \A k \in 1..n : content[k] = s.content[k - 1]
  BY CompleteIsWhole
<1>2. PICK sofar \in [0..n -> Texts] :
        /\ sofar[0] = <<>>
        /\ \A i \in 0..n - 1 : sofar[i + 1] = sofar[i] \o Piece(s, i)
        /\ sofar[n] = total
  BY DEF TextSoFar
<1> HIDE DEF content, n
<1>3. PICK acc : /\ acc[0] = <<>>
                 /\ \A k \in 1..n : acc[k] = TextAfter(acc[k - 1], content[k])
                 /\ TextOf(content) = acc[n]
  BY <1>1, TextOfIs
<1> DEFINE Agreed == {k \in 0..n : acc[k] = sofar[k]}
<1>4. 0 \in Agreed
  BY <1>1, <1>2, <1>3
<1>5. ASSUME NEW k \in 1..n, k - 1 \in Agreed PROVE k \in Agreed
  <2>1. k - 1 \in 0..n - 1 /\ k - 1 \in 0..n /\ k \in 0..n /\ (k - 1) + 1 = k
    BY <1>1
  <2>2. acc[k - 1] = sofar[k - 1] /\ sofar[k - 1] \in Texts
    BY <1>2, <1>5, <2>1
  <2>3. sofar[(k - 1) + 1] = sofar[k - 1] \o Piece(s, k - 1)
    BY <1>2, <2>1
  <2>4. sofar[k] = sofar[k - 1] \o Piece(s, k - 1)
    BY <2>1, <2>3
  <2>5. Piece(s, k - 1) = IF content[k].kind = "Text" THEN content[k].text ELSE <<>>
    BY <1>1, <2>1 DEF Piece
  <2>6. sofar[k - 1] \o <<>> = sofar[k - 1]
    BY <2>2 DEF Texts
  <2>7. acc[k] = TextAfter(sofar[k - 1], content[k])
    BY <1>3, <2>2
  <2> QED BY <2>1, <2>4, <2>5, <2>6, <2>7 DEF TextAfter
<1>6. \A k \in 0..n : k \in Agreed
  <2> HIDE DEF Agreed
  <2> QED BY <1>1, <1>4, <1>5, CountUp
<1>7. n \in 0..n
  BY <1>1
<1> QED BY <1>2, <1>3, <1>6, <1>7 DEF content

(* The response has one call for each tool. *)
LEMMA CallsDelivered ==
  ASSUME NEW s, Ready(s, {}), s.final => s.text = Nil /\ s.reasoning = Nil,
         ~Incomplete(s), NEW said, CallsCarried(s, said)
  PROVE  Cardinality(CallsIn(ContentOf(s))) = Cardinality(ToolsOf(said))
<1> DEFINE content == ContentOf(s)
           n == s.next
           Calls == CallsIn(content)
           T == DOMAIN s.tools
           tool == [k \in Calls |-> CHOOSE t \in T : s.tools[t].index = k - 1]
<1>1. /\ n \in Nat /\ DOMAIN s.content = 0..n - 1 /\ DOMAIN content = 1..n
      /\ \A k \in 1..n : content[k] = s.content[k - 1]
      /\ \A t \in T : s.tools[t].completed
  BY CompleteIsWhole
<1>2. /\ \A t, u \in T : t # u => s.tools[t].index # s.tools[u].index
      /\ T = ToolsOf(said)
  BY DEF Ready, Owned, CallsCarried
<1> HIDE DEF content, n
<1>3. ASSUME NEW k \in Calls PROVE \E t \in T : s.tools[t].index = k - 1
  <2>1. k \in 1..n /\ k - 1 \in 0..n - 1 /\ s.content[k - 1].kind = "ToolCall"
    BY <1>1 DEF CallsIn
  <2> QED BY <1>1, <2>1 DEF CallsCarried
<1>4. \A k \in Calls : tool[k] \in T /\ s.tools[tool[k]].index = k - 1 /\ k \in Int
  <2>1. Calls \subseteq 1..n
    BY <1>1 DEF CallsIn
  <2> HIDE DEF Calls
  <2> QED BY <1>3, <2>1
<1>5. ASSUME NEW t \in T PROVE \E k \in Calls : tool[k] = t
  <2> DEFINE i == s.tools[t].index
  <2>1. i \in 0..n - 1 /\ s.content[i].kind = "ToolCall"
    BY <1>1 DEF CallsCarried, Answered
  <2>2. i + 1 \in 1..n /\ (i + 1) - 1 = i
    BY <1>1, <2>1
  <2>3. content[i + 1].kind = "ToolCall"
    BY <1>1, <2>1, <2>2
  <2>4. i + 1 \in Calls
    BY <1>1, <2>2, <2>3 DEF CallsIn
  <2> HIDE DEF Calls, tool
  <2>5. tool[i + 1] \in T /\ s.tools[tool[i + 1]].index = i
    BY <1>4, <2>2, <2>4
  <2>6. tool[i + 1] = t
    BY <1>2, <2>5
  <2> QED BY <2>4, <2>6
<1>6. IsFiniteSet(Calls)
  <2>1. Calls \in SUBSET (1..n) /\ IsFiniteSet(1..n)
    BY <1>1, FS_Interval DEF CallsIn
  <2> HIDE DEF Calls
  <2> QED BY <2>1, FS_Subset
<1>7. tool \in [Calls -> T]
  BY <1>3
<1> HIDE DEF Calls, tool, T
<1>8. \A a, b \in Calls : tool[a] = tool[b] => a = b
  <2> SUFFICES ASSUME NEW a \in Calls, NEW b \in Calls, tool[a] = tool[b] PROVE a = b
    OBVIOUS
  <2>1. a - 1 = b - 1 /\ a \in Int /\ b \in Int
    BY <1>4
  <2> QED BY <2>1
<1>9. tool \in Bijection(Calls, T)
  BY <1>5, <1>7, <1>8 DEF Bijection, Injection, Surjection, IsInjective
<1>10. Cardinality(T) = Cardinality(Calls)
  BY <1>6, <1>9, FS_Bijection DEF ExistsBijection
<1> QED BY <1>2, <1>10 DEF Calls, content

(* finish_stream: the response has everything. *)
LEMMA FinishDelivers ==
  ASSUME NEW s, Ready(s, {}), s.final => s.text = Nil /\ s.reasoning = Nil,
         ~Incomplete(s), NEW said, Carried(s, said)
  PROVE  Delivered(ContentOf(s), s.tools, said)
<1> DEFINE content == ContentOf(s)
           n == s.next
<1>1. TextSoFar(s, Said(said)) /\ CallsCarried(s, said)
  BY DEF Carried
<1>2. /\ n \in Nat /\ DOMAIN s.content = 0..n - 1 /\ DOMAIN content = 1..n
      /\ \A k \in 1..n : content[k] = s.content[k - 1]
      /\ \A t \in DOMAIN s.tools : s.tools[t].completed
  BY CompleteIsWhole
<1>3. TextOf(content) = Said(said) /\ Cardinality(CallsIn(content)) = Cardinality(ToolsOf(said))
  BY <1>1, TextDelivered, CallsDelivered
<1> HIDE DEF content, n
<1>4. ASSUME NEW t \in ToolsOf(said)
      PROVE  \E k \in CallsIn(content), j \in DOMAIN said :
               /\ said[j].type = "ToolCall" /\ said[j].tool = t
               /\ s.tools[t].id = content[k].call.id
               /\ said[j].name = content[k].call.name
               /\ said[j].args = content[k].call.args
  <2> DEFINE i == s.tools[t].index
  <2>1. Answered(s, t, said)
    BY <1>1, <1>2 DEF CallsCarried
  <2>2. i \in 0..n - 1 /\ s.content[i].kind = "ToolCall" /\ s.content[i].call.id = s.tools[t].id
    BY <1>2, <2>1 DEF Answered
  <2>3. PICK j \in DOMAIN said : /\ said[j].type = "ToolCall" /\ said[j].tool = t
                                 /\ said[j].name = s.content[i].call.name
                                 /\ said[j].args = s.content[i].call.args
    BY <2>1 DEF Answered
  <2>4. i + 1 \in 1..n /\ (i + 1) - 1 = i
    BY <1>2, <2>2
  <2>5. content[i + 1] = s.content[i]
    BY <1>2, <2>4
  <2>6. i + 1 \in CallsIn(content)
    BY <1>2, <2>2, <2>4, <2>5 DEF CallsIn
  <2> QED BY <2>2, <2>3, <2>5, <2>6
<1> QED BY <1>3, <1>4 DEF Delivered, content
-----------------------------------------------------------------------------
(* Nothing is lost: the invariant.                                         *)

(* What was sent is with the assembler, then in the response that waits, then
   in the one the consumer has. *)
Keeping ==
  /\ ~asm.finished /\ ~asm.failed => Carried(asm, sent)
  /\ \A k \in DOMAIN asm.pending :
       asm.pending[k].type = "ResponseCompleted"
         => Delivered(asm.pending[k].content, asm.tools, sent)
  /\ outcome = "completed" => Delivered(event.content, asm.tools, sent)

(* Nothing sent, nothing to carry. *)
LEMMA NothingCarried == Carried(NewState, <<>>)
<1> DEFINE none == <<>>
           acc == [k \in 0..0 |-> none]
<1>1. /\ NewState.next = 0 /\ NewState.text = Nil
      /\ DOMAIN NewState.content = {} /\ DOMAIN NewState.tools = {}
  BY DEF NewState
<1>2. 0..0 = {0} /\ 0..0 - 1 = {}
  OBVIOUS
<1>3. /\ acc \in [0..0 -> Texts] /\ acc[0] = none
      /\ \A i \in 0..0 - 1 : acc[i + 1] = acc[i] \o Piece(NewState, i)
  BY <1>2 DEF Texts
<1> HIDE DEF acc
<1>4. TextSoFar(NewState, none)
  BY <1>1, <1>3 DEF TextSoFar
<1>5. ToolsOf(none) = {}
  BY DEF ToolsOf
<1>6. CallsCarried(NewState, none)
  BY <1>1, <1>5 DEF CallsCarried
<1>7. Said(none) = none
  BY SaidNothing
<1> QED BY <1>1, <1>4, <1>6, <1>7 DEF Carried

(* The call starts with nothing sent. *)
LEMMA InitKeeping == Init => Keeping
<1> SUFFICES ASSUME Init PROVE Keeping
  OBVIOUS
<1>1. Carried(asm, sent)
  BY NothingCarried DEF Init
<1>2. asm.pending = <<ResponseStarted>>
  BY DEF Init, NewState
<1>3. \A k \in DOMAIN asm.pending : asm.pending[k].type # "ResponseCompleted"
  BY <1>2 DEF ResponseStarted
<1>4. outcome # "completed"
  BY DEF Init
<1> QED BY <1>1, <1>3, <1>4 DEF Keeping

(* A stream that fails has nothing more to tell. *)
LEMMA InterruptKeeping ==
  ASSUME CallInv, Pulling, Interrupt
  PROVE  Keeping'
<1>1. DOMAIN asm = Fields
  BY DEF CallInv, Assembled, Typed
<1>2. asm'.pending = <<>> /\ asm'.failed = TRUE /\ outcome' = "failed"
  BY <1>1, FieldsAre DEF Interrupt
<1> QED BY <1>2 DEF Keeping

(* An item is handled: what it brings is carried. *)
LEMMA PullKeeping ==
  ASSUME CallInv, Keeping, NEW item \in Items, Pull(item)
  PROVE  Keeping'
<1>1. /\ Pulling /\ sent' = Append(sent, item) /\ ~Rejects(asm, item)
      /\ asm' = Handle(asm, item) /\ outcome' = outcome
  BY DEF Pull, contractVars
<1>2. /\ Ready(asm, {}) /\ ~asm.finished /\ ~asm.failed
      /\ handle = "open" /\ ~Exhausted
  BY <1>1, PullingReady
<1>3. item \in ItemSet /\ sent \in Seq(ItemSet)
  BY ItemsAssumption, SeqMonotone DEF CallInv, TypeOK
<1>4. Carried(asm', sent')
  BY <1>1, <1>2, <1>3, HandleCarries DEF Keeping
<1>5. asm'.pending \in Seq(Previews)
  BY <1>1, <1>2, <1>3, HandleReady DEF Handled, Ready
<1>6. \A k \in DOMAIN asm'.pending : asm'.pending[k].type # "ResponseCompleted"
  BY <1>5, PreviewsAreNoResponses
<1>7. outcome' # "completed"
  BY <1>1, <1>2, OpenHasNoRecord
<1> QED BY <1>4, <1>6, <1>7 DEF Keeping

(* The response is made of what was carried. *)
LEMMA ProviderEndsKeeping ==
  ASSUME CallInv, Keeping, ProviderEnds
  PROVE  Keeping'
<1> DEFINE content == ContentOf(asm)
           response == ResponseCompleted(content, asm.stop)
           usage == IF asm.usage THEN <<Usage>> ELSE <<>>
<1>1. /\ Pulling /\ ~Incomplete(asm) /\ asm' = FinishStream(asm)
      /\ sent' = sent /\ outcome' = outcome
  BY DEF ProviderEnds, contractVars
<1>2. /\ Ready(asm, {}) /\ (asm.final => asm.text = Nil /\ asm.reasoning = Nil)
      /\ ~asm.finished /\ ~asm.failed /\ asm.pending = <<>>
      /\ handle = "open" /\ ~Exhausted
  BY <1>1, PullingReady
<1>3. DOMAIN asm = Fields
  BY <1>2 DEF Ready, Typed
<1>4. /\ asm'.finished = TRUE /\ asm'.tools = asm.tools
      /\ asm'.pending = <<>> \o (usage \o <<response>>)
  BY <1>1, <1>2, <1>3, FieldsAre DEF FinishStream, Emit, ContentOf
<1>5. Carried(asm, sent)
  BY <1>2 DEF Keeping
<1>6. Delivered(content, asm.tools, sent)
  BY <1>1, <1>2, <1>5, FinishDelivers
<1> HIDE DEF content
<1>7. response.content = content
  BY DEF ResponseCompleted
<1> HIDE DEF response
<1>8. \A k \in DOMAIN asm'.pending :
        asm'.pending[k].type = "ResponseCompleted" => asm'.pending[k] = response
  <2>1. Usage.type # "ResponseCompleted"
    BY DEF Usage
  <2> DEFINE events == usage \o <<response>>
  <2>2. ASSUME NEW k \in DOMAIN events PROVE events[k] \in {Usage, response}
    BY <2>2
  <2>3. asm'.pending = events
    BY <1>4
  <2> HIDE DEF events
  <2> QED BY <2>1, <2>2, <2>3
<1>9. outcome' # "completed"
  BY <1>1, <1>2, OpenHasNoRecord
<1> QED BY <1>1, <1>4, <1>6, <1>7, <1>8, <1>9 DEF Keeping

(* What waits is handed out: the response as it is. *)
LEMMA DeliveryKeeping ==
  ASSUME CallInv, Keeping, Deliver \/ DeliverResponse \/ RefuseResponse
  PROVE  Keeping'
<1> DEFINE e == Head(asm.pending)
<1>1. Delivering(e)
  BY DEF Deliver, DeliverResponse, RefuseResponse
<1>2. /\ asm.pending # <<>> /\ asm' = [asm EXCEPT !.pending = Tail(asm.pending)]
      /\ handle = "open" /\ sent' = sent
  BY <1>1 DEF Delivering
<1>3. DOMAIN asm = Fields /\ asm.pending \in Seq(Previews \cup Responses)
  BY DEF CallInv, Assembled, Typed
<1>4. /\ asm'.pending = Tail(asm.pending) /\ asm'.tools = asm.tools
      /\ asm'.finished = asm.finished /\ asm'.failed = asm.failed
      /\ asm'.content = asm.content /\ asm'.text = asm.text /\ asm'.next = asm.next
  BY <1>2, <1>3, FieldsAre
<1>5. ~Exhausted /\ outcome = "open"
  <2> HIDE DEF e
  <2> QED BY <1>1, DeliveringKeeps, OpenHasNoRecord
<1>6. ~asm'.finished /\ ~asm'.failed => Carried(asm', sent')
  <2> SUFFICES ASSUME ~asm.finished, ~asm.failed PROVE Carried(asm', sent')
    BY <1>4
  <2>1. Carried(asm, sent) /\ asm.next \in Nat
    BY DEF Keeping, CallInv, Assembled, Typed
  <2>2. Continues(asm', asm, {})
    BY <1>4, <2>1, SameContinues
  <2> QED BY <1>2, <2>1, <2>2, CarriedStill
<1>7. ASSUME NEW k \in DOMAIN asm'.pending, asm'.pending[k].type = "ResponseCompleted"
      PROVE  Delivered(asm'.pending[k].content, asm'.tools, sent')
  <2>1. k + 1 \in DOMAIN asm.pending /\ asm'.pending[k] = asm.pending[k + 1]
    BY <1>2, <1>3, <1>4
  <2> QED BY <1>2, <1>4, <1>7, <2>1 DEF Keeping
<1>8. outcome' = "completed" => Delivered(event'.content, asm'.tools, sent')
  <2> SUFFICES ASSUME outcome' = "completed"
               PROVE  Delivered(event'.content, asm'.tools, sent')
    OBVIOUS
  <2>1. event' = e /\ e.type = "ResponseCompleted"
    BY <1>5 DEF Deliver, DeliverResponse, RefuseResponse
  <2>2. 1 \in DOMAIN asm.pending /\ asm.pending[1] = e
    BY <1>2, <1>3
  <2> HIDE DEF e
  <2> QED BY <1>2, <1>4, <2>1, <2>2 DEF Keeping
<1> QED BY <1>6, <1>7, <1>8 DEF Keeping

(* Every step keeps what was sent. *)
LEMMA StepKeeping == CallInv /\ Keeping /\ [Next]_vars => Keeping'
<1> SUFFICES ASSUME CallInv, Keeping, [Next]_vars PROVE Keeping'
  OBVIOUS
<1>1. CASE Connect \/ ConnectFails
  BY <1>1 DEF Connect, ConnectFails, Keeping
<1>2. CASE Provide
  <2>1. ASSUME NEW item \in Items, PullBad(item) PROVE Keeping'
    BY <2>1, InterruptKeeping DEF PullBad
  <2>2. CASE ProviderFails \/ ProviderEndsEarly
    BY <2>2, InterruptKeeping DEF ProviderFails, ProviderEndsEarly
  <2> QED BY <1>2, <2>1, <2>2, PullKeeping, ProviderEndsKeeping DEF Provide
<1>3. CASE Deliver \/ DeliverResponse \/ RefuseResponse
  BY <1>3, DeliveryKeeping
<1>4. CASE End \/ Drop
  BY <1>4 DEF End, Drop, contractVars, Keeping
<1>5. CASE UNCHANGED vars
  BY <1>5 DEF vars, Keeping
<1> QED BY <1>1, <1>2, <1>3, <1>4, <1>5 DEF Next, Poll

\* A response that is delivered is whole, whatever was sent and in whatever
\* order: its text is all the text, and every tool of which anything was sent
\* has one call, with the name and arguments of its complete item.
THEOREM NothingEverLost == Spec => []NothingLost
<1>1. Keeping /\ CallInv /\ [Next]_vars => Keeping'
  BY StepKeeping
<1>2. Keeping => NothingLost
  BY DEF Keeping, Delivered, NothingLost, TextSent, ToolsSent, Said, ToolsOf
<1> QED BY <1>1, <1>2, InitKeeping, CallAlways, PTL DEF Spec
=============================================================================

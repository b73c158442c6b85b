------------------------------ MODULE Conversion ------------------------------
(***************************************************************************)
(* Content between Armillae and Rig (crates/armillae-llm-rig/src/convert.rs): *)
(* what a complete response becomes (assistant_content_from_rig), and what  *)
(* a recorded response becomes when it is sent back to the provider it came *)
(* from (assistant_contents_to_rig).  Rig content is text, a call with its  *)
(* metadata, reasoning or an image.                                         *)
(***************************************************************************)
EXTENDS CompletionEvents, SequencesExt

RigText(text, meta) == [type |-> "Text", text |-> text, meta |-> meta]
RigCall(call, meta) == [type |-> "ToolCall", call |-> call, meta |-> meta]
RigReasoning(r) == [type |-> "Reasoning", reasoning |-> r]
RigImage(image) == [type |-> "Image", image |-> image]

\* Reasoning is one text, which may be empty and signed, or has no content: then
\* its text is Nil.  Only an unsigned empty text without an id is dropped
\* (reasoning_is_semantically_empty).
EmptyReasoning(r) == r.id = Nil /\ r.text = <<>> /\ ~r.signed

\* Iterator::filter: the elements of a sequence that are in S.
Only(seq, S) ==
  FlattenSeq([k \in DOMAIN seq |-> IF seq[k] \in S THEN <<seq[k]>> ELSE <<>>])

\* One part of a complete response; metadata follows what it belongs to.
FromRig(part) ==
  CASE part.type = "Text" ->
         <<TextContent(part.text)>> \o
         (IF part.meta THEN <<DataContent("text_metadata", Nil)>> ELSE <<>>)
    [] part.type = "ToolCall" ->
         <<ToolContent(part.call)>> \o
         (IF part.meta = Nil THEN <<>>
          ELSE <<DataContent("tool_call_metadata", part.meta)>>)
    [] part.type = "Reasoning" ->
         IF EmptyReasoning(part.reasoning) THEN <<>>
         ELSE <<DataContent("reasoning", part.reasoning)>>
    [] part.type = "Image" -> <<DataContent("image", part.image)>>

AssistantContentFromRig(choice) ==
  FoldLeft(LAMBDA content, part : content \o FromRig(part), <<>>, choice)

\* All text of a response, in order.
TextOf(content) ==
  FoldLeft(LAMBDA text, part :
             IF part.kind = "Text" THEN text \o part.text ELSE text,
           <<>>, content)

-----------------------------------------------------------------------------
\* Replay of parts of the target's own: the verdict until a part cannot be
\* projected, and the Rig content so far.
NoReplay == [verdict |-> "Ok", rig |-> <<>>]

ReplayKinds == {"reasoning", "tool_call_metadata"}

\* reasoning_is_replayable: anthropic, which keeps signatures, takes any content
\* back, the others unsigned text that is not empty.
Replayable(keeps, r) ==
  /\ r.id = Nil /\ r.text # Nil
  /\ keeps \/ (~r.signed /\ r.text # <<>>)

\* What an object must hold to be the metadata of a call.
MetadataFields == {"call_id", "signature", "additional_params"}
WellFormedMetadata(meta) ==
  /\ DOMAIN meta # {} /\ DOMAIN meta \subseteq MetadataFields
  /\ \A field \in DOMAIN meta \ {"additional_params"} : meta[field] # ""

Pushed(replay, part) == [replay EXCEPT !.rig = Append(@, part)]

Unprojectable(replay) == [replay EXCEPT !.verdict = "ProjectionIncompatible"]

\* Metadata over older metadata: only a call id stays when there is no new one.
Renewed(old, meta) ==
  IF old # Nil /\ "call_id" \in DOMAIN old \ DOMAIN meta
  THEN [field \in DOMAIN meta \cup {"call_id"} |->
          IF field = "call_id" THEN old.call_id ELSE meta[field]]
  ELSE meta

\* Defect: onto the first converted item.
ReplayMetadataFirst(replay, meta) ==
  IF WellFormedMetadata(meta) /\ replay.rig # <<>> /\ Head(replay.rig).type = "ToolCall"
  THEN [replay EXCEPT !.rig[1].meta = meta]
  ELSE Unprojectable(replay)

\* replay_tool_call_metadata: onto the last converted item, if it is a call.
ReplayMetadata(replay, meta) ==
  IF WellFormedMetadata(meta) /\ replay.rig # <<>> /\ Last(replay.rig).type = "ToolCall"
  THEN [replay EXCEPT !.rig[Len(replay.rig)].meta = Renewed(@, meta)]
  ELSE Unprojectable(replay)

\* project_assistant_provider_data; unknown kinds are not forwarded.
ReplayData(keeps, replay, part) ==
  CASE part.data = "reasoning" ->
         IF Replayable(keeps, part.value) THEN Pushed(replay, RigReasoning(part.value))
         ELSE Unprojectable(replay)
    [] part.data = "tool_call_metadata" -> ReplayMetadata(replay, part.value)
    [] OTHER -> replay

ReplayPart(keeps, replay, part) ==
  IF replay.verdict # "Ok" THEN replay
  ELSE CASE part.kind = "Text" -> Pushed(replay, RigText(part.text, FALSE))
         [] part.kind = "ToolCall" -> Pushed(replay, RigCall(part.call, Nil))
         [] part.kind = "ProviderData" -> ReplayData(keeps, replay, part)
         [] part.kind = "ToolResult" -> [replay EXCEPT !.verdict = "InvalidRequest"]

Replay(keeps, content) ==
  FoldLeft(LAMBDA replay, part : ReplayPart(keeps, replay, part), NoReplay, content)
=============================================================================

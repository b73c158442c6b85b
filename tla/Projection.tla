------------------------------ MODULE Projection ------------------------------
(***************************************************************************)
(* A recorded conversation as the messages of one provider: messages_to_rig *)
(* of crates/armillae-llm-rig/src/convert.rs, with the report of what is    *)
(* not forwarded (armillae-llm/src/projection.rs).                          *)
(*                                                                         *)
(* A message is a role and a sequence of parts.  ProviderData names the    *)
(* provider it came from; a result names the call it answers by id, and     *)
(* carries a field of history, answers: the location of that call.          *)
(***************************************************************************)
EXTENDS Conversion, Checks

Message(role, content) == [role |-> role, content |-> content]

ResultPart(call, value, isError, answers) ==
  [kind |-> "ToolResult", call |-> call, value |-> value, isError |-> isError,
   answers |-> answers]

\* provider_data: what is kept of a response is marked with its provider.
OwnedPart(provider, part) ==
  IF part.kind # "ProviderData" THEN part
  ELSE [kind |-> "ProviderData", provider |-> provider, data |-> part.data,
        value |-> part.value]

\* reasoning_is_replayable: signed reasoning goes back to anthropic only.
Keeps(target) == target = "anthropic"

IsData(part) == part.kind = "ProviderData"

\* record_not_forwarded: data of another provider and data of other kinds.
NotForwarded(target, part) ==
  IsData(part) /\ (part.provider # target \/ part.data \notin ReplayKinds)

Forwarded(target, content) ==
  Only(content, {part \in Range(content) : ~NotForwarded(target, part)})

Locations(history) ==
  FlattenSeq([i \in DOMAIN history |->
                [k \in DOMAIN history[i].content |-> <<i, k>>]])

PartAt(history, at) == history[at[1]].content[at[2]]

\* Defect: data of another provider in the conversation goes unreported when
\* its kind is one the target knows.
FactsOfUnknown(target, history) ==
  Only(Locations(history),
       {at \in Range(Locations(history)) :
          /\ NotForwarded(target, PartAt(history, at))
          /\ PartAt(history, at).data \notin ReplayKinds})

\* The facts of the report, as the locations they are about.
Facts(target, history) ==
  Only(Locations(history),
       {at \in Range(Locations(history)) : NotForwarded(target, PartAt(history, at))})

-----------------------------------------------------------------------------
\* tool_result_to_rig.
ResultVerdict(part) == IF part.value = Nil THEN "InvalidRequest" ELSE "Ok"

RigResult(part) ==
  [type |-> "ToolResult", call |-> part.call, name |-> Nil, identity |-> <<part.call>>,
   value |-> part.value, answers |-> part.answers]

\* handle_non_assistant_provider_data, user_content_to_rig and the other roles.
PartVerdict(role, target, part) ==
  CASE IsData(part) ->
         IF NotForwarded(target, part) THEN "Ok" ELSE "ProjectionIncompatible"
    [] part.kind = "Text" -> IF role = "Tool" THEN "InvalidRequest" ELSE "Ok"
    [] part.kind = "ToolResult" ->
         IF role = "System" THEN "InvalidRequest" ELSE ResultVerdict(part)
    [] part.kind = "ToolCall" -> "InvalidRequest"

\* message_to_rig: the error of a message,
MessageVerdict(target, m) ==
  IF m.content = <<>> THEN "InvalidRequest"
  ELSE CASE m.role = "Developer" -> "UnsupportedCapability"
         [] m.role = "Assistant" ->
              Replay(Keeps(target), Forwarded(target, m.content)).verdict
         [] OTHER ->
              FirstError([k \in DOMAIN m.content |->
                            PartVerdict(m.role, target, m.content[k])])

\* and what it becomes: one message, but system text by text; none when nothing
\* of it is forwarded.
RigPart(part) ==
  IF part.kind = "Text" THEN RigText(part.text, FALSE) ELSE RigResult(part)

OneMessage(role, content) ==
  IF content = <<>> THEN <<>> ELSE <<Message(role, content)>>

MessageToRig(target, m) ==
  LET parts == Forwarded(target, m.content)
      rig == [k \in DOMAIN parts |-> RigPart(parts[k])]
  IN  CASE m.role = "System" -> [k \in DOMAIN rig |-> Message("System", <<rig[k]>>)]
        [] m.role = "Assistant" ->
             OneMessage("Assistant", Replay(Keeps(target), parts).rig)
        [] OTHER -> OneMessage("User", rig)

-----------------------------------------------------------------------------
(* The second pass: a result takes the name and the provider's identity of  *)
(* the last call before it that has its id.                                 *)

\* ProviderCallId: the id, and before it the call id of the metadata, if any.
Identity(call) ==
  IF call.meta # Nil /\ "call_id" \in DOMAIN call.meta
  THEN <<call.meta.call_id, call.call.id>> ELSE <<call.call.id>>

CallsOf(m) == Only(m.content, {part \in Range(m.content) : part.type = "ToolCall"})

CallsNamed(messages, id) ==
  LET calls == FlattenSeq([j \in DOMAIN messages |-> CallsOf(messages[j])])
  IN  Only(calls, {part \in Range(calls) : part.call.id = id})

\* Defect: calls are collected first, from the whole conversation.
PairedLate(messages, j, part) ==
  LET calls == CallsNamed(messages, part.call)
  IN  IF part.type # "ToolResult" \/ calls = <<>> THEN part
      ELSE [part EXCEPT !.name = Last(calls).call.name, !.identity = Identity(Last(calls))]

Paired(messages, j, part) ==
  LET calls == CallsNamed(SubSeq(messages, 1, j - 1), part.call)
  IN  IF part.type # "ToolResult" \/ calls = <<>> THEN part
      ELSE [part EXCEPT !.name = Last(calls).call.name, !.identity = Identity(Last(calls))]

PairResults(messages) ==
  [j \in DOMAIN messages |->
     [messages[j] EXCEPT !.content =
        [k \in DOMAIN @ |-> Paired(messages, j, @[k])]]]

\* messages_to_rig.
ProjectionVerdict(target, history) ==
  FirstError(
    [i \in DOMAIN history |-> MessageVerdict(target, history[i])]
    \o <<IF \A i \in DOMAIN history : Forwarded(target, history[i].content) = <<>>
         THEN "InvalidRequest" ELSE "Ok">>)

MessagesToRig(target, history) ==
  PairResults(FlattenSeq([i \in DOMAIN history |-> MessageToRig(target, history[i])]))
=============================================================================

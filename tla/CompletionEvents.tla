-------------------------- MODULE CompletionEvents --------------------------
(***************************************************************************)
(* The events of one streaming response and what an observer of them keeps *)
(* (crates/armillae-llm/src/mock/contract.rs): the blocks of content by    *)
(* index.  Texts, names and argument strings are sequences of atoms, so    *)
(* that fragments concatenate.                                             *)
(***************************************************************************)
EXTENDS Naturals, Sequences

CONSTANTS
  Nil,   \* no value
  Json   \* the JSON value of each string that is well-formed JSON

Kinds == {"Text", "ToolCall", "ProviderData"}

\* serde_json::from_str; Nil is an error.
Parsed(string) == IF string \in DOMAIN Json THEN Json[string] ELSE Nil

\* Option::or.
Or(value, default) == IF value = Nil THEN default ELSE value

ResponseStarted == [type |-> "ResponseStarted"]
ContentStarted(i, kind) == [type |-> "ContentStarted", index |-> i, kind |-> kind]
TextDelta(i, text) == [type |-> "TextDelta", index |-> i, text |-> text]
ToolCallStarted(i, id, name) ==
  [type |-> "ToolCallStarted", index |-> i, id |-> id, name |-> name]
ToolCallArgumentsDelta(i, fragment) ==
  [type |-> "ToolCallArgumentsDelta", index |-> i, fragment |-> fragment]
ToolCallCompleted(i, call) ==
  [type |-> "ToolCallCompleted", index |-> i, call |-> call]
ContentCompleted(i) == [type |-> "ContentCompleted", index |-> i]
Usage == [type |-> "Usage"]
ProviderEvent(kind) == [type |-> "ProviderEvent", kind |-> kind]
ResponseCompleted(content, stop) ==
  [type |-> "ResponseCompleted", content |-> content, stop |-> stop]

\* The parts of a response: AssistantContent.
TextContent(text) == [kind |-> "Text", text |-> text]
ToolContent(call) == [kind |-> "ToolCall", call |-> call]
DataContent(data, value) == [kind |-> "ProviderData", data |-> data, value |-> value]

-----------------------------------------------------------------------------
(* Map update. *)
Put(f, x, y) == [z \in DOMAIN f \cup {x} |-> IF z = x THEN y ELSE f[z]]

NoBlocks == [i \in {} |-> Nil]

\* What is known of a block: body is its text or its argument fragments.
NewBlock(kind) ==
  [kind |-> kind, id |-> Nil, name |-> Nil, body |-> <<>>, call |-> Nil,
   completed |-> FALSE]

Active(blocks, i, kinds) ==
  /\ i \in DOMAIN blocks
  /\ ~blocks[i].completed
  /\ blocks[i].kind \in kinds

(* A call agrees with the block that announced it. *)
Announced(block, call) ==
  /\ block.call = Nil
  /\ block.id = call.id
  /\ block.name \in {Nil, call.name}
  /\ block.body # <<>> => Parsed(block.body) = call.args

(* The event e may follow what blocks records. *)
Accepts(blocks, e) ==
  \/ e.type = "ContentStarted" /\ e.index \notin DOMAIN blocks
  \/ e.type = "TextDelta" /\ Active(blocks, e.index, {"Text"})
  \/ /\ e.type = "ToolCallStarted"
     /\ Active(blocks, e.index, {"ToolCall"})
     /\ blocks[e.index].id = Nil
  \/ /\ e.type = "ToolCallArgumentsDelta"
     /\ Active(blocks, e.index, {"ToolCall"})
     /\ blocks[e.index].id # Nil
  \/ /\ e.type = "ToolCallCompleted"
     /\ Active(blocks, e.index, {"ToolCall"})
     /\ Announced(blocks[e.index], e.call)
  \/ /\ e.type = "ContentCompleted"
     /\ Active(blocks, e.index, Kinds)
     /\ blocks[e.index].kind = "ToolCall" => blocks[e.index].call # Nil
  \/ e.type \in {"Usage", "ProviderEvent"}

(* What is known after e. *)
Observe(blocks, e) ==
  CASE e.type = "ContentStarted" -> Put(blocks, e.index, NewBlock(e.kind))
    [] e.type = "TextDelta" ->
         [blocks EXCEPT ![e.index].body = @ \o e.text]
    [] e.type = "ToolCallStarted" ->
         [blocks EXCEPT ![e.index].id = e.id, ![e.index].name = e.name]
    [] e.type = "ToolCallArgumentsDelta" ->
         [blocks EXCEPT ![e.index].body = @ \o e.fragment]
    [] e.type = "ToolCallCompleted" ->
         [blocks EXCEPT ![e.index].call = e.call]
    [] e.type = "ContentCompleted" ->
         [blocks EXCEPT ![e.index].completed = TRUE]
    [] OTHER -> blocks

(* The final content is what the stream showed, block by block. *)
Agrees(blocks, content) ==
  /\ DOMAIN blocks = 0..Len(content) - 1
  /\ \A i \in DOMAIN blocks :
       LET block == blocks[i]
           part == content[i + 1]
       IN  /\ block.completed
           /\ block.kind = part.kind
           /\ block.kind = "Text" => block.body = part.text
           /\ block.kind = "ToolCall" => block.call = part.call
=============================================================================

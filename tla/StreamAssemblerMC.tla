-------------------------- MODULE StreamAssemblerMC --------------------------
(***************************************************************************)
(* Instances of StreamAssembler for TLC.                                   *)
(***************************************************************************)
EXTENDS StreamAssembler, TLC

\* The argument string "xy" has one reading; so has "x y", the same one.
MCJson == (<<"x", "y">> :> "xy") @@ (<<"x", " ", "y">> :> "xy")

TextItem(text) == [type |-> "Text", text |-> text, meta |-> FALSE]
NotedText(text) == [type |-> "Text", text |-> text, meta |-> TRUE]
Thought(id, text) == [type |-> "ReasoningDelta", id |-> id, text |-> text]
Thinking(id, text, signed) ==
  [type |-> "Reasoning",
   reasoning |-> [id |-> id, text |-> text, signed |-> signed]]
NameDelta(t, atom) ==
  [type |-> "ToolCallDelta", tool |-> t, part |-> "name", atom |-> atom]
ArgsDelta(t, atom) ==
  [type |-> "ToolCallDelta", tool |-> t, part |-> "args", atom |-> atom]
Call(t, wire, meta) ==
  [type |-> "ToolCall", tool |-> t, name |-> <<"n">>, args |-> "xy",
   wire |-> wire, meta |-> meta]
Final(usage, stop) == [type |-> "Final", usage |-> usage, stop |-> stop]
Unknown == [type |-> "Unknown"]

M1 == [signature |-> "s1"]
M2 == [signature |-> "s2"]
MCMetas == {M1, M2}
MCAtoms == {"a", "b", "c", "n", "x", " ", "y"}
NoTools == {}
NoIds == {}
TwoTools == {"t1", "t2"}
\* An id of the provider's own, and one that looks generated for t1.
MCWireIds == {<<"w", 1>>, <<"t1", 1>>}

OneTool == {"t1"}
\* Text, reasoning with and without an id, empty and signed, and a call with
\* metadata.
TextItems ==
  {TextItem(<<"a">>), Thought(Nil, <<"b">>), Thought("r", <<"c">>),
   Thought(Nil, <<>>), Thinking(Nil, <<>>, FALSE), Thinking(Nil, <<"b">>, TRUE),
   Call("t1", <<"w", 1>>, M1), Unknown, Final(FALSE, TRUE)}

NotedItems == {NotedText(<<"a">>), Final(FALSE, TRUE)}

\* Calls of two tools, with and without deltas and metadata, one that the
\* provider may give the id the other would be given; a text that is an object
\* of the schema and one that is not; an end the gate accepts and one it refuses.
ToolItems ==
  {NameDelta("t1", "n"), NameDelta("t2", "n"), ArgsDelta("t1", "x"), ArgsDelta("t1", " "),
   ArgsDelta("t1", "y"), Call("t1", Nil, Nil), Call("t1", <<"w", 1>>, M1),
   Call("t2", Nil, Nil), Call("t2", <<"t1", 1>>, M2), TextItem(<<"a">>),
   TextItem(<<"x", "y">>), Final(TRUE, FALSE), Final(FALSE, TRUE)}

\* The same two calls at a time, and nothing else.
ParallelItems ==
  {NameDelta("t1", "n"), NameDelta("t2", "n"), Call("t1", <<"w", 1>>, M1),
   Call("t2", <<"t1", 1>>, M2), Final(FALSE, TRUE)}

AllItems == TextItems \cup ToolItems

\* A stream is about text and reasoning, without a schema, or about tools.
OneSubject ==
  \/ Range(sent) \subseteq ToolItems
  \/ gate = "none" /\ Range(sent) \subseteq TextItems
=============================================================================

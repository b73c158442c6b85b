------------------------ MODULE StreamResponse_proofs ------------------------
(***************************************************************************)
(* Theorems about the response StreamAssembler makes: it is the one the    *)
(* provider would have given in one piece, and the metadata of its calls   *)
(* is restored.                                                            *)
(***************************************************************************)
EXTENDS StreamAssembler_proofs

-----------------------------------------------------------------------------
(* The response in one piece, and the content it is rendered as, part by   *)
(* part.                                                                   *)

\* The parts of a response in one piece, and those between.
RigParts ==
  [type : {"Text"}, text : Texts, meta : BOOLEAN]
  \cup [type : {"ToolCall"},
        call : [id : WireIds \cup {Nil}, name : Texts, args : JsonValues],
        meta : Metas \cup {Nil}]
  \cup [type : {"Reasoning"}, reasoning : Reasonings]

OpenParts ==
  RigParts \cup [type : {"Gap"}]
  \cup [type : {"Thinking"}, id : ReasoningIds \cup {Nil}, text : Texts]

\* What a response is rendered as: the metadata of a text too.
Rendering ==
  [kind : {"Text"}, text : Texts]
  \cup [kind : {"ToolCall"},
        call : [id : WireIds \cup {Nil}, name : Texts, args : JsonValues]]
  \cup [kind : {"ProviderData"}, data : {"reasoning"}, value : Reasonings]
  \cup [kind : {"ProviderData"}, data : {"tool_call_metadata"}, value : Metas]
  \cup [kind : {"ProviderData"}, data : {"text_metadata"}, value : {Nil}]

\* One part more of the response in one piece.
WholeAfter(choice, part) ==
  CASE part.type = "Thinking" ->
         Append(choice, RigReasoning(Reasoning(part.id, part.text)))
    [] part.type = "Gap" -> choice
    [] OTHER -> Append(choice, part)

WholeOf(parts) ==
  FoldLeft(LAMBDA choice, part :
             CASE part.type = "Thinking" ->
                    Append(choice, RigReasoning(Reasoning(part.id, part.text)))
               [] part.type = "Gap" -> choice
               [] OTHER -> Append(choice, part),
           <<>>, parts)

\* One part more of what it is rendered as.
ContentAfter(content, part) == content \o FromRig(part)

(* The types of the parts. *)
LEMMA OpenPartTypes ==
  ASSUME NEW part \in OpenParts
  PROVE  /\ part.type \in {"Text", "ToolCall", "Reasoning", "Gap", "Thinking"}
         /\ part.type = "Text" => part.text \in Texts /\ part.meta \in BOOLEAN
         /\ part.type = "Thinking" =>
              part.id \in ReasoningIds \cup {Nil} /\ part.text \in Texts
         /\ part.type \notin {"Gap", "Thinking"} => part \in RigParts
BY DEF OpenParts, RigParts

(* The last of some parts, and those before it. *)
LEMMA LastPart ==
  ASSUME NEW S, NEW P \in Seq(S), P # <<>>
  PROVE  /\ Last(P) \in S /\ Front(P) \in Seq(S)
         /\ P = Append(Front(P), Last(P))
<1>1. Len(P) \in Nat \ {0} /\ Len(P) \in DOMAIN P
  OBVIOUS
<1> QED BY <1>1 DEF Last, Front

(* One item more keeps the parts well typed. *)
LEMMA ExtendTyped ==
  ASSUME NEW P \in Seq(OpenParts), NEW item \in ItemSet
  PROVE  Extend(P, item) \in Seq(OpenParts)
<1> DEFINE last == IF P = <<>> THEN Gap ELSE Last(P)
<1>1. last \in OpenParts
  BY LastPart DEF OpenParts, Gap
<1>2. P # <<>> => Front(P) \in Seq(OpenParts)
  BY LastPart
<1>3. ASSUME NEW part \in OpenParts
      PROVE  /\ Append(P, part) \in Seq(OpenParts)
             /\ P # <<>> => Append(Front(P), part) \in Seq(OpenParts)
  BY <1>2
<1>4. Gap \in OpenParts /\ Gap.type = "Gap"
  BY DEF OpenParts, Gap
<1>5. CASE item.type = "Text"
  <2>1. item.text \in Texts /\ item.meta \in BOOLEAN
    BY <1>5, TextFields
  <2>2. last.type = "Text" => last.text \in Texts /\ last.meta \in BOOLEAN /\ P # <<>>
    BY <1>1, <1>4, OpenPartTypes
  <2>3. \A text \in Texts, meta \in BOOLEAN : RigText(text, meta) \in OpenParts
    BY DEF OpenParts, RigParts, RigText
  <2>4. last.type = "Text" => RigText(last.text \o item.text, last.meta \/ item.meta) \in OpenParts
    <3>1. last.type = "Text" => last.text \o item.text \in Texts
      BY <2>1, <2>2 DEF Texts
    <3>2. last.type = "Text" => (last.meta \/ item.meta) \in BOOLEAN
      OBVIOUS
    <3> QED BY <2>3, <3>1, <3>2
  <2>5. RigText(item.text, item.meta) \in OpenParts
    BY <2>1, <2>3
  <2>6. Extend(P, item) =
          IF last.type = "Text"
          THEN Append(Front(P), RigText(last.text \o item.text, last.meta \/ item.meta))
          ELSE Append(P, RigText(item.text, item.meta))
    BY <1>5 DEF Extend
  <2> HIDE DEF last
  <2> QED BY <1>3, <2>2, <2>4, <2>5, <2>6
<1>6. CASE item.type = "ToolCallDelta"
  BY <1>3, <1>4, <1>6 DEF Extend
<1>7. CASE item.type = "ToolCall"
  <2>1. RigCall([id |-> item.wire, name |-> item.name, args |-> item.args], item.meta)
          \in OpenParts
    BY <1>7, ToolCallFields DEF OpenParts, RigParts, RigCall
  <2> QED BY <1>3, <1>7, <2>1 DEF Extend
<1>8. CASE item.type = "ReasoningDelta"
  <2>1. item.id \in ReasoningIds \cup {Nil} /\ item.text \in Texts
    BY <1>8, ReasoningFields
  <2>2. last.type = "Thinking" => last.text \in Texts /\ P # <<>>
    BY <1>1, <1>4, OpenPartTypes
  <2>3. \A text \in Texts : ThinkingPart(item.id, text) \in OpenParts
    BY <2>1 DEF OpenParts, ThinkingPart
  <2>4. last.type = "Thinking" => last.text \o item.text \in Texts
    BY <2>1, <2>2 DEF Texts
  <2>5. Extend(P, item) =
          IF item.text = <<>> THEN IF last.type = "Text" THEN Append(P, Gap) ELSE P
          ELSE IF last.type = "Thinking" /\ last.id = item.id
          THEN Append(Front(P), ThinkingPart(item.id, last.text \o item.text))
          ELSE Append(P, ThinkingPart(item.id, item.text))
    BY <1>8 DEF Extend
  <2> HIDE DEF last
  <2> QED BY <1>3, <1>4, <2>1, <2>2, <2>3, <2>4, <2>5
<1>9. CASE item.type = "Reasoning"
  <2>1. RigReasoning(item.reasoning) \in OpenParts
    BY <1>9, ReasoningFields DEF OpenParts, RigParts, RigReasoning
  <2>2. last.type = "Thinking" => P # <<>>
    BY <1>4
  <2>3. Extend(P, item) =
          IF last.type = "Thinking" THEN Append(Front(P), RigReasoning(item.reasoning))
          ELSE IF EmptyReasoning(item.reasoning)
          THEN IF last.type = "Text" THEN Append(P, Gap) ELSE P
          ELSE Append(P, RigReasoning(item.reasoning))
    BY <1>9 DEF Extend
  <2> HIDE DEF last
  <2> QED BY <1>3, <1>4, <2>1, <2>2, <2>3
<1>10. CASE item.type \notin {"Text", "ToolCallDelta", "ToolCall", "ReasoningDelta", "Reasoning"}
  BY <1>10 DEF Extend
<1> QED BY <1>5, <1>6, <1>7, <1>8, <1>9, <1>10

(* The parts, item by item. *)
LEMMA PartsIs ==
  ASSUME NEW c \in Seq(ItemSet)
  PROVE  \E acc : /\ acc[0] = <<>>
                  /\ \A k \in 1..Len(c) : acc[k] = Extend(acc[k - 1], c[k])
                  /\ Parts(c) = acc[Len(c)]
<1> DEFINE n == Len(c)
           Body(f, S) == IF S = {} THEN <<>> ELSE Extend(f[S \ {Max(S)}], c[Max(S)])
           fold == CHOOSE f : f = [S \in SUBSET (DOMAIN c) |-> Body(f, S)]
           step == [p \in Seq(OpenParts) \X (1..n) |-> Extend(p[1], c[p[2]])]
           acc == [k \in 0..n |-> fold[1..k]]
<1>1. Parts(c) = fold[DOMAIN c]
  BY DEF Parts, FoldLeft, MapThenFoldSet
<1>2. n \in Nat /\ DOMAIN c = 1..n /\ <<>> \in Seq(OpenParts)
  OBVIOUS
<1>3. step \in [Seq(OpenParts) \X (1..n) -> Seq(OpenParts)]
  <2> SUFFICES ASSUME NEW p \in Seq(OpenParts), NEW i \in 1..n PROVE Extend(p, c[i]) \in Seq(OpenParts)
    OBVIOUS
  <2>1. c[i] \in ItemSet
    BY <1>2
  <2> QED BY <2>1, ExtendTyped
<1>4. PICK g : IsFold(g, n, Seq(OpenParts), <<>>, step, TakeMax(n))
  <2> DEFINE empty == <<>>
  <2>1. n \in Nat /\ empty \in Seq(OpenParts) /\ TakesGreatest(TakeMax(n), n)
    BY <1>2, TakeMaxTakesGreatest
  <2> HIDE DEF n, step, empty
  <2>2. \E g : IsFold(g, n, Seq(OpenParts), empty, step, TakeMax(n))
    BY <1>3, <2>1, FoldSolution
  <2> QED BY <2>2 DEF empty
<1>5. ASSUME NEW S \in SUBSET (1..n) PROVE g[S] = Body(g, S)
  <2>1. CASE S = {}
    BY <1>4, <2>1 DEF IsFold
  <2>2. CASE S # {}
    <3> DEFINE m == Max(S)
    <3>1. m \in 1..n /\ TakeMax(n)[S] = m
      BY <1>2, <2>2, MaxFacts DEF TakeMax
    <3> HIDE DEF m, step
    <3>2. g[S \ {m}] \in Seq(OpenParts) /\ g[S] = step[<<g[S \ {m}], m>>]
      BY <1>4, <2>2, <3>1 DEF IsFold
    <3>3. g[S] = Extend(g[S \ {m}], c[m])
      BY <3>1, <3>2 DEF step
    <3> QED BY <2>2, <3>3 DEF m
  <2> QED BY <2>1, <2>2
<1> HIDE DEF step
<1>6. fold = [S \in SUBSET (DOMAIN c) |-> Body(fold, S)]
  <2> HIDE DEF Body
  <2>1. g \in [SUBSET (1..n) -> Seq(OpenParts)]
    BY <1>4 DEF IsFold
  <2>2. g = [S \in SUBSET (DOMAIN c) |-> Body(g, S)]
    BY <1>2, <1>5, <2>1
  <2> QED BY <2>2
<1> HIDE DEF fold
<1>7. fold[1..0] = <<>>
  <2>1. 1..0 = {} /\ {} \in SUBSET (DOMAIN c)
    OBVIOUS
  <2> QED BY <1>6, <2>1
<1>8. ASSUME NEW k \in 1..n PROVE fold[1..k] = Extend(fold[1..k - 1], c[k])
  <2>1. 1..k \in SUBSET (DOMAIN c) /\ 1..k # {} /\ Max(1..k) = k /\ (1..k) \ {k} = 1..k - 1
    BY <1>2, IntervalFacts
  <2> QED BY <1>6, <2>1
<1>9. /\ acc[0] = <<>>
      /\ \A k \in 1..n : acc[k] = Extend(acc[k - 1], c[k])
      /\ Parts(c) = acc[n]
  BY <1>1, <1>2, <1>7, <1>8
<1> HIDE DEF acc
<1> QED BY <1>9

(* Of nothing there are no parts. *)
LEMMA PartsNothing == Parts(<<>>) = <<>>
<1>1. <<>> \in Seq(ItemSet) /\ Len(<<>>) = 0
  OBVIOUS
<1> QED BY <1>1, PartsIs

(* One item more extends the parts. *)
LEMMA PartsMore ==
  ASSUME NEW c \in Seq(ItemSet), NEW x \in ItemSet
  PROVE  Parts(Append(c, x)) = Extend(Parts(c), x)
<1> DEFINE n == Len(c)
           d == Append(c, x)
<1>1. PICK acc : /\ acc[0] = <<>>
                 /\ \A k \in 1..n : acc[k] = Extend(acc[k - 1], c[k])
                 /\ Parts(c) = acc[n]
  BY PartsIs
<1>2. /\ n \in Nat /\ n \in 0..n /\ d \in Seq(ItemSet) /\ Len(d) = n + 1
      /\ d[n + 1] = x /\ \A k \in 1..n : d[k] = c[k]
  OBVIOUS
<1> HIDE DEF d
<1>3. PICK more : /\ more[0] = <<>>
                  /\ \A k \in 1..n + 1 : more[k] = Extend(more[k - 1], d[k])
                  /\ Parts(d) = more[n + 1]
  BY <1>2, PartsIs
<1> DEFINE Agreed == {k \in 0..n : more[k] = acc[k]}
<1>4. 0 \in Agreed
  BY <1>1, <1>2, <1>3
<1>5. ASSUME NEW k \in 1..n, k - 1 \in Agreed PROVE k \in Agreed
  <2>1. more[k] = Extend(more[k - 1], d[k]) /\ acc[k] = Extend(acc[k - 1], c[k])
    BY <1>1, <1>2, <1>3
  <2> QED BY <1>2, <1>5, <2>1
<1>6. \A k \in 0..n : k \in Agreed
  <2> HIDE DEF Agreed, n
  <2> QED BY <1>2, <1>4, <1>5, CountUp
<1>7. more[n + 1] = Extend(more[n], x)
  BY <1>2, <1>3
<1> QED BY <1>1, <1>2, <1>3, <1>6, <1>7 DEF d

(* One part more keeps the response well typed. *)
LEMMA WholeAfterTyped ==
  ASSUME NEW choice \in Seq(RigParts), NEW part \in OpenParts
  PROVE  WholeAfter(choice, part) \in Seq(RigParts)
<1>1. part.type = "Thinking" =>
        RigReasoning(Reasoning(part.id, part.text)) \in RigParts
  BY OpenPartTypes DEF RigParts, RigReasoning, Reasoning, Reasonings
<1> QED BY <1>1, OpenPartTypes DEF WholeAfter

(* What a part is rendered as. *)
LEMMA FromRigTyped ==
  ASSUME NEW part \in RigParts
  PROVE  FromRig(part) \in Seq(Rendering)
<1>1. CASE part.type = "Text"
  <2>1. TextContent(part.text) \in Rendering /\ DataContent("text_metadata", Nil) \in Rendering
    BY <1>1 DEF RigParts, Rendering, TextContent, DataContent
  <2> QED BY <1>1, <2>1 DEF FromRig
<1>2. CASE part.type = "ToolCall"
  <2>1. /\ ToolContent(part.call) \in Rendering
        /\ part.meta # Nil => DataContent("tool_call_metadata", part.meta) \in Rendering
    BY <1>2 DEF RigParts, Rendering, ToolContent, DataContent
  <2> QED BY <1>2, <2>1 DEF FromRig
<1>3. CASE part.type = "Reasoning"
  <2>1. DataContent("reasoning", part.reasoning) \in Rendering
    BY <1>3 DEF RigParts, Rendering, DataContent
  <2> QED BY <1>3, <2>1 DEF FromRig
<1> QED BY <1>1, <1>2, <1>3 DEF RigParts

(* One part more keeps what is rendered well typed. *)
LEMMA ContentAfterTyped ==
  ASSUME NEW content \in Seq(Rendering), NEW part \in RigParts
  PROVE  ContentAfter(content, part) \in Seq(Rendering)
BY FromRigTyped DEF ContentAfter

(* The response in one piece, part by part. *)
LEMMA WholeIs ==
  ASSUME NEW c \in Seq(OpenParts)
  PROVE  \E acc : /\ acc[0] = <<>>
                  /\ \A k \in 1..Len(c) : acc[k] = WholeAfter(acc[k - 1], c[k])
                  /\ WholeOf(c) = acc[Len(c)]
<1> DEFINE n == Len(c)
           Body(f, S) == IF S = {} THEN <<>> ELSE WholeAfter(f[S \ {Max(S)}], c[Max(S)])
           fold == CHOOSE f : f = [S \in SUBSET (DOMAIN c) |-> Body(f, S)]
           step == [p \in Seq(RigParts) \X (1..n) |-> WholeAfter(p[1], c[p[2]])]
           acc == [k \in 0..n |-> fold[1..k]]
<1>1. WholeOf(c) = fold[DOMAIN c]
  BY DEF WholeOf, FoldLeft, MapThenFoldSet, WholeAfter
<1>2. n \in Nat /\ DOMAIN c = 1..n /\ <<>> \in Seq(RigParts)
  OBVIOUS
<1>3. step \in [Seq(RigParts) \X (1..n) -> Seq(RigParts)]
  <2> SUFFICES ASSUME NEW p \in Seq(RigParts), NEW i \in 1..n PROVE WholeAfter(p, c[i]) \in Seq(RigParts)
    OBVIOUS
  <2>1. c[i] \in OpenParts
    BY <1>2
  <2> QED BY <2>1, WholeAfterTyped
<1>4. PICK g : IsFold(g, n, Seq(RigParts), <<>>, step, TakeMax(n))
  <2> DEFINE empty == <<>>
  <2>1. n \in Nat /\ empty \in Seq(RigParts) /\ TakesGreatest(TakeMax(n), n)
    BY <1>2, TakeMaxTakesGreatest
  <2> HIDE DEF n, step, empty
  <2>2. \E g : IsFold(g, n, Seq(RigParts), empty, step, TakeMax(n))
    BY <1>3, <2>1, FoldSolution
  <2> QED BY <2>2 DEF empty
<1>5. ASSUME NEW S \in SUBSET (1..n) PROVE g[S] = Body(g, S)
  <2>1. CASE S = {}
    BY <1>4, <2>1 DEF IsFold
  <2>2. CASE S # {}
    <3> DEFINE m == Max(S)
    <3>1. m \in 1..n /\ TakeMax(n)[S] = m
      BY <1>2, <2>2, MaxFacts DEF TakeMax
    <3> HIDE DEF m, step
    <3>2. g[S \ {m}] \in Seq(RigParts) /\ g[S] = step[<<g[S \ {m}], m>>]
      BY <1>4, <2>2, <3>1 DEF IsFold
    <3>3. g[S] = WholeAfter(g[S \ {m}], c[m])
      BY <3>1, <3>2 DEF step
    <3> QED BY <2>2, <3>3 DEF m
  <2> QED BY <2>1, <2>2
<1> HIDE DEF step
<1>6. fold = [S \in SUBSET (DOMAIN c) |-> Body(fold, S)]
  <2> HIDE DEF Body
  <2>1. g \in [SUBSET (1..n) -> Seq(RigParts)]
    BY <1>4 DEF IsFold
  <2>2. g = [S \in SUBSET (DOMAIN c) |-> Body(g, S)]
    BY <1>2, <1>5, <2>1
  <2> QED BY <2>2
<1> HIDE DEF fold
<1>7. fold[1..0] = <<>>
  <2>1. 1..0 = {} /\ {} \in SUBSET (DOMAIN c)
    OBVIOUS
  <2> QED BY <1>6, <2>1
<1>8. ASSUME NEW k \in 1..n PROVE fold[1..k] = WholeAfter(fold[1..k - 1], c[k])
  <2>1. 1..k \in SUBSET (DOMAIN c) /\ 1..k # {} /\ Max(1..k) = k /\ (1..k) \ {k} = 1..k - 1
    BY <1>2, IntervalFacts
  <2> QED BY <1>6, <2>1
<1>9. /\ acc[0] = <<>>
      /\ \A k \in 1..n : acc[k] = WholeAfter(acc[k - 1], c[k])
      /\ WholeOf(c) = acc[n]
  BY <1>1, <1>2, <1>7, <1>8
<1> HIDE DEF acc
<1> QED BY <1>9

(* Of no parts there is no response. *)
LEMMA WholeNothing == WholeOf(<<>>) = <<>>
<1>1. <<>> \in Seq(OpenParts) /\ Len(<<>>) = 0
  OBVIOUS
<1> QED BY <1>1, WholeIs

(* One part more of the response. *)
LEMMA WholeMore ==
  ASSUME NEW c \in Seq(OpenParts), NEW x \in OpenParts
  PROVE  WholeOf(Append(c, x)) = WholeAfter(WholeOf(c), x)
<1> DEFINE n == Len(c)
           d == Append(c, x)
<1>1. PICK acc : /\ acc[0] = <<>>
                 /\ \A k \in 1..n : acc[k] = WholeAfter(acc[k - 1], c[k])
                 /\ WholeOf(c) = acc[n]
  BY WholeIs
<1>2. /\ n \in Nat /\ n \in 0..n /\ d \in Seq(OpenParts) /\ Len(d) = n + 1
      /\ d[n + 1] = x /\ \A k \in 1..n : d[k] = c[k]
  OBVIOUS
<1> HIDE DEF d
<1>3. PICK more : /\ more[0] = <<>>
                  /\ \A k \in 1..n + 1 : more[k] = WholeAfter(more[k - 1], d[k])
                  /\ WholeOf(d) = more[n + 1]
  BY <1>2, WholeIs
<1> DEFINE Agreed == {k \in 0..n : more[k] = acc[k]}
<1>4. 0 \in Agreed
  BY <1>1, <1>2, <1>3
<1>5. ASSUME NEW k \in 1..n, k - 1 \in Agreed PROVE k \in Agreed
  <2>1. more[k] = WholeAfter(more[k - 1], d[k]) /\ acc[k] = WholeAfter(acc[k - 1], c[k])
    BY <1>1, <1>2, <1>3
  <2> QED BY <1>2, <1>5, <2>1
<1>6. \A k \in 0..n : k \in Agreed
  <2> HIDE DEF Agreed, n
  <2> QED BY <1>2, <1>4, <1>5, CountUp
<1>7. more[n + 1] = WholeAfter(more[n], x)
  BY <1>2, <1>3
<1> QED BY <1>1, <1>2, <1>3, <1>6, <1>7 DEF d

(* What a response is rendered as, part by part. *)
LEMMA ContentIs ==
  ASSUME NEW c \in Seq(RigParts)
  PROVE  \E acc : /\ acc[0] = <<>>
                  /\ \A k \in 1..Len(c) : acc[k] = ContentAfter(acc[k - 1], c[k])
                  /\ AssistantContentFromRig(c) = acc[Len(c)]
<1> DEFINE n == Len(c)
           Body(f, S) == IF S = {} THEN <<>> ELSE ContentAfter(f[S \ {Max(S)}], c[Max(S)])
           fold == CHOOSE f : f = [S \in SUBSET (DOMAIN c) |-> Body(f, S)]
           step == [p \in Seq(Rendering) \X (1..n) |-> ContentAfter(p[1], c[p[2]])]
           acc == [k \in 0..n |-> fold[1..k]]
<1>1. AssistantContentFromRig(c) = fold[DOMAIN c]
  BY DEF AssistantContentFromRig, FoldLeft, MapThenFoldSet, ContentAfter
<1>2. n \in Nat /\ DOMAIN c = 1..n /\ <<>> \in Seq(Rendering)
  OBVIOUS
<1>3. step \in [Seq(Rendering) \X (1..n) -> Seq(Rendering)]
  <2> SUFFICES ASSUME NEW p \in Seq(Rendering), NEW i \in 1..n PROVE ContentAfter(p, c[i]) \in Seq(Rendering)
    OBVIOUS
  <2>1. c[i] \in RigParts
    BY <1>2
  <2> QED BY <2>1, ContentAfterTyped
<1>4. PICK g : IsFold(g, n, Seq(Rendering), <<>>, step, TakeMax(n))
  <2> DEFINE empty == <<>>
  <2>1. n \in Nat /\ empty \in Seq(Rendering) /\ TakesGreatest(TakeMax(n), n)
    BY <1>2, TakeMaxTakesGreatest
  <2> HIDE DEF n, step, empty
  <2>2. \E g : IsFold(g, n, Seq(Rendering), empty, step, TakeMax(n))
    BY <1>3, <2>1, FoldSolution
  <2> QED BY <2>2 DEF empty
<1>5. ASSUME NEW S \in SUBSET (1..n) PROVE g[S] = Body(g, S)
  <2>1. CASE S = {}
    BY <1>4, <2>1 DEF IsFold
  <2>2. CASE S # {}
    <3> DEFINE m == Max(S)
    <3>1. m \in 1..n /\ TakeMax(n)[S] = m
      BY <1>2, <2>2, MaxFacts DEF TakeMax
    <3> HIDE DEF m, step
    <3>2. g[S \ {m}] \in Seq(Rendering) /\ g[S] = step[<<g[S \ {m}], m>>]
      BY <1>4, <2>2, <3>1 DEF IsFold
    <3>3. g[S] = ContentAfter(g[S \ {m}], c[m])
      BY <3>1, <3>2 DEF step
    <3> QED BY <2>2, <3>3 DEF m
  <2> QED BY <2>1, <2>2
<1> HIDE DEF step
<1>6. fold = [S \in SUBSET (DOMAIN c) |-> Body(fold, S)]
  <2> HIDE DEF Body
  <2>1. g \in [SUBSET (1..n) -> Seq(Rendering)]
    BY <1>4 DEF IsFold
  <2>2. g = [S \in SUBSET (DOMAIN c) |-> Body(g, S)]
    BY <1>2, <1>5, <2>1
  <2> QED BY <2>2
<1> HIDE DEF fold
<1>7. fold[1..0] = <<>>
  <2>1. 1..0 = {} /\ {} \in SUBSET (DOMAIN c)
    OBVIOUS
  <2> QED BY <1>6, <2>1
<1>8. ASSUME NEW k \in 1..n PROVE fold[1..k] = ContentAfter(fold[1..k - 1], c[k])
  <2>1. 1..k \in SUBSET (DOMAIN c) /\ 1..k # {} /\ Max(1..k) = k /\ (1..k) \ {k} = 1..k - 1
    BY <1>2, IntervalFacts
  <2> QED BY <1>6, <2>1
<1>9. /\ acc[0] = <<>>
      /\ \A k \in 1..n : acc[k] = ContentAfter(acc[k - 1], c[k])
      /\ AssistantContentFromRig(c) = acc[n]
  BY <1>1, <1>2, <1>7, <1>8
<1> HIDE DEF acc
<1> QED BY <1>9

(* No response is rendered as nothing. *)
LEMMA ContentNothing == AssistantContentFromRig(<<>>) = <<>>
<1>1. <<>> \in Seq(RigParts) /\ Len(<<>>) = 0
  OBVIOUS
<1> QED BY <1>1, ContentIs

(* One part more is rendered after the others. *)
LEMMA ContentMore ==
  ASSUME NEW c \in Seq(RigParts), NEW x \in RigParts
  PROVE  AssistantContentFromRig(Append(c, x)) = ContentAfter(AssistantContentFromRig(c), x)
<1> DEFINE n == Len(c)
           d == Append(c, x)
<1>1. PICK acc : /\ acc[0] = <<>>
                 /\ \A k \in 1..n : acc[k] = ContentAfter(acc[k - 1], c[k])
                 /\ AssistantContentFromRig(c) = acc[n]
  BY ContentIs
<1>2. /\ n \in Nat /\ n \in 0..n /\ d \in Seq(RigParts) /\ Len(d) = n + 1
      /\ d[n + 1] = x /\ \A k \in 1..n : d[k] = c[k]
  OBVIOUS
<1> HIDE DEF d
<1>3. PICK more : /\ more[0] = <<>>
                  /\ \A k \in 1..n + 1 : more[k] = ContentAfter(more[k - 1], d[k])
                  /\ AssistantContentFromRig(d) = more[n + 1]
  BY <1>2, ContentIs
<1> DEFINE Agreed == {k \in 0..n : more[k] = acc[k]}
<1>4. 0 \in Agreed
  BY <1>1, <1>2, <1>3
<1>5. ASSUME NEW k \in 1..n, k - 1 \in Agreed PROVE k \in Agreed
  <2>1. more[k] = ContentAfter(more[k - 1], d[k]) /\ acc[k] = ContentAfter(acc[k - 1], c[k])
    BY <1>1, <1>2, <1>3
  <2> QED BY <1>2, <1>5, <2>1
<1>6. \A k \in 0..n : k \in Agreed
  <2> HIDE DEF Agreed, n
  <2> QED BY <1>2, <1>4, <1>5, CountUp
<1>7. more[n + 1] = ContentAfter(more[n], x)
  BY <1>2, <1>3
<1> QED BY <1>1, <1>2, <1>3, <1>6, <1>7 DEF d

(* The parts are well typed. *)
LEMMA PartsTyped ==
  ASSUME NEW c \in Seq(ItemSet)
  PROVE  Parts(c) \in Seq(OpenParts)
<1> DEFINE n == Len(c)
           T == Seq(OpenParts)
<1>1. PICK acc : /\ acc[0] = <<>>
                 /\ \A k \in 1..n : acc[k] = Extend(acc[k - 1], c[k])
                 /\ Parts(c) = acc[n]
  BY PartsIs
<1>2. /\ n \in Nat /\ n \in 0..n /\ 0 \in 0..n /\ <<>> \in T
      /\ \A k \in 1..n : c[k] \in ItemSet
  OBVIOUS
<1>3. \A p \in T, x \in ItemSet : Extend(p, x) \in T
  BY ExtendTyped
<1> HIDE DEF n, T
<1> DEFINE Typical == {k \in 0..n : acc[k] \in T}
<1>4. 0 \in Typical
  BY <1>1, <1>2
<1>5. ASSUME NEW k \in 1..n, k - 1 \in Typical PROVE k \in Typical
  BY <1>1, <1>2, <1>3, <1>5
<1>6. \A k \in 0..n : k \in Typical
  <2> HIDE DEF Typical
  <2> QED BY <1>2, <1>4, <1>5, CountUp
<1> QED BY <1>1, <1>2, <1>6 DEF T, n

(* The response in one piece is well typed. *)
LEMMA WholeTyped ==
  ASSUME NEW c \in Seq(OpenParts)
  PROVE  WholeOf(c) \in Seq(RigParts)
<1> DEFINE n == Len(c)
           T == Seq(RigParts)
<1>1. PICK acc : /\ acc[0] = <<>>
                 /\ \A k \in 1..n : acc[k] = WholeAfter(acc[k - 1], c[k])
                 /\ WholeOf(c) = acc[n]
  BY WholeIs
<1>2. /\ n \in Nat /\ n \in 0..n /\ 0 \in 0..n /\ <<>> \in T
      /\ \A k \in 1..n : c[k] \in OpenParts
  OBVIOUS
<1>3. \A p \in T, x \in OpenParts : WholeAfter(p, x) \in T
  BY WholeAfterTyped
<1> HIDE DEF n, T
<1> DEFINE Typical == {k \in 0..n : acc[k] \in T}
<1>4. 0 \in Typical
  BY <1>1, <1>2
<1>5. ASSUME NEW k \in 1..n, k - 1 \in Typical PROVE k \in Typical
  BY <1>1, <1>2, <1>3, <1>5
<1>6. \A k \in 0..n : k \in Typical
  <2> HIDE DEF Typical
  <2> QED BY <1>2, <1>4, <1>5, CountUp
<1> QED BY <1>1, <1>2, <1>6 DEF T, n

(* What is rendered is well typed. *)
LEMMA ContentTyped ==
  ASSUME NEW c \in Seq(RigParts)
  PROVE  AssistantContentFromRig(c) \in Seq(Rendering)
<1> DEFINE n == Len(c)
           T == Seq(Rendering)
<1>1. PICK acc : /\ acc[0] = <<>>
                 /\ \A k \in 1..n : acc[k] = ContentAfter(acc[k - 1], c[k])
                 /\ AssistantContentFromRig(c) = acc[n]
  BY ContentIs
<1>2. /\ n \in Nat /\ n \in 0..n /\ 0 \in 0..n /\ <<>> \in T
      /\ \A k \in 1..n : c[k] \in RigParts
  OBVIOUS
<1>3. \A p \in T, x \in RigParts : ContentAfter(p, x) \in T
  BY ContentAfterTyped
<1> HIDE DEF n, T
<1> DEFINE Typical == {k \in 0..n : acc[k] \in T}
<1>4. 0 \in Typical
  BY <1>1, <1>2
<1>5. ASSUME NEW k \in 1..n, k - 1 \in Typical PROVE k \in Typical
  BY <1>1, <1>2, <1>3, <1>5
<1>6. \A k \in 0..n : k \in Typical
  <2> HIDE DEF Typical
  <2> QED BY <1>2, <1>4, <1>5, CountUp
<1> QED BY <1>1, <1>2, <1>6 DEF T, n


\* The content some parts are rendered as, and what one part adds to it.
Rendered(parts) == AssistantContentFromRig(WholeOf(parts))

RenderedAs(part) ==
  CASE part.type = "Thinking" -> FromRig(RigReasoning(Reasoning(part.id, part.text)))
    [] part.type = "Gap" -> <<>>
    [] OTHER -> FromRig(part)

(* One part more is rendered after the others. *)
LEMMA RenderedMore ==
  ASSUME NEW P \in Seq(OpenParts), NEW part \in OpenParts
  PROVE  /\ Rendered(Append(P, part)) = Rendered(P) \o RenderedAs(part)
         /\ Rendered(P) \in Seq(Rendering)
<1> DEFINE choice == WholeOf(P)
<1>1. choice \in Seq(RigParts) /\ Rendered(P) = AssistantContentFromRig(choice)
  BY WholeTyped DEF Rendered
<1>2. Rendered(P) \in Seq(Rendering)
  BY <1>1, ContentTyped
<1>3. Rendered(Append(P, part)) = AssistantContentFromRig(WholeAfter(choice, part))
  BY WholeMore DEF Rendered
<1> HIDE DEF choice
<1>4. CASE part.type = "Thinking"
  <2>1. RigReasoning(Reasoning(part.id, part.text)) \in RigParts
    BY <1>4, OpenPartTypes DEF RigParts, RigReasoning, Reasoning, Reasonings
  <2>2. AssistantContentFromRig(Append(choice, RigReasoning(Reasoning(part.id, part.text))))
          = Rendered(P) \o FromRig(RigReasoning(Reasoning(part.id, part.text)))
    BY <1>1, <2>1, ContentMore DEF ContentAfter
  <2> QED BY <1>2, <1>3, <1>4, <2>2 DEF WholeAfter, RenderedAs
<1>5. CASE part.type = "Gap"
  <2>1. Rendered(P) \o <<>> = Rendered(P)
    BY <1>2
  <2> QED BY <1>1, <1>2, <1>3, <1>5, <2>1 DEF WholeAfter, RenderedAs
<1>6. CASE part.type \notin {"Gap", "Thinking"}
  <2>1. part \in RigParts
    BY <1>6, OpenPartTypes
  <2>2. AssistantContentFromRig(Append(choice, part)) = Rendered(P) \o FromRig(part)
    BY <1>1, <2>1, ContentMore DEF ContentAfter
  <2> QED BY <1>2, <1>3, <1>6, <2>2 DEF WholeAfter, RenderedAs
<1> QED BY <1>4, <1>5, <1>6

(* What each part is rendered as. *)
LEMMA RenderedParts ==
  /\ RenderedAs(Gap) = <<>>
  /\ \A text : RenderedAs(RigText(text, FALSE)) = <<TextContent(text)>>
  /\ \A id, text :
       text # <<>> =>
         RenderedAs(ThinkingPart(id, text)) = <<DataContent("reasoning", Reasoning(id, text))>>
  /\ \A r : ~EmptyReasoning(r) =>
              RenderedAs(RigReasoning(r)) = <<DataContent("reasoning", r)>>
  /\ \A call, meta :
       RenderedAs(RigCall(call, meta)) =
         <<ToolContent(call)>> \o (IF meta = Nil THEN <<>>
                                   ELSE <<DataContent("tool_call_metadata", meta)>>)
<1>1. RenderedAs(Gap) = <<>>
  BY DEF RenderedAs, Gap
<1>2. ASSUME NEW text PROVE RenderedAs(RigText(text, FALSE)) = <<TextContent(text)>>
  <2>1. RenderedAs(RigText(text, FALSE)) = <<TextContent(text)>> \o <<>>
    BY DEF RenderedAs, RigText, FromRig
  <2> DEFINE c == TextContent(text)
  <2>2. <<c>> \o <<>> = <<c>>
    OBVIOUS
  <2> QED BY <2>1, <2>2
<1>3. ASSUME NEW r, ~EmptyReasoning(r)
      PROVE  FromRig(RigReasoning(r)) = <<DataContent("reasoning", r)>>
  BY <1>3 DEF FromRig, RigReasoning
<1>4. ASSUME NEW id, NEW text, text # <<>>
      PROVE  RenderedAs(ThinkingPart(id, text)) = <<DataContent("reasoning", Reasoning(id, text))>>
  <2>1. ~EmptyReasoning(Reasoning(id, text))
    BY <1>4 DEF EmptyReasoning, Reasoning
  <2> QED BY <1>3, <2>1 DEF RenderedAs, ThinkingPart
<1>5. ASSUME NEW r, ~EmptyReasoning(r)
      PROVE  RenderedAs(RigReasoning(r)) = <<DataContent("reasoning", r)>>
  <2>1. RenderedAs(RigReasoning(r)) = FromRig(RigReasoning(r))
    BY DEF RenderedAs, RigReasoning
  <2> QED BY <1>3, <1>5, <2>1
<1>6. ASSUME NEW call, NEW meta
      PROVE  RenderedAs(RigCall(call, meta)) =
               <<ToolContent(call)>> \o (IF meta = Nil THEN <<>>
                                         ELSE <<DataContent("tool_call_metadata", meta)>>)
  BY DEF RenderedAs, RigCall, FromRig
<1> QED BY <1>1, <1>2, <1>4, <1>5, <1>6
-----------------------------------------------------------------------------
(* The assembler has what the response in one piece is rendered as, but    *)
(* for what is still open.                                                 *)

\* The first parts of the content are these.
Kept(s, content) ==
  \A k \in DOMAIN content :
    k - 1 \in DOMAIN s.content /\ s.content[k - 1] = content[k]

AllComplete(s) == \A t \in DOMAIN s.tools : s.tools[t].completed

\* Nothing is open.
Settled(s, parts) ==
  /\ s.text = Nil /\ s.reasoning = Nil /\ AllComplete(s)
  /\ s.next = Len(Rendered(parts)) /\ Kept(s, Rendered(parts))

\* One block is open for the last of the parts.
OneOpen(s, parts, block) ==
  /\ parts # <<>> /\ AllComplete(s)
  /\ s.next = Len(Rendered(Front(parts))) + 1 /\ Kept(s, Rendered(Front(parts)))
  /\ block.index = s.next - 1

Writing(s, parts) ==
  /\ s.text # Nil /\ s.reasoning = Nil /\ OneOpen(s, parts, s.text)
  /\ Last(parts) = RigText(s.text.text, FALSE)

Thinks(s, parts) ==
  /\ s.text = Nil /\ s.reasoning # Nil /\ OneOpen(s, parts, s.reasoning)
  /\ Last(parts) = ThinkingPart(s.reasoning.id, s.reasoning.text)
  /\ s.reasoning.text # <<>>

\* One call is not complete, and comes next.
Calling(s, parts, t) ==
  /\ s.text = Nil /\ s.reasoning = Nil
  /\ t \in DOMAIN s.tools /\ ~s.tools[t].completed /\ s.tools[t].index = s.next - 1
  /\ \A u \in DOMAIN s.tools : u # t => s.tools[u].completed
  /\ s.next = Len(Rendered(parts)) + 1 /\ Kept(s, Rendered(parts))

(* A part is kept after the others. *)
LEMMA KeptMore ==
  ASSUME NEW content \in Seq(Rendering), NEW s, Kept(s, content), NEW part, NEW r,
         r.content = Put(s.content, Len(content), part)
  PROVE  Kept(r, content \o <<part>>) /\ Len(content \o <<part>>) = Len(content) + 1
<1> DEFINE n == Len(content)
           more == content \o <<part>>
<1>1. /\ n \in Nat /\ DOMAIN content = 1..n /\ Len(more) = n + 1 /\ DOMAIN more = 1..n + 1
      /\ more[n + 1] = part /\ \A k \in 1..n : more[k] = content[k]
  OBVIOUS
<1> HIDE DEF more, n
<1>2. /\ n \in DOMAIN r.content /\ r.content[n] = part
      /\ \A k \in DOMAIN s.content : k # n => k \in DOMAIN r.content /\ r.content[k] = s.content[k]
  BY DEF Put, n
<1>3. ASSUME NEW k \in 1..n + 1 PROVE k - 1 \in DOMAIN r.content /\ r.content[k - 1] = more[k]
  <2>1. CASE k = n + 1
    <3>1. k - 1 = n
      BY <1>1, <2>1
    <3> QED BY <1>1, <1>2, <2>1, <3>1
  <2>2. CASE k # n + 1
    <3>1. k \in 1..n /\ k - 1 # n
      BY <1>1, <2>2
    <3>2. k - 1 \in DOMAIN s.content /\ s.content[k - 1] = content[k]
      BY <1>1, <3>1 DEF Kept
    <3> QED BY <1>1, <1>2, <3>1, <3>2
  <2> QED BY <2>1, <2>2
<1> QED BY <1>1, <1>3 DEF Kept, more, n

(* What is kept stays. *)
LEMMA KeptSame ==
  ASSUME NEW content, NEW s, Kept(s, content), NEW r, r.content = s.content
  PROVE  Kept(r, content)
BY DEF Kept

(* The last of some parts, and those before it, when one is appended. *)
LEMMA AppendedPart ==
  ASSUME NEW S, NEW P \in Seq(S), NEW part
  PROVE  /\ Append(P, part) # <<>> /\ Last(Append(P, part)) = part
         /\ Front(Append(P, part)) = P
<1> DEFINE more == Append(P, part)
<1>1. more # <<>> /\ Len(more) = Len(P) + 1 /\ Len(P) \in Nat
  OBVIOUS
<1>2. Last(more) = part
  BY <1>1 DEF Last
<1>3. Front(more) = P
  BY <1>1 DEF Front
<1> QED BY <1>1, <1>2, <1>3

(* A part is kept where the next of those rendered comes. *)
LEMMA NextIsKept ==
  ASSUME NEW P \in Seq(OpenParts), NEW part \in OpenParts, NEW c, RenderedAs(part) = <<c>>,
         NEW s, Kept(s, Rendered(P)), NEW r,
         r.content = Put(s.content, Len(Rendered(P)), c)
  PROVE  /\ Kept(r, Rendered(Append(P, part)))
         /\ Len(Rendered(Append(P, part))) = Len(Rendered(P)) + 1
<1>1. /\ Rendered(Append(P, part)) = Rendered(P) \o <<c>>
      /\ Rendered(P) \in Seq(Rendering)
  BY RenderedMore
<1> QED BY <1>1, KeptMore

(* The open block is kept: nothing is open. *)
LEMMA OpenIsKept ==
  ASSUME NEW P \in Seq(OpenParts), NEW s, NEW block, OneOpen(s, P, block),
         NEW c, RenderedAs(Last(P)) = <<c>>,
         NEW r, r.content = Put(s.content, block.index, c), r.next = s.next
  PROVE  r.next = Len(Rendered(P)) /\ Kept(r, Rendered(P))
<1>1. /\ Front(P) \in Seq(OpenParts) /\ Last(P) \in OpenParts
      /\ P = Append(Front(P), Last(P))
  BY LastPart DEF OneOpen
<1>2. Rendered(Front(P)) \in Seq(Rendering) /\ Len(Rendered(Front(P))) \in Nat
  BY <1>1, RenderedMore
<1>3. block.index = Len(Rendered(Front(P))) /\ s.next = Len(Rendered(Front(P))) + 1
  BY <1>2 DEF OneOpen
<1>4. Kept(s, Rendered(Front(P)))
  BY DEF OneOpen
<1>5. /\ Kept(r, Rendered(Append(Front(P), Last(P))))
      /\ Len(Rendered(Append(Front(P), Last(P)))) = Len(Rendered(Front(P))) + 1
  BY <1>1, <1>3, <1>4, NextIsKept
<1> QED BY <1>1, <1>3, <1>5

(* close_text settles text. *)
LEMMA WritingSettles ==
  ASSUME NEW s, Ready(s, {}), NEW P \in Seq(OpenParts), Writing(s, P)
  PROVE  Settled(CloseText(s), P)
<1> DEFINE i == s.text.index
           x == [s EXCEPT !.text = Nil]
           part == TextContent(s.text.text)
           r == Close(x, i, part)
<1>1. CloseText(s) = r
  BY DEF CloseText, Writing
<1>2. DOMAIN s = Fields
  BY DEF Ready, Typed
<1>3. /\ x.content = s.content /\ x.tools = s.tools /\ x.next = s.next
      /\ x.text = Nil /\ x.reasoning = s.reasoning /\ DOMAIN x = Fields
  BY <1>2, FieldsAre
<1> HIDE DEF x
<1>4. Same(r, x, {"pending", "content"}) /\ r.content = Put(s.content, i, part)
  BY <1>3, CloseIs
<1> HIDE DEF r
<1>5. r.next = s.next /\ r.text = Nil /\ r.reasoning = Nil /\ r.tools = s.tools
  BY <1>3, <1>4, FieldsAre DEF Same, Writing
<1>6. OneOpen(s, P, s.text) /\ RenderedAs(Last(P)) = <<part>>
  BY RenderedParts DEF Writing
<1> HIDE DEF part
<1>7. r.next = Len(Rendered(P)) /\ Kept(r, Rendered(P))
  BY <1>4, <1>5, <1>6, OpenIsKept
<1>8. AllComplete(r)
  BY <1>5, <1>6 DEF OneOpen, AllComplete
<1> QED BY <1>1, <1>5, <1>7, <1>8 DEF Settled

(* close_reasoning settles reasoning. *)
LEMMA ThinksSettles ==
  ASSUME NEW s, Ready(s, {}), NEW P \in Seq(OpenParts), Thinks(s, P)
  PROVE  Settled(CloseReasoning(s), P)
<1> DEFINE i == s.reasoning.index
           x == [s EXCEPT !.reasoning = Nil]
           part == DataContent("reasoning", Reasoning(s.reasoning.id, s.reasoning.text))
           r == Close(x, i, part)
<1>1. CloseReasoning(s) = r
  BY DEF CloseReasoning, Thinks
<1>2. DOMAIN s = Fields
  BY DEF Ready, Typed
<1>3. /\ x.content = s.content /\ x.tools = s.tools /\ x.next = s.next
      /\ x.reasoning = Nil /\ x.text = s.text /\ DOMAIN x = Fields
  BY <1>2, FieldsAre
<1> HIDE DEF x
<1>4. Same(r, x, {"pending", "content"}) /\ r.content = Put(s.content, i, part)
  BY <1>3, CloseIs
<1> HIDE DEF r
<1>5. r.next = s.next /\ r.text = Nil /\ r.reasoning = Nil /\ r.tools = s.tools
  BY <1>3, <1>4, FieldsAre DEF Same, Thinks
<1>6. OneOpen(s, P, s.reasoning) /\ RenderedAs(Last(P)) = <<part>>
  BY RenderedParts DEF Thinks
<1> HIDE DEF part
<1>7. r.next = Len(Rendered(P)) /\ Kept(r, Rendered(P))
  BY <1>4, <1>5, <1>6, OpenIsKept
<1>8. AllComplete(r)
  BY <1>5, <1>6 DEF OneOpen, AllComplete
<1> QED BY <1>1, <1>5, <1>7, <1>8 DEF Settled

\* The assembler is settled, or will be when the open block is closed.
AtRest(s, parts) == Settled(s, parts) \/ Writing(s, parts) \/ Thinks(s, parts)

(* Closing what is open settles everything. *)
LEMMA QuietSettles ==
  ASSUME NEW s, Ready(s, {}), NEW P \in Seq(OpenParts), AtRest(s, P)
  PROVE  Settled(Quiet(s), P)
<1>1. CASE Writing(s, P)
  <2>1. Settled(CloseText(s), P)
    BY <1>1, WritingSettles
  <2> QED BY <2>1 DEF Quiet, CloseReasoning, Settled
<1>2. CASE Thinks(s, P)
  <2>1. CloseText(s) = s
    BY <1>2 DEF CloseText, Thinks
  <2>2. Settled(CloseReasoning(s), P)
    BY <1>2, ThinksSettles
  <2> QED BY <2>1, <2>2 DEF Quiet
<1>3. CASE Settled(s, P)
  BY <1>3 DEF Quiet, CloseText, CloseReasoning, Settled
<1> QED BY <1>1, <1>2, <1>3 DEF AtRest

(* push_text: the open text grows, or text is opened. *)
LEMMA PushTextWrites ==
  ASSUME NEW s, Ready(s, {}), NEW P \in Seq(OpenParts), NEW text \in Texts
  PROVE  /\ Settled(s, P) =>
              Writing(PushText(s, text), Append(P, RigText(text, FALSE)))
         /\ Writing(s, P) =>
              Writing(PushText(s, text),
                      Append(Front(P), RigText(s.text.text \o text, FALSE)))
<1> DEFINE o == OpenText(s)
           block == [o.text EXCEPT !.text = @ \o text]
           x == [o EXCEPT !.text = block]
           events == <<TextDelta(o.text.index, text)>>
           r == Emit(x, events)
<1>1. PushText(s, text) = r
  BY DEF PushText
<1>2. DOMAIN s = Fields /\ s.next \in Nat
  BY DEF Ready, Typed
<1> SUFFICES ASSUME Settled(s, P) \/ Writing(s, P)
             PROVE  /\ Settled(s, P) => Writing(r, Append(P, RigText(text, FALSE)))
                    /\ Writing(s, P) =>
                         Writing(r, Append(Front(P), RigText(s.text.text \o text, FALSE)))
  BY <1>1
<1>3. s.reasoning = Nil
  BY DEF Settled, Writing
<1>4. /\ o.text \in TextStates /\ Same(o, s, {"pending", "next", "text"})
  BY <1>3, OpenTextReady
<1>5. /\ s.text = Nil =>
           o.next = s.next + 1 /\ o.text.index = s.next /\ o.text.text = <<>>
      /\ s.text # Nil => o = s
  <2>1. CASE s.text = Nil
    <3> DEFINE a == Allocate(s, "Text")
               opened == [index |-> s.next, text |-> <<>>]
    <3>1. o = [a EXCEPT !.text = opened]
      BY <2>1 DEF OpenText
    <3>2. DOMAIN a = Fields /\ a.next = s.next + 1
      BY <1>2, AllocateIs DEF Same
    <3> HIDE DEF a
    <3>3. o.text = opened /\ o.next = a.next
      BY <3>1, <3>2, FieldsAre
    <3> HIDE DEF o
    <3> QED BY <2>1, <3>2, <3>3
  <2>2. CASE s.text # Nil
    BY <2>2 DEF OpenText
  <2> QED BY <2>1, <2>2
<1>6. /\ o.content = s.content /\ o.tools = s.tools /\ o.reasoning = Nil
      /\ DOMAIN o = Fields
  BY <1>3, <1>4, FieldsAre DEF Same
<1>7. block.index = o.text.index /\ block.text = o.text.text \o text /\ block # Nil
  <2> HIDE DEF o
  <2>1. o.text.text \o text \in Texts /\ DOMAIN o.text = {"index", "text"}
    BY <1>4 DEF TextStates, Texts
  <2>2. block \in TextStates
    BY <1>4, <2>1 DEF TextStates
  <2> QED BY <1>4, <2>1, <2>2, NilAssumption
<1> HIDE DEF o, block
<1>8. /\ x.content = s.content /\ x.tools = s.tools /\ x.next = o.next
      /\ x.text = block /\ x.reasoning = Nil /\ DOMAIN x = Fields
  BY <1>6, FieldsAre
<1> HIDE DEF x, events
<1>9. Same(r, x, {"pending"})
  BY <1>8, EmitIs
<1> HIDE DEF r
<1>10. /\ r.content = s.content /\ r.tools = s.tools /\ r.next = o.next
       /\ r.text = block /\ r.reasoning = Nil
  BY <1>8, <1>9, FieldsAre DEF Same
<1>11. ASSUME Settled(s, P) PROVE Writing(r, Append(P, RigText(text, FALSE)))
  <2> DEFINE Q == Append(P, RigText(text, FALSE))
  <2>1. Q # <<>> /\ Last(Q) = RigText(text, FALSE) /\ Front(Q) = P
    BY AppendedPart
  <2> HIDE DEF Q
  <2>2. /\ o.next = s.next + 1 /\ block.index = s.next /\ block.text = <<>> \o text
    BY <1>5, <1>7, <1>11 DEF Settled
  <2>3. <<>> \o text = text
    BY DEF Texts
  <2>4. AllComplete(r) /\ Kept(r, Rendered(P)) /\ s.next = Len(Rendered(P))
    BY <1>10, <1>11, KeptSame DEF Settled, AllComplete
  <2>5. OneOpen(r, Q, r.text)
    BY <1>2, <1>10, <2>1, <2>2, <2>4 DEF OneOpen
  <2>6. r.text # Nil /\ Last(Q) = RigText(r.text.text, FALSE)
    BY <1>7, <1>10, <2>1, <2>2, <2>3
  <2> QED BY <1>10, <2>5, <2>6 DEF Writing, Q
<1>12. ASSUME Writing(s, P)
       PROVE  Writing(r, Append(Front(P), RigText(s.text.text \o text, FALSE)))
  <2> DEFINE part == RigText(s.text.text \o text, FALSE)
             Q == Append(Front(P), part)
  <2>1. Front(P) \in Seq(OpenParts) /\ OneOpen(s, P, s.text) /\ s.text # Nil
    BY <1>12, LastPart DEF Writing, OneOpen
  <2>2. Q # <<>> /\ Last(Q) = part /\ Front(Q) = Front(P)
    BY <2>1, AppendedPart
  <2>3. /\ o.next = s.next /\ block.index = s.text.index
        /\ block.text = s.text.text \o text
    BY <1>5, <1>7, <2>1
  <2> HIDE DEF Q
  <2>4. AllComplete(r) /\ Kept(r, Rendered(Front(P)))
    BY <1>10, <2>1, KeptSame DEF OneOpen, AllComplete
  <2>5. OneOpen(r, Q, r.text)
    BY <1>10, <2>1, <2>2, <2>3, <2>4 DEF OneOpen
  <2> QED BY <1>7, <1>10, <2>2, <2>3, <2>5 DEF Writing, Q
<1> QED BY <1>11, <1>12

\* push_reasoning_delta behind its guards.
Thought(s, id, text) ==
  Emit([OpenReasoning(s, id) EXCEPT !.reasoning.text = @ \o text],
       <<ProviderEvent("reasoning_delta")>>)

(* The open reasoning grows, or reasoning is opened. *)
LEMMA ThoughtThinks ==
  ASSUME NEW s, Ready(s, {}), NEW P \in Seq(OpenParts), NEW id \in ReasoningIds \cup {Nil},
         NEW text \in Texts, text # <<>>
  PROVE  /\ Settled(s, P) => Thinks(Thought(s, id, text), Append(P, ThinkingPart(id, text)))
         /\ Thinks(s, P) /\ s.reasoning.id = id =>
              Thinks(Thought(s, id, text),
                     Append(Front(P), ThinkingPart(id, s.reasoning.text \o text)))
<1> DEFINE o == OpenReasoning(s, id)
           block == [o.reasoning EXCEPT !.text = @ \o text]
           x == [o EXCEPT !.reasoning = block]
           events == <<ProviderEvent("reasoning_delta")>>
           r == Emit(x, events)
<1>1. Thought(s, id, text) = r
  BY DEF Thought
<1>2. DOMAIN s = Fields /\ s.next \in Nat
  BY DEF Ready, Typed
<1> SUFFICES ASSUME Settled(s, P) \/ Thinks(s, P)
             PROVE  /\ Settled(s, P) => Thinks(r, Append(P, ThinkingPart(id, text)))
                    /\ Thinks(s, P) /\ s.reasoning.id = id =>
                         Thinks(r, Append(Front(P), ThinkingPart(id, s.reasoning.text \o text)))
  BY <1>1
<1>3. s.text = Nil
  BY DEF Settled, Thinks
<1>4. /\ o.reasoning \in ReasoningStates /\ Same(o, s, {"pending", "next", "reasoning"})
  BY <1>3, OpenReasoningReady
<1>5. /\ s.reasoning = Nil =>
           /\ o.next = s.next + 1 /\ o.reasoning.index = s.next
           /\ o.reasoning.id = id /\ o.reasoning.text = <<>>
      /\ s.reasoning # Nil => o = s
  <2>1. CASE s.reasoning = Nil
    <3> DEFINE a == Allocate(s, "ProviderData")
               opened == [index |-> s.next, id |-> id, text |-> <<>>]
    <3>1. o = [a EXCEPT !.reasoning = opened]
      BY <2>1 DEF OpenReasoning
    <3>2. DOMAIN a = Fields /\ a.next = s.next + 1
      BY <1>2, AllocateIs DEF Same
    <3> HIDE DEF a
    <3>3. o.reasoning = opened /\ o.next = a.next
      BY <3>1, <3>2, FieldsAre
    <3> HIDE DEF o
    <3> QED BY <2>1, <3>2, <3>3
  <2>2. CASE s.reasoning # Nil
    BY <2>2 DEF OpenReasoning
  <2> QED BY <2>1, <2>2
<1>6. /\ o.content = s.content /\ o.tools = s.tools /\ o.text = Nil /\ DOMAIN o = Fields
  BY <1>3, <1>4, FieldsAre DEF Same
<1>7. /\ block.index = o.reasoning.index /\ block.id = o.reasoning.id
      /\ block.text = o.reasoning.text \o text /\ block # Nil /\ block.text # <<>>
  <2> HIDE DEF o
  <2>1. /\ o.reasoning.text \o text \in Texts /\ DOMAIN o.reasoning = {"index", "id", "text"}
        /\ o.reasoning.text \o text # <<>>
    BY <1>4 DEF ReasoningStates, Texts
  <2>2. block \in ReasoningStates
    BY <1>4, <2>1 DEF ReasoningStates
  <2> QED BY <1>4, <2>1, <2>2, NilAssumption
<1> HIDE DEF o, block
<1>8. /\ x.content = s.content /\ x.tools = s.tools /\ x.next = o.next
      /\ x.reasoning = block /\ x.text = Nil /\ DOMAIN x = Fields
  BY <1>6, FieldsAre
<1> HIDE DEF x, events
<1>9. Same(r, x, {"pending"})
  BY <1>8, EmitIs
<1> HIDE DEF r
<1>10. /\ r.content = s.content /\ r.tools = s.tools /\ r.next = o.next
       /\ r.reasoning = block /\ r.text = Nil
  BY <1>8, <1>9, FieldsAre DEF Same
<1>11. ASSUME Settled(s, P) PROVE Thinks(r, Append(P, ThinkingPart(id, text)))
  <2> DEFINE Q == Append(P, ThinkingPart(id, text))
  <2>1. Q # <<>> /\ Last(Q) = ThinkingPart(id, text) /\ Front(Q) = P
    BY AppendedPart
  <2> HIDE DEF Q
  <2>2. /\ o.next = s.next + 1 /\ block.index = s.next /\ block.id = id
        /\ block.text = <<>> \o text
    BY <1>5, <1>7, <1>11 DEF Settled
  <2>3. <<>> \o text = text
    BY DEF Texts
  <2>4. AllComplete(r) /\ Kept(r, Rendered(P)) /\ s.next = Len(Rendered(P))
    BY <1>10, <1>11, KeptSame DEF Settled, AllComplete
  <2>5. OneOpen(r, Q, r.reasoning)
    BY <1>2, <1>10, <2>1, <2>2, <2>4 DEF OneOpen
  <2>6. r.reasoning # Nil /\ Last(Q) = ThinkingPart(r.reasoning.id, r.reasoning.text)
    BY <1>7, <1>10, <2>1, <2>2, <2>3
  <2> QED BY <1>7, <1>10, <2>5, <2>6 DEF Thinks, Q
<1>12. ASSUME Thinks(s, P), s.reasoning.id = id
       PROVE  Thinks(r, Append(Front(P), ThinkingPart(id, s.reasoning.text \o text)))
  <2> DEFINE part == ThinkingPart(id, s.reasoning.text \o text)
             Q == Append(Front(P), part)
  <2>1. Front(P) \in Seq(OpenParts) /\ OneOpen(s, P, s.reasoning) /\ s.reasoning # Nil
    BY <1>12, LastPart DEF Thinks, OneOpen
  <2>2. Q # <<>> /\ Last(Q) = part /\ Front(Q) = Front(P)
    BY <2>1, AppendedPart
  <2>3. /\ o.next = s.next /\ block.index = s.reasoning.index /\ block.id = id
        /\ block.text = s.reasoning.text \o text
    BY <1>5, <1>7, <1>12, <2>1
  <2> HIDE DEF Q
  <2>4. AllComplete(r) /\ Kept(r, Rendered(Front(P)))
    BY <1>10, <2>1, KeptSame DEF OneOpen, AllComplete
  <2>5. OneOpen(r, Q, r.reasoning)
    BY <1>10, <2>1, <2>2, <2>3, <2>4 DEF OneOpen
  <2> QED BY <1>7, <1>10, <2>2, <2>3, <2>5 DEF Thinks, Q
<1> QED BY <1>11, <1>12

(* complete_reasoning: the open block takes the item, or it is a block of its
   own. *)
LEMMA CompleteReasoningSettles ==
  ASSUME NEW s, Ready(s, {}), NEW P \in Seq(OpenParts), NEW v \in Reasonings,
         ~EmptyReasoning(v)
  PROVE  /\ Settled(s, P) =>
              Settled(CompleteReasoning(s, v), Append(P, RigReasoning(v)))
         /\ Thinks(s, P) =>
              Settled(CompleteReasoning(s, v), Append(Front(P), RigReasoning(v)))
<1> DEFINE a == Allocate(s, "ProviderData")
           opened == IF s.reasoning # Nil THEN s ELSE a
           i == IF s.reasoning # Nil THEN s.reasoning.index ELSE s.next
           x == [opened EXCEPT !.reasoning = Nil]
           events == <<ProviderEvent("reasoning")>>
           e == Emit(x, events)
           part == DataContent("reasoning", v)
           r == Close(e, i, part)
           rig == RigReasoning(v)
<1>1. CompleteReasoning(s, v) = r
  BY DEF CompleteReasoning
<1>2. DOMAIN s = Fields /\ s.next \in Nat
  BY DEF Ready, Typed
<1>3. rig \in OpenParts /\ RenderedAs(rig) = <<part>>
  BY RenderedParts DEF OpenParts, RigParts, RigReasoning
<1>4. /\ a.content = s.content /\ a.tools = s.tools /\ a.text = s.text
      /\ a.next = s.next + 1 /\ DOMAIN a = Fields
  BY <1>2, AllocateIs, FieldsAre DEF Same
<1> HIDE DEF a
<1>5. /\ x.content = s.content /\ x.tools = s.tools /\ x.text = s.text
      /\ x.reasoning = Nil /\ DOMAIN x = Fields
      /\ x.next = IF s.reasoning # Nil THEN s.next ELSE s.next + 1
  BY <1>2, <1>4, FieldsAre
<1> HIDE DEF x, part, events
<1>6. Same(e, x, {"pending"}) /\ DOMAIN e = Fields
  BY <1>5, EmitIs DEF Same
<1> HIDE DEF e
<1>7. /\ Same(r, e, {"pending", "content"}) /\ r.content = Put(e.content, i, part)
  BY <1>6, CloseIs
<1> HIDE DEF r
<1>8. /\ r.content = Put(s.content, i, part) /\ r.tools = s.tools /\ r.text = s.text
      /\ r.reasoning = Nil
      /\ r.next = IF s.reasoning # Nil THEN s.next ELSE s.next + 1
  BY <1>5, <1>6, <1>7, FieldsAre DEF Same
<1> HIDE DEF rig
<1>9. ASSUME Settled(s, P) PROVE Settled(r, Append(P, rig))
  <2>1. /\ i = Len(Rendered(P)) /\ Kept(s, Rendered(P)) /\ r.next = i + 1
        /\ r.text = Nil /\ AllComplete(r)
    BY <1>8, <1>9 DEF Settled, AllComplete
  <2> HIDE DEF i
  <2>2. /\ Kept(r, Rendered(Append(P, rig)))
        /\ Len(Rendered(Append(P, rig))) = Len(Rendered(P)) + 1
    BY <1>3, <1>8, <2>1, NextIsKept
  <2> QED BY <1>8, <2>1, <2>2 DEF Settled
<1>10. ASSUME Thinks(s, P) PROVE Settled(r, Append(Front(P), rig))
  <2> DEFINE Q == Append(Front(P), rig)
  <2>1. Front(P) \in Seq(OpenParts) /\ OneOpen(s, P, s.reasoning) /\ s.reasoning # Nil
    BY <1>10, LastPart DEF Thinks, OneOpen
  <2>2. Q \in Seq(OpenParts) /\ Q # <<>> /\ Last(Q) = rig /\ Front(Q) = Front(P)
    BY <1>3, <2>1, AppendedPart
  <2> HIDE DEF Q
  <2>3. OneOpen(s, Q, s.reasoning)
    BY <2>1, <2>2 DEF OneOpen
  <2>4. r.content = Put(s.content, s.reasoning.index, part) /\ r.next = s.next
    BY <1>8, <2>1
  <2>5. r.next = Len(Rendered(Q)) /\ Kept(r, Rendered(Q))
    BY <1>3, <2>2, <2>3, <2>4, OpenIsKept
  <2>6. r.text = Nil /\ AllComplete(r)
    BY <1>8, <1>10, <2>1 DEF Thinks, OneOpen, AllComplete
  <2> QED BY <1>8, <2>5, <2>6 DEF Settled, Q
<1> QED BY <1>1, <1>9, <1>10 DEF rig

(* The one tool a function is of stays open and where it is; nothing else
   moves. *)
Moves(r, s, t) ==
  /\ r.content = s.content /\ r.text = s.text /\ r.reasoning = s.reasoning
  /\ r.next = s.next
  /\ DOMAIN r.tools = DOMAIN s.tools
  /\ ~r.tools[t].completed /\ r.tools[t].index = s.tools[t].index
  /\ \A u \in DOMAIN s.tools : u # t => r.tools[u] = s.tools[u]

(* The functions of a call that is open. *)
LEMMA OpenToolMoves ==
  ASSUME NEW s, Ready(s, {}), NEW t \in DOMAIN s.tools, ~s.tools[t].completed
  PROVE  /\ \A id : Moves(ObserveToolId(s, t, id), s, t)
         /\ \A name : Moves(StartIfIdentified(s, t, name), s, t)
         /\ Moves(FlushArguments(s, t), s, t)
         /\ \A atom : /\ Moves([s EXCEPT !.tools[t].name = Append(@, atom)], s, t)
                      /\ Moves([s EXCEPT !.tools[t].args = Append(@, atom)], s, t)
<1>0. /\ s.next \in Nat /\ DOMAIN s = Fields /\ s.tools[t] \in ToolStates
  BY DEF Ready, Typed
<1>1. ASSUME NEW r, NEW tool, ~tool.completed, tool.index = s.tools[t].index,
             r.content = s.content, r.text = s.text, r.reasoning = s.reasoning,
             r.next = s.next, r.tools = [s.tools EXCEPT ![t] = tool]
      PROVE  Moves(r, s, t)
  BY <1>0, <1>1 DEF Moves
<1>2. Moves(s, s, t)
  BY <1>0 DEF Moves
<1>3. ASSUME NEW id PROVE Moves(ObserveToolId(s, t, id), s, t)
  <2> DEFINE r == [s EXCEPT !.tools[t].id = id, !.used = @ \cup {id}]
             tool == [s.tools[t] EXCEPT !.id = id]
  <2>1. /\ r.content = s.content /\ r.text = s.text /\ r.reasoning = s.reasoning
        /\ r.next = s.next
        /\ r.tools = [s.tools EXCEPT ![t] = tool]
    BY <1>0, FieldsAre
  <2>2. ~tool.completed /\ tool.index = s.tools[t].index
    BY <1>0 DEF ToolStates
  <2> HIDE DEF tool, r
  <2>3. Moves(r, s, t)
    BY <1>1, <2>1, <2>2
  <2> QED BY <1>2, <2>3 DEF ObserveToolId, r
<1>4. ASSUME NEW name PROVE Moves(StartIfIdentified(s, t, name), s, t)
  <2> DEFINE x == [s EXCEPT !.tools[t].started = TRUE]
             events == <<ToolCallStarted(s.tools[t].index, s.tools[t].id, name)>>
             r == Emit(x, events)
             tool == [s.tools[t] EXCEPT !.started = TRUE]
  <2>1. /\ x.content = s.content /\ x.text = s.text /\ x.reasoning = s.reasoning
        /\ x.next = s.next
        /\ x.tools = [s.tools EXCEPT ![t] = tool] /\ DOMAIN x = Fields
    BY <1>0, FieldsAre
  <2>2. ~tool.completed /\ tool.index = s.tools[t].index
    BY <1>0 DEF ToolStates
  <2> HIDE DEF tool, x, events
  <2>3. Same(r, x, {"pending"})
    BY <2>1, EmitIs
  <2> HIDE DEF r
  <2>4. Moves(r, s, t)
    BY <1>1, <2>1, <2>2, <2>3, FieldsAre DEF Same
  <2> QED BY <1>2, <2>4 DEF StartIfIdentified, r, x, events
<1>5. Moves(FlushArguments(s, t), s, t)
  <2> DEFINE old == s.tools[t]
             fragments == SubSeq(old.args, old.emitted + 1, Len(old.args))
             x == [s EXCEPT !.tools[t].emitted = Len(old.args)]
             events == [k \in DOMAIN fragments |->
                          ToolCallArgumentsDelta(old.index, <<fragments[k]>>)]
             r == Emit(x, events)
             tool == [old EXCEPT !.emitted = Len(old.args)]
  <2>1. /\ x.content = s.content /\ x.text = s.text /\ x.reasoning = s.reasoning
        /\ x.next = s.next
        /\ x.tools = [s.tools EXCEPT ![t] = tool] /\ DOMAIN x = Fields
    BY <1>0, FieldsAre
  <2>2. ~tool.completed /\ tool.index = s.tools[t].index
    BY <1>0 DEF ToolStates
  <2>3. FlushArguments(s, t) \in {s, r}
    BY DEF FlushArguments
  <2> HIDE DEF tool, x, events
  <2>4. Same(r, x, {"pending"})
    BY <2>1, EmitIs
  <2> HIDE DEF r
  <2>5. Moves(r, s, t)
    BY <1>1, <2>1, <2>2, <2>4, FieldsAre DEF Same
  <2> QED BY <1>2, <2>3, <2>5
<1>6. ASSUME NEW atom
      PROVE  /\ Moves([s EXCEPT !.tools[t].name = Append(@, atom)], s, t)
             /\ Moves([s EXCEPT !.tools[t].args = Append(@, atom)], s, t)
  <2> DEFINE x == [s EXCEPT !.tools[t].name = Append(@, atom)]
             y == [s EXCEPT !.tools[t].args = Append(@, atom)]
             named == [s.tools[t] EXCEPT !.name = Append(@, atom)]
             argued == [s.tools[t] EXCEPT !.args = Append(@, atom)]
  <2>1. /\ x.content = s.content /\ x.text = s.text /\ x.reasoning = s.reasoning
        /\ x.next = s.next
        /\ x.tools = [s.tools EXCEPT ![t] = named]
        /\ y.content = s.content /\ y.text = s.text /\ y.reasoning = s.reasoning
        /\ y.next = s.next
        /\ y.tools = [s.tools EXCEPT ![t] = argued]
    BY <1>0, FieldsAre
  <2>2. /\ ~named.completed /\ ~argued.completed
        /\ named.index = s.tools[t].index /\ argued.index = s.tools[t].index
    BY <1>0 DEF ToolStates
  <2> HIDE DEF x, y, named, argued
  <2>3. Moves(x, s, t) /\ Moves(y, s, t)
    BY <1>1, <2>1, <2>2
  <2> QED BY <2>3 DEF x, y
<1> QED BY <1>3, <1>4, <1>5, <1>6

(* The call in the making is still that. *)
LEMMA MovesCalls ==
  ASSUME NEW s, NEW parts, NEW t, Calling(s, parts, t), NEW r, Moves(r, s, t)
  PROVE  Calling(r, parts, t)
BY KeptSame DEF Calling, Moves

(* A new tool comes next, and has nothing. *)
LEMMA EnsureToolOpens ==
  ASSUME NEW s, Ready(s, {}), NEW t \in Tools, t \notin DOMAIN s.tools
  PROVE  LET r == EnsureTool(s, t)
         IN  /\ r.content = s.content /\ r.text = s.text /\ r.reasoning = s.reasoning
             /\ r.next = s.next + 1
             /\ DOMAIN r.tools = DOMAIN s.tools \cup {t}
             /\ r.tools[t].index = s.next /\ ~r.tools[t].completed
             /\ \A u \in DOMAIN s.tools : u # t /\ r.tools[u] = s.tools[u]
<1> DEFINE a == Allocate(s, "ToolCall")
           tools == Put(s.tools, t, NewTool(s.next))
           r == [a EXCEPT !.tools = tools]
<1>1. DOMAIN s = Fields /\ s.next \in Nat
  BY DEF Ready, Typed
<1>2. EnsureTool(s, t) = r
  <2>1. a.tools = s.tools
    BY <1>1, AllocateIs, FieldsAre DEF Same
  <2> HIDE DEF a
  <2>2. [a EXCEPT !.tools = Put(@, t, NewTool(s.next))] = r
    BY <2>1
  <2> QED BY <2>2 DEF EnsureTool, a
<1>3. /\ a.content = s.content /\ a.text = s.text /\ a.reasoning = s.reasoning
      /\ a.next = s.next + 1 /\ DOMAIN a = Fields
  BY <1>1, AllocateIs, FieldsAre DEF Same
<1> HIDE DEF a
<1>4. /\ DOMAIN tools = DOMAIN s.tools \cup {t}
      /\ tools[t].index = s.next /\ ~tools[t].completed
      /\ \A u \in DOMAIN s.tools : u # t /\ tools[u] = s.tools[u]
  BY DEF Put, NewTool
<1> HIDE DEF tools
<1>5. /\ r.content = s.content /\ r.text = s.text /\ r.reasoning = s.reasoning
      /\ r.next = s.next + 1 /\ r.tools = tools
  BY <1>3, FieldsAre
<1> HIDE DEF r
<1> QED BY <1>2, <1>4, <1>5

(* push_tool_delta, when the tool is open. *)
LEMMA PushToolDeltaMoves ==
  ASSUME NEW s, Ready(s, {}), NEW t \in Tools, NEW part \in {"name", "args"},
         NEW atom \in Atoms, ~EnsureTool(s, t).tools[t].completed
  PROVE  Moves(PushToolDelta(s, t, part, atom), EnsureTool(s, t), t)
<1> DEFINE known == EnsureTool(s, t)
           pushed == IF part = "name"
                     THEN [known EXCEPT !.tools[t].name = Append(@, atom)]
                     ELSE [known EXCEPT !.tools[t].args = Append(@, atom)]
           begun == StartIfIdentified(pushed, t, Nil)
<1>1. PushToolDelta(s, t, part, atom) = FlushArguments(begun, t)
  BY DEF PushToolDelta
<1>2. Ready(known, {}) /\ t \in DOMAIN known.tools /\ ~known.tools[t].completed
  BY EnsureToolReady
<1> HIDE DEF known
<1>3. DOMAIN known = Fields /\ known.tools[t] \in ToolStates
  BY <1>2 DEF Ready, Typed
<1>4. Ready(pushed, {})
  <2> DEFINE old == known.tools[t]
             tool == IF part = "name" THEN [old EXCEPT !.name = Append(old.name, atom)]
                     ELSE [old EXCEPT !.args = Append(old.args, atom)]
  <2>1. Append(old.name, atom) \in Texts /\ Append(old.args, atom) \in Texts
    BY <1>3, ToolFields DEF Texts
  <2>2. /\ tool \in ToolStates /\ tool.index = old.index
        /\ tool.completed = old.completed /\ tool.id = old.id
    BY <1>3, <2>1 DEF ToolStates
  <2>3. Same(pushed, known, {"tools"}) /\ pushed.tools = [known.tools EXCEPT ![t] = tool]
    BY <1>3, FieldsAre DEF Same
  <2> HIDE DEF pushed, tool
  <2> QED BY <1>2, <2>2, <2>3, ToolReady
<1>5. Moves(pushed, known, t)
  BY <1>2, OpenToolMoves
<1> HIDE DEF pushed
<1>6. t \in DOMAIN pushed.tools /\ ~pushed.tools[t].completed
  BY <1>2, <1>5 DEF Moves
<1>7. Ready(begun, {}) /\ Moves(begun, pushed, t)
  BY <1>4, <1>6, StartIfIdentifiedReady, OpenToolMoves
<1> HIDE DEF begun
<1>8. Moves(FlushArguments(begun, t), begun, t)
  BY <1>6, <1>7, OpenToolMoves DEF Moves
<1> QED BY <1>1, <1>5, <1>7, <1>8 DEF Moves, known

(* The tool is the one in the making. *)
LEMMA PushToolDeltaCalls ==
  ASSUME NEW s, Ready(s, {}), NEW parts, NEW t \in Tools, NEW part \in {"name", "args"},
         NEW atom \in Atoms, Calling(EnsureTool(s, t), parts, t)
  PROVE  Calling(PushToolDelta(s, t, part, atom), parts, t)
<1>1. ~EnsureTool(s, t).tools[t].completed
  BY DEF Calling
<1> QED BY <1>1, PushToolDeltaMoves, MovesCalls

(* A new tool is the call in the making, and the one in the making is known. *)
LEMMA EnsureToolCalls ==
  ASSUME NEW s, Ready(s, {}), NEW P \in Seq(OpenParts), NEW t \in Tools,
         \/ Settled(s, P) /\ t \notin DOMAIN s.tools
         \/ Calling(s, P, t)
  PROVE  Calling(EnsureTool(s, t), P, t)
<1>1. CASE Calling(s, P, t)
  BY <1>1 DEF EnsureTool, Calling
<1>2. CASE Settled(s, P) /\ t \notin DOMAIN s.tools
  <2> DEFINE r == EnsureTool(s, t)
  <2>1. /\ r.content = s.content /\ r.text = Nil /\ r.reasoning = Nil
        /\ r.next = s.next + 1 /\ DOMAIN r.tools = DOMAIN s.tools \cup {t}
        /\ r.tools[t].index = s.next /\ ~r.tools[t].completed
        /\ \A u \in DOMAIN s.tools : u # t /\ r.tools[u] = s.tools[u]
    BY <1>2, EnsureToolOpens DEF Settled
  <2> HIDE DEF r
  <2>2. s.next \in Nat
    BY DEF Ready, Typed
  <2>3. r.tools[t].index = r.next - 1
    BY <2>1, <2>2
  <2>4. r.next = Len(Rendered(P)) + 1 /\ Kept(r, Rendered(P))
    BY <1>2, <2>1, KeptSame DEF Settled
  <2>5. \A u \in DOMAIN r.tools : u # t => r.tools[u].completed
    BY <1>2, <2>1 DEF Settled, AllComplete
  <2> QED BY <2>1, <2>3, <2>4, <2>5 DEF Calling, r
<1> QED BY <1>1, <1>2

(* complete_tool: the call under the index of its tool, by the id the provider
   gave it or the one it gets, and its metadata after everything. *)
LEMMA CompletionIs ==
  ASSUME NEW s, Ready(s, {}), NEW item \in ItemSet, item.type = "ToolCall",
         ~BadCall(s, item)
  PROVE  \E f :
           LET t == item.tool
               r == CompleteTool(s, item)
               kept == Put(f.content, f.tools[t].index, ToolContent(CallOf(f, item)))
           IN  /\ Ready(f, {}) /\ t \in DOMAIN f.tools
               /\ ~EnsureTool(s, t).tools[t].completed /\ Moves(f, EnsureTool(s, t), t)
               /\ item.wire # Nil => f.tools[t].id = item.wire
               /\ r.text = f.text /\ r.reasoning = f.reasoning
               /\ DOMAIN r.tools = DOMAIN f.tools
               /\ r.tools[t].completed /\ r.tools[t].index = f.tools[t].index
               /\ r.tools[t].id = f.tools[t].id
               /\ \A u \in DOMAIN f.tools : u # t => r.tools[u] = f.tools[u]
               /\ item.meta = Nil => r.next = f.next /\ r.content = kept
               /\ item.meta # Nil =>
                    /\ r.next = f.next + 1
                    /\ r.content = Put(kept, f.next, DataContent("tool_call_metadata", item.meta))
<1> DEFINE t == item.tool
           known == EnsureTool(s, t)
           named == Identify(known, item)
           begun == StartIfIdentified(named, t, item.name)
           flushed == FlushArguments(begun, t)
           i == flushed.tools[t].index
           call == CallOf(flushed, item)
           events == <<ToolCallCompleted(i, call)>>
           part == ToolContent(call)
           e == Emit(flushed, events)
           c == Close(e, i, part)
           done == [c EXCEPT !.tools[t].completed = TRUE]
           kept == Put(flushed.content, i, part)
           note == DataContent("tool_call_metadata", item.meta)
<1>1. CompleteTool(s, item) =
        IF item.meta = Nil THEN done
        ELSE PushProviderContent(done, "tool_call_metadata", item.meta)
  BY DEF CompleteTool
<1>2. t \in Tools /\ item.name \in Texts /\ item.wire \in WireIds \cup {Nil}
  BY ToolCallFields
<1>3. Ready(known, {}) /\ t \in DOMAIN known.tools
  BY <1>2, EnsureToolReady
<1>4. ~known.tools[t].completed /\ (item.wire # Nil => ~Contradicts(known, t, item.wire))
  BY DEF BadCall
<1> HIDE DEF known
<1>5. /\ Ready(named, {}) /\ Moves(named, known, t) /\ t \in DOMAIN named.tools
      /\ ~named.tools[t].completed
      /\ item.wire # Nil => named.tools[t].id = item.wire
  <2>1. Ready(named, {}) /\ t \in DOMAIN named.tools
    BY <1>3, <1>4, IdentifyReady
  <2>2. Moves(named, known, t)
    <3>1. \E id : named = ObserveToolId(known, t, id)
      BY DEF Identify
    <3> HIDE DEF named
    <3> QED BY <1>3, <1>4, <3>1, OpenToolMoves
  <2>3. ASSUME item.wire # Nil PROVE named.tools[t].id = item.wire
    <3>0. named = ObserveToolId(known, t, item.wire)
      BY <2>3 DEF Identify
    <3>1. CASE known.tools[t].id # Nil
      BY <1>4, <2>3, <3>0, <3>1 DEF ObserveToolId, Contradicts
    <3>2. CASE known.tools[t].id = Nil
      <4> DEFINE tool == [known.tools[t] EXCEPT !.id = item.wire]
                 x == [known EXCEPT !.tools[t].id = item.wire, !.used = @ \cup {item.wire}]
      <4>1. DOMAIN known = Fields /\ known.tools[t] \in ToolStates
        BY <1>3 DEF Ready, Typed
      <4>2. x.tools = [known.tools EXCEPT ![t] = tool]
        BY <4>1, FieldsAre
      <4>3. tool.id = item.wire
        BY <4>1 DEF ToolStates
      <4>4. named = x
        BY <3>0, <3>2 DEF ObserveToolId
      <4> HIDE DEF tool, x, named
      <4> QED BY <1>3, <4>2, <4>3, <4>4
    <3> QED BY <3>1, <3>2
  <2> HIDE DEF named
  <2> QED BY <2>1, <2>2, <2>3 DEF Moves
<1> HIDE DEF named
<1>6. /\ Ready(begun, {}) /\ Moves(begun, named, t) /\ t \in DOMAIN begun.tools
      /\ ~begun.tools[t].completed /\ begun.tools[t].id = named.tools[t].id
  BY <1>2, <1>5, StartIfIdentifiedReady, OpenToolMoves
<1> HIDE DEF begun
<1>7. /\ Ready(flushed, {}) /\ Moves(flushed, begun, t) /\ t \in DOMAIN flushed.tools
      /\ flushed.tools[t].id = begun.tools[t].id
  BY <1>6, FlushArgumentsReady, OpenToolMoves
<1> HIDE DEF flushed
<1>8. Moves(flushed, known, t)
  BY <1>5, <1>6, <1>7 DEF Moves
<1>9. DOMAIN flushed = Fields /\ flushed.tools[t] \in ToolStates
  BY <1>7 DEF Ready, Typed
<1> HIDE DEF i, events, part
<1>10. Same(e, flushed, {"pending"}) /\ DOMAIN e = Fields
  BY <1>9, EmitIs DEF Same
<1> HIDE DEF e
<1>11. Same(c, e, {"pending", "content"}) /\ DOMAIN c = Fields
       /\ c.content = Put(e.content, i, part)
  BY <1>10, CloseIs DEF Same
<1> HIDE DEF c
<1>12. /\ c.content = kept /\ c.tools = flushed.tools /\ c.next = flushed.next
       /\ c.text = flushed.text /\ c.reasoning = flushed.reasoning
  BY <1>10, <1>11, FieldsAre DEF Same
<1>13. /\ done.content = c.content /\ done.next = c.next /\ done.text = c.text
       /\ done.reasoning = c.reasoning /\ DOMAIN done = Fields
       /\ done.tools = [c.tools EXCEPT ![t] = [c.tools[t] EXCEPT !.completed = TRUE]]
  BY <1>11, <1>12, FieldsAre
<1> HIDE DEF done, kept
<1>14. /\ DOMAIN done.tools = DOMAIN flushed.tools
       /\ done.tools[t].completed /\ done.tools[t].index = flushed.tools[t].index
       /\ done.tools[t].id = flushed.tools[t].id
       /\ \A u \in DOMAIN flushed.tools : u # t => done.tools[u] = flushed.tools[u]
  <2> DEFINE tool == [flushed.tools[t] EXCEPT !.completed = TRUE]
  <2>1. /\ tool.completed /\ tool.index = flushed.tools[t].index
        /\ tool.id = flushed.tools[t].id
    BY <1>9 DEF ToolStates
  <2>2. done.tools = [flushed.tools EXCEPT ![t] = tool]
    BY <1>12, <1>13
  <2> HIDE DEF tool
  <2> QED BY <1>7, <2>1, <2>2
<1> DEFINE r == CompleteTool(s, item)
<1>15. /\ r.text = flushed.text /\ r.reasoning = flushed.reasoning
       /\ r.tools = done.tools
       /\ item.meta = Nil => r.next = flushed.next /\ r.content = kept
       /\ item.meta # Nil => r.next = flushed.next + 1 /\ r.content = Put(kept, flushed.next, note)
  <2>1. CASE item.meta = Nil
    BY <1>1, <1>12, <1>13, <2>1
  <2>2. CASE item.meta # Nil
    <3> DEFINE a == Allocate(done, "ProviderData")
               told == Emit(a, <<ProviderEvent("tool_call_metadata")>>)
               w == Close(told, done.next, note)
    <3>1. r = w
      BY <1>1, <2>2 DEF PushProviderContent
    <3>2. Same(a, done, {"pending", "next"}) /\ a.next = done.next + 1
      BY <1>13, AllocateIs
    <3> HIDE DEF a, note
    <3>3. Same(told, a, {"pending"})
      BY <3>2, EmitIs DEF Same
    <3> HIDE DEF told
    <3>4. /\ Same(w, told, {"pending", "content"})
          /\ w.content = Put(told.content, done.next, note)
      BY <3>3, CloseIs DEF Same
    <3> HIDE DEF w
    <3> QED BY <1>12, <1>13, <2>2, <3>1, <3>2, <3>3, <3>4, FieldsAre DEF Same
  <2> QED BY <2>1, <2>2
<1> HIDE DEF r, done, note
<1> WITNESS flushed
<1> QED BY <1>4, <1>5, <1>6, <1>7, <1>8, <1>14, <1>15 DEF r, known, kept, i, part, call, note

(* The call is kept where it comes, under the provider's id, and its metadata
   after it. *)
LEMMA CompleteToolSettles ==
  ASSUME NEW s, Ready(s, {}), NEW P \in Seq(OpenParts), NEW item \in ItemSet,
         item.type = "ToolCall", ~BadCall(s, item), item.wire # Nil,
         Calling(EnsureTool(s, item.tool), P, item.tool)
  PROVE  Settled(CompleteTool(s, item),
                 Append(P, RigCall([id |-> item.wire, name |-> item.name, args |-> item.args],
                                   item.meta)))
<1> DEFINE t == item.tool
           r == CompleteTool(s, item)
           sent_call == [id |-> item.wire, name |-> item.name, args |-> item.args]
           part == ToolContent(sent_call)
           note == DataContent("tool_call_metadata", item.meta)
           rig == RigCall(sent_call, item.meta)
           content == Rendered(P)
           more == content \o <<part>>
<1>1. PICK f :
        /\ Ready(f, {}) /\ Moves(f, EnsureTool(s, t), t) /\ f.tools[t].id = item.wire
        /\ r.text = f.text /\ r.reasoning = f.reasoning /\ DOMAIN r.tools = DOMAIN f.tools
        /\ r.tools[t].completed /\ \A u \in DOMAIN f.tools : u # t => r.tools[u] = f.tools[u]
        /\ item.meta = Nil =>
             /\ r.next = f.next
             /\ r.content = Put(f.content, f.tools[t].index, ToolContent(CallOf(f, item)))
        /\ item.meta # Nil =>
             /\ r.next = f.next + 1
             /\ r.content = Put(Put(f.content, f.tools[t].index, ToolContent(CallOf(f, item))),
                                f.next, note)
  BY CompletionIs
<1>2. CallOf(f, item) = sent_call
  BY <1>1 DEF CallOf
<1>3. /\ item.name \in Texts /\ item.args \in JsonValues
      /\ item.meta \in Metas \cup {Nil} /\ item.wire \in WireIds \cup {Nil}
  BY ToolCallFields
<1>4. Calling(f, P, t)
  BY <1>1, MovesCalls
<1>5. rig \in OpenParts
  BY <1>3 DEF OpenParts, RigParts, RigCall
<1>6. /\ content \in Seq(Rendering)
      /\ Rendered(Append(P, rig)) = content \o RenderedAs(rig)
      /\ RenderedAs(rig) = <<part>> \o (IF item.meta = Nil THEN <<>> ELSE <<note>>)
  BY <1>5, RenderedMore, RenderedParts
<1>7. part \in Rendering
  BY <1>3 DEF ToolContent, Rendering
<1> HIDE DEF content, rig, part, note, sent_call, r
<1>8. f.next \in Nat
  BY <1>1 DEF Ready, Typed
<1>9. /\ f.tools[t].index = Len(content) /\ f.next = Len(content) + 1 /\ Kept(f, content)
      /\ f.text = Nil /\ f.reasoning = Nil
      /\ \A u \in DOMAIN f.tools : u # t => f.tools[u].completed
  BY <1>4, <1>6, <1>8 DEF Calling, content
<1>10. AllComplete(r) /\ r.text = Nil /\ r.reasoning = Nil
  BY <1>1, <1>9 DEF AllComplete
<1> DEFINE x == [f EXCEPT !.content = Put(f.content, Len(content), part)]
<1>11. x.content = Put(f.content, Len(content), part)
  BY <1>1, FieldsAre DEF Ready, Typed
<1> HIDE DEF x
<1>12. Kept(x, more) /\ Len(more) = Len(content) + 1 /\ more \in Seq(Rendering)
  <2>1. Kept(x, more) /\ Len(more) = Len(content) + 1
    BY <1>6, <1>9, <1>11, KeptMore
  <2>2. more \in Seq(Rendering)
    BY <1>6, <1>7
  <2> QED BY <2>1, <2>2
<1>13. CASE item.meta = Nil
  <2>1. <<part>> \o <<>> = <<part>>
    OBVIOUS
  <2>2. Rendered(Append(P, rig)) = more
    BY <1>6, <1>13, <2>1
  <2>3. r.content = x.content /\ r.next = Len(more)
    BY <1>1, <1>2, <1>9, <1>11, <1>12, <1>13 DEF part
  <2>4. Kept(r, more)
    BY <1>12, <2>3, KeptSame
  <2> QED BY <1>10, <2>2, <2>3, <2>4 DEF Settled, rig, sent_call, r
<1>14. CASE item.meta # Nil
  <2>1. Rendered(Append(P, rig)) = more \o <<note>>
    <3>1. Rendered(Append(P, rig)) = content \o (<<part>> \o <<note>>)
      BY <1>6, <1>14
    <3>2. content \o (<<part>> \o <<note>>) = (content \o <<part>>) \o <<note>>
      BY <1>6
    <3> QED BY <3>1, <3>2
  <2>2. r.content = Put(x.content, Len(more), note) /\ r.next = Len(more) + 1
    BY <1>1, <1>2, <1>9, <1>11, <1>12, <1>14 DEF part
  <2> HIDE DEF more
  <2>3. Kept(r, more \o <<note>>) /\ Len(more \o <<note>>) = Len(more) + 1
    BY <1>12, <2>2, KeptMore
  <2> QED BY <1>10, <2>1, <2>2, <2>3 DEF Settled, rig, sent_call, r
<1> QED BY <1>13, <1>14

-----------------------------------------------------------------------------
(* Items in order: one thing at a time.                                    *)

\* What StreamedEqualsWhole asks of the provider, and no metadata of a text.
InOrder(items) ==
  /\ OneAtATime(items) /\ Repeats(items)
  /\ \A k \in DOMAIN items : items[k].type = "ToolCall" => items[k].wire # Nil
  /\ \A k \in DOMAIN items : items[k].type = "Text" => ~items[k].meta

Uncalled(items, t) ==
  \A i \in DOMAIN items : ~(items[i].type = "ToolCall" /\ items[i].tool = t)

\* A call that was begun and is not complete is what was spoken of last.
Latest(items, t) ==
  /\ Uncalled(items, t)
  /\ \E j \in DOMAIN items :
       /\ items[j].type = "ToolCallDelta" /\ items[j].tool = t
       /\ \A k \in j + 1..Len(items) : items[k].type = "Unknown"

\* A call was begun and something else was spoken of: it never completes.
Abandoned(items) ==
  \E j, k \in DOMAIN items :
    /\ j < k /\ items[j].type = "ToolCallDelta" /\ Uncalled(items, items[j].tool)
    /\ ~OfTool(items[k], items[j].tool) /\ items[k].type # "Unknown"

(* What is in order was in order before the last item. *)
LEMMA InOrderBefore ==
  ASSUME NEW items \in Seq(ItemSet), NEW item \in ItemSet, InOrder(Append(items, item))
  PROVE  /\ InOrder(items)
         /\ item.type = "ToolCall" => item.wire # Nil
         /\ item.type = "Text" => ~item.meta
         /\ item.type = "Reasoning" /\ Parts(items) # <<>> /\ Last(Parts(items)).type = "Thinking" =>
              /\ Last(Parts(items)).id = item.reasoning.id
              /\ Last(Parts(items)).text = item.reasoning.text
<1> DEFINE n == Len(items)
           now == Append(items, item)
<1>1. /\ n \in Nat /\ DOMAIN items = 1..n /\ DOMAIN now = 1..n + 1
      /\ now[n + 1] = item /\ \A k \in 1..n : now[k] = items[k]
  OBVIOUS
<1>2. \A k \in 1..n : k \in 1..n + 1 /\ n + 1 \in 1..n + 1
  BY <1>1
<1>3. \A j \in 1..n + 1 : SubSeq(now, 1, j - 1) = SubSeq(items, 1, j - 1)
  <2> SUFFICES ASSUME NEW j \in 1..n + 1
               PROVE  SubSeq(now, 1, j - 1) = SubSeq(items, 1, j - 1)
    OBVIOUS
  <2>1. j - 1 \in 0..n /\ \A k \in 1..j - 1 : now[k] = items[k]
    BY <1>1
  <2> HIDE DEF now
  <2> QED BY <2>1
<1>4. SubSeq(items, 1, (n + 1) - 1) = items
  BY <1>1
<1> HIDE DEF now, n
<1>5. OneAtATime(items)
  <2> SUFFICES ASSUME NEW i \in 1..n, NEW j \in 1..n, NEW t \in Tools, i < j,
                      OfTool(items[i], t), OfTool(items[j], t), NEW k \in i..j
               PROVE  OfTool(items[k], t) \/ items[k].type = "Unknown"
    BY <1>1 DEF OneAtATime
  <2>1. k \in 1..n
    BY <1>1
  <2>2. OneAtATime(now)
    BY DEF InOrder, now
  <2>3. OfTool(now[k], t) \/ now[k].type = "Unknown"
    BY <1>1, <1>2, <2>2 DEF OneAtATime
  <2> QED BY <1>1, <2>1, <2>3
<1>6. Repeats(items)
  BY <1>1, <1>2, <1>3 DEF Repeats, InOrder, now
<1>7. /\ \A k \in DOMAIN items : items[k].type = "ToolCall" => items[k].wire # Nil
      /\ \A k \in DOMAIN items : items[k].type = "Text" => ~items[k].meta
  BY <1>1, <1>2 DEF InOrder, now
<1>8. /\ item.type = "ToolCall" => item.wire # Nil
      /\ item.type = "Text" => ~item.meta
  BY <1>1, <1>2 DEF InOrder, now
<1>9. ASSUME item.type = "Reasoning", Parts(items) # <<>>, Last(Parts(items)).type = "Thinking"
      PROVE  /\ Last(Parts(items)).id = item.reasoning.id
             /\ Last(Parts(items)).text = item.reasoning.text
  <2>1. n + 1 \in DOMAIN now /\ now[n + 1] = item
    BY <1>1
  <2>2. Parts(SubSeq(now, 1, (n + 1) - 1)) = Parts(items)
    <3>1. n + 1 \in 1..n + 1
      BY <1>1
    <3>2. SubSeq(now, 1, (n + 1) - 1) = items
      BY <1>3, <1>4, <3>1
    <3> QED BY <3>2
  <2>3. Repeats(now)
    BY DEF InOrder, now
  <2> QED BY <1>9, <2>1, <2>2, <2>3 DEF Repeats
<1> QED BY <1>5, <1>6, <1>7, <1>8, <1>9 DEF InOrder

(* A call that is abandoned stays so: its items came in one run. *)
LEMMA AbandonedStays ==
  ASSUME NEW items \in Seq(ItemSet), Abandoned(items), NEW item \in ItemSet,
         OneAtATime(Append(items, item))
  PROVE  Abandoned(Append(items, item))
<1> DEFINE n == Len(items)
           now == Append(items, item)
<1>1. /\ n \in Nat /\ DOMAIN items = 1..n /\ DOMAIN now = 1..n + 1
      /\ now[n + 1] = item /\ \A k \in 1..n : now[k] = items[k] /\ k \in 1..n + 1
  OBVIOUS
<1>2. PICK j, k \in 1..n :
        /\ j < k /\ items[j].type = "ToolCallDelta" /\ Uncalled(items, items[j].tool)
        /\ ~OfTool(items[k], items[j].tool) /\ items[k].type # "Unknown"
  BY <1>1 DEF Abandoned
<1> HIDE DEF now, n
<1> DEFINE t == items[j].tool
<1>3. t \in Tools
  <2>1. items[j] \in ItemSet
    BY <1>1
  <2> QED BY <1>2, <2>1, DeltaFields
<1>4. ~(item.type = "ToolCall" /\ item.tool = t)
  <2> SUFFICES ASSUME item.type = "ToolCall", item.tool = t PROVE FALSE
    OBVIOUS
  <2>1. OfTool(now[j], t) /\ OfTool(now[n + 1], t)
    BY <1>1, <1>2 DEF OfTool
  <2>2. j \in DOMAIN now /\ n + 1 \in DOMAIN now /\ j < n + 1 /\ k \in j..n + 1
    BY <1>1, <1>2
  <2>3. OneAtATime(now)
    BY DEF now
  <2>4. OfTool(now[k], t) \/ now[k].type = "Unknown"
    BY <1>3, <2>1, <2>2, <2>3 DEF OneAtATime
  <2> QED BY <1>1, <1>2, <2>4
<1>5. Uncalled(now, t)
  <2> SUFFICES ASSUME NEW i \in 1..n + 1 PROVE ~(now[i].type = "ToolCall" /\ now[i].tool = t)
    BY <1>1 DEF Uncalled
  <2>1. CASE i = n + 1
    BY <1>1, <1>4, <2>1
  <2>2. CASE i # n + 1
    <3>1. i \in 1..n
      BY <1>1, <2>2
    <3> QED BY <1>1, <1>2, <3>1 DEF Uncalled
  <2> QED BY <2>1, <2>2
<1>6. now[j] = items[j] /\ now[k] = items[k] /\ j \in DOMAIN now /\ k \in DOMAIN now
  BY <1>1
<1> QED BY <1>2, <1>5, <1>6 DEF Abandoned, now

(* Speaking of something else abandons the call in the making. *)
LEMMA LeftBehind ==
  ASSUME NEW items \in Seq(ItemSet), NEW t, Latest(items, t), NEW item \in ItemSet,
         ~OfTool(item, t), item.type # "Unknown"
  PROVE  Abandoned(Append(items, item))
<1> DEFINE n == Len(items)
           now == Append(items, item)
<1>1. /\ n \in Nat /\ DOMAIN items = 1..n /\ DOMAIN now = 1..n + 1
      /\ now[n + 1] = item /\ \A k \in 1..n : now[k] = items[k]
  OBVIOUS
<1>2. PICK j \in 1..n : items[j].type = "ToolCallDelta" /\ items[j].tool = t
  BY <1>1 DEF Latest
<1> HIDE DEF now, n
<1>3. Uncalled(now, t)
  <2> SUFFICES ASSUME NEW i \in 1..n + 1 PROVE ~(now[i].type = "ToolCall" /\ now[i].tool = t)
    BY <1>1 DEF Uncalled
  <2>1. CASE i = n + 1
    BY <1>1, <2>1 DEF OfTool
  <2>2. CASE i # n + 1
    <3>1. i \in 1..n
      BY <1>1, <2>2
    <3> QED BY <1>1, <3>1 DEF Latest, Uncalled
  <2> QED BY <2>1, <2>2
<1>4. now[j] = items[j] /\ j \in DOMAIN now /\ n + 1 \in DOMAIN now /\ j < n + 1
  BY <1>1
<1> QED BY <1>1, <1>2, <1>3, <1>4 DEF Abandoned, now

(* A delta of a call that is not complete, and what means nothing, keep it the
   latest. *)
LEMMA StillLatest ==
  ASSUME NEW items \in Seq(ItemSet), NEW t, Uncalled(items, t), NEW item \in ItemSet,
         \/ item.type = "ToolCallDelta" /\ item.tool = t
         \/ item.type = "Unknown" /\ Latest(items, t)
  PROVE  Latest(Append(items, item), t)
<1> DEFINE n == Len(items)
           now == Append(items, item)
<1>1. /\ n \in Nat /\ DOMAIN items = 1..n /\ DOMAIN now = 1..n + 1 /\ Len(now) = n + 1
      /\ now[n + 1] = item /\ \A k \in 1..n : now[k] = items[k]
  OBVIOUS
<1> HIDE DEF now
<1>2. Uncalled(now, t)
  <2> SUFFICES ASSUME NEW i \in 1..n + 1 PROVE ~(now[i].type = "ToolCall" /\ now[i].tool = t)
    BY <1>1 DEF Uncalled
  <2>1. CASE i = n + 1
    BY <1>1, <2>1
  <2>2. CASE i # n + 1
    <3>1. i \in 1..n
      BY <1>1, <2>2
    <3> QED BY <1>1, <3>1 DEF Uncalled
  <2> QED BY <2>1, <2>2
<1>3. CASE item.type = "ToolCallDelta" /\ item.tool = t
  <2>1. n + 1 \in DOMAIN now /\ \A k \in (n + 1) + 1..Len(now) : FALSE
    BY <1>1
  <2> QED BY <1>1, <1>2, <1>3, <2>1 DEF Latest, now
<1>4. CASE item.type = "Unknown" /\ Latest(items, t)
  <2>1. PICK j \in 1..n : /\ items[j].type = "ToolCallDelta" /\ items[j].tool = t
                          /\ \A k \in j + 1..n : items[k].type = "Unknown"
    BY <1>1, <1>4 DEF Latest
  <2>2. ASSUME NEW k \in j + 1..n + 1 PROVE now[k].type = "Unknown"
    <3>1. CASE k = n + 1
      BY <1>1, <1>4, <3>1
    <3>2. CASE k # n + 1
      <4>1. k \in j + 1..n /\ k \in 1..n
        BY <1>1, <3>2
      <4> QED BY <1>1, <2>1, <4>1
    <3> QED BY <3>1, <3>2
  <2>3. j \in DOMAIN now /\ now[j] = items[j]
    BY <1>1
  <2> QED BY <1>1, <1>2, <2>1, <2>2, <2>3 DEF Latest, now
<1> QED BY <1>3, <1>4

-----------------------------------------------------------------------------
(* The assembler has what was sent, as the response in one piece has it.   *)

\* Nothing can be added to the last part.
Ended(parts) == parts = <<>> \/ Last(parts).type \notin {"Text", "Thinking"}

Matches(s, items) ==
  LET parts == Parts(items)
  IN  \/ Settled(s, parts) /\ (s.final \/ Ended(parts))
      \/ Writing(s, parts) \/ Thinks(s, parts)
      \/ Ended(parts) /\ \E t \in Tools : Calling(s, parts, t) /\ Latest(items, t)

(* What is open is the last part; a call in the making is open by itself. *)
LEMMA MatchesIs ==
  ASSUME NEW s, Ready(s, {}), ~s.final, NEW items \in Seq(ItemSet), Matches(s, items)
  PROVE  LET P == Parts(items)
         IN  /\ P \in Seq(OpenParts)
             /\ \/ Settled(s, P) /\ Ended(P) /\ s.text = Nil /\ s.reasoning = Nil
                \/ /\ Writing(s, P) /\ P # <<>> /\ s.text # Nil /\ s.reasoning = Nil
                   /\ Last(P) = RigText(s.text.text, FALSE)
                \/ /\ Thinks(s, P) /\ P # <<>> /\ s.text = Nil /\ s.reasoning # Nil
                   /\ Last(P) = ThinkingPart(s.reasoning.id, s.reasoning.text)
                   /\ s.reasoning.text # <<>>
                \/ /\ Ended(P) /\ s.text = Nil /\ s.reasoning = Nil
                   /\ \E t \in Tools : Calling(s, P, t) /\ Latest(items, t)
<1> DEFINE P == Parts(items)
<1>1. P \in Seq(OpenParts)
  BY PartsTyped
<1>2. CASE Settled(s, P) /\ Ended(P)
  BY <1>1, <1>2 DEF Settled
<1>3. CASE Writing(s, P)
  BY <1>1, <1>3 DEF Writing, OneOpen
<1>4. CASE Thinks(s, P)
  BY <1>1, <1>4 DEF Thinks, OneOpen
<1>5. CASE Ended(P) /\ \E t \in Tools : Calling(s, P, t) /\ Latest(items, t)
  BY <1>1, <1>5 DEF Calling
<1> QED BY <1>2, <1>3, <1>4, <1>5 DEF Matches

(* An item of no call leaves the call in the making behind. *)
LEMMA CallLeft ==
  ASSUME NEW items \in Seq(ItemSet), NEW s, NEW P,
         \E t \in Tools : Calling(s, P, t) /\ Latest(items, t),
         NEW item \in ItemSet,
         item.type \notin {"ToolCall", "ToolCallDelta", "Unknown"}
  PROVE  Abandoned(Append(items, item))
BY LeftBehind DEF OfTool

(* Text. *)
LEMMA TextMatches ==
  ASSUME NEW s, Ready(s, {}), ~s.final, NEW items \in Seq(ItemSet), Matches(s, items),
         NEW item \in ItemSet, item.type = "Text", ~item.meta
  PROVE  \/ Matches(Handle(s, item), Append(items, item))
         \/ Abandoned(Append(items, item))
<1> DEFINE P == Parts(items)
           text == item.text
           c == CloseReasoning(s)
           r == PushText(c, text)
           Q == Extend(P, item)
           last == IF P = <<>> THEN Gap ELSE Last(P)
<1>1. text \in Texts /\ item.meta = FALSE
  BY TextFields
<1>2. Handle(s, item) = r /\ Parts(Append(items, item)) = Q
  BY PartsMore DEF Handle
<1>3. Q = IF last.type = "Text" THEN Append(Front(P), RigText(last.text \o text, last.meta))
          ELSE Append(P, RigText(text, FALSE))
  <2>1. Q = IF last.type = "Text"
            THEN Append(Front(P), RigText(last.text \o text, last.meta \/ item.meta))
            ELSE Append(P, RigText(text, item.meta))
    BY DEF Extend
  <2>2. last.type = "Text" => last.meta \in BOOLEAN
    <3>1. CASE P = <<>>
      BY <3>1 DEF Gap
    <3>2. CASE P # <<>>
      BY <3>2, PartsTyped, LastPart, OpenPartTypes
    <3> QED BY <3>1, <3>2
  <2>3. last.type = "Text" => (last.meta \/ item.meta) = last.meta
    BY <1>1, <2>2
  <2> HIDE DEF last, Q
  <2> QED BY <1>1, <2>1, <2>3
<1> HIDE DEF Q
<1>4. Ready(c, {}) /\ (s.reasoning = Nil => c = s)
  BY CloseReasoningReady DEF CloseReasoning
<1>5. P \in Seq(OpenParts)
  BY MatchesIs
<1>6. CASE Settled(s, P) /\ Ended(P) /\ s.reasoning = Nil
  <2>1. last.type # "Text"
    BY <1>6 DEF Ended, Gap
  <2> HIDE DEF last, c, P
  <2>2. Writing(r, Q)
    BY <1>1, <1>3, <1>4, <1>5, <1>6, <2>1, PushTextWrites
  <2> QED BY <1>2, <2>2 DEF Matches, P
<1>7. CASE Writing(s, P) /\ P # <<>> /\ s.reasoning = Nil /\ Last(P) = RigText(s.text.text, FALSE)
  <2>1. last.type = "Text" /\ last.text = s.text.text /\ last.meta = FALSE
    BY <1>7 DEF RigText
  <2> HIDE DEF last, c, P
  <2>2. Writing(r, Q)
    BY <1>1, <1>3, <1>4, <1>5, <1>7, <2>1, PushTextWrites
  <2> QED BY <1>2, <2>2 DEF Matches, P
<1>8. CASE /\ Thinks(s, P) /\ P # <<>>
           /\ Last(P) = ThinkingPart(s.reasoning.id, s.reasoning.text)
  <2>1. last.type # "Text"
    BY <1>8 DEF ThinkingPart
  <2>2. Settled(c, P)
    BY <1>5, <1>8, ThinksSettles
  <2> HIDE DEF last, c, P
  <2>3. Writing(r, Q)
    BY <1>1, <1>3, <1>4, <1>5, <2>1, <2>2, PushTextWrites
  <2> QED BY <1>2, <2>3 DEF Matches, P
<1>9. CASE \E t \in Tools : Calling(s, P, t) /\ Latest(items, t)
  BY <1>9, CallLeft
<1> HIDE DEF P
<1>10. \/ Settled(s, P) /\ Ended(P) /\ s.reasoning = Nil
       \/ Writing(s, P) /\ P # <<>> /\ s.reasoning = Nil /\ Last(P) = RigText(s.text.text, FALSE)
       \/ /\ Thinks(s, P) /\ P # <<>>
          /\ Last(P) = ThinkingPart(s.reasoning.id, s.reasoning.text)
       \/ \E t \in Tools : Calling(s, P, t) /\ Latest(items, t)
  BY MatchesIs DEF P
<1> QED BY <1>6, <1>7, <1>8, <1>9, <1>10

(* Reasoning, delta by delta. *)
LEMMA ReasoningDeltaMatches ==
  ASSUME NEW s, Ready(s, {}), ~s.final, NEW items \in Seq(ItemSet), Matches(s, items),
         NEW item \in ItemSet, item.type = "ReasoningDelta"
  PROVE  \/ Matches(Handle(s, item), Append(items, item))
         \/ Abandoned(Append(items, item))
<1> DEFINE P == Parts(items)
           text == item.text
           id == item.id
           c == CloseText(s)
           r == PushReasoningDelta(c, id, text)
           Q == Extend(P, item)
           last == IF P = <<>> THEN Gap ELSE Last(P)
<1>1. text \in Texts /\ id \in ReasoningIds \cup {Nil}
  BY ReasoningFields
<1>2. Handle(s, item) = r /\ Parts(Append(items, item)) = Q
  BY PartsMore DEF Handle
<1>3. Q = IF text = <<>> THEN IF last.type = "Text" THEN Append(P, Gap) ELSE P
          ELSE IF last.type = "Thinking" /\ last.id = id
          THEN Append(Front(P), ThinkingPart(id, last.text \o text))
          ELSE Append(P, ThinkingPart(id, text))
  BY DEF Extend
<1> HIDE DEF Q
<1>4. Ready(c, {}) /\ (s.text = Nil => c = s)
  BY CloseTextReady DEF CloseText
<1>5. P \in Seq(OpenParts)
  BY MatchesIs
<1>6. r = IF text = <<>> THEN c
          ELSE IF c.reasoning # Nil /\ c.reasoning.id # id
          THEN Thought(CloseReasoning(c), id, text)
          ELSE Thought(c, id, text)
  BY DEF PushReasoningDelta, Thought
<1> HIDE DEF r
<1>7. ASSUME Settled(c, P), last.type \notin {"Thinking"},
             text = <<>> => last.type = "Text" \/ Ended(P)
      PROVE  Matches(r, Append(items, item))
  <2>1. CASE text = <<>> /\ last.type = "Text"
    <3>1. Gap \in OpenParts /\ Gap.type = "Gap"
      BY DEF OpenParts, Gap
    <3>2. Rendered(Q) = Rendered(P)
      <4>1. Rendered(Q) = Rendered(P) \o <<>> /\ Rendered(P) \in Seq(Rendering)
        BY <1>3, <1>5, <2>1, <3>1, RenderedMore, RenderedParts
      <4> QED BY <4>1
    <3>3. Ended(Q)
      BY <1>3, <1>5, <2>1, <3>1, AppendedPart DEF Ended
    <3>4. Settled(r, Q)
      BY <1>6, <1>7, <2>1, <3>2 DEF Settled
    <3> QED BY <1>2, <3>3, <3>4 DEF Matches
  <2>2. CASE text = <<>> /\ last.type # "Text"
    <3>1. Q = P /\ r = c
      BY <1>3, <1>6, <2>2
    <3> QED BY <1>2, <1>7, <2>2, <3>1 DEF Matches
  <2>3. CASE text # <<>>
    <3>1. c.reasoning = Nil
      BY <1>7 DEF Settled
    <3>2. r = Thought(c, id, text) /\ Q = Append(P, ThinkingPart(id, text))
      BY <1>3, <1>6, <1>7, <2>3, <3>1
    <3> HIDE DEF c, P, id, text
    <3>3. Thinks(r, Q)
      BY <1>1, <1>4, <1>5, <1>7, <2>3, <3>2, ThoughtThinks
    <3> QED BY <1>2, <3>3 DEF Matches, P
  <2> QED BY <2>1, <2>2, <2>3
<1>8. CASE Settled(s, P) /\ Ended(P) /\ s.text = Nil
  <2>1. last.type \notin {"Text", "Thinking"}
    BY <1>8 DEF Ended, Gap
  <2> HIDE DEF c, last
  <2> QED BY <1>2, <1>4, <1>7, <1>8, <2>1
<1>9. CASE Writing(s, P) /\ P # <<>> /\ Last(P) = RigText(s.text.text, FALSE)
  <2>1. last.type = "Text"
    BY <1>9 DEF RigText
  <2>2. Settled(c, P)
    BY <1>5, <1>9, WritingSettles
  <2> HIDE DEF c, last
  <2> QED BY <1>2, <1>7, <2>1, <2>2
<1>10. CASE /\ Thinks(s, P) /\ P # <<>> /\ s.text = Nil /\ s.reasoning # Nil
            /\ Last(P) = ThinkingPart(s.reasoning.id, s.reasoning.text)
  <2>1. /\ last.type = "Thinking" /\ last.id = s.reasoning.id
        /\ last.text = s.reasoning.text
    BY <1>10 DEF ThinkingPart
  <2>2. c = s
    BY <1>4, <1>10
  <2> HIDE DEF c, last
  <2>3. CASE text = <<>>
    <3>1. r = s /\ Q = P
      BY <1>3, <1>6, <2>1, <2>2, <2>3
    <3> QED BY <1>2, <1>10, <3>1 DEF Matches
  <2>4. CASE text # <<>> /\ s.reasoning.id = id
    <3>1. /\ r = Thought(s, id, text)
          /\ Q = Append(Front(P), ThinkingPart(id, s.reasoning.text \o text))
      BY <1>3, <1>6, <2>1, <2>2, <2>4
    <3> HIDE DEF P, id, text
    <3>2. Thinks(r, Q)
      BY <1>1, <1>5, <1>10, <2>4, <3>1, ThoughtThinks
    <3> QED BY <1>2, <3>2 DEF Matches, P
  <2>5. CASE text # <<>> /\ s.reasoning.id # id
    <3> DEFINE d == CloseReasoning(s)
    <3>1. r = Thought(d, id, text) /\ Q = Append(P, ThinkingPart(id, text))
      BY <1>3, <1>6, <1>10, <2>1, <2>2, <2>5
    <3>2. Ready(d, {}) /\ Settled(d, P)
      BY <1>5, <1>10, CloseReasoningReady, ThinksSettles
    <3> HIDE DEF P, id, text, d
    <3>3. Thinks(r, Q)
      BY <1>1, <1>5, <2>5, <3>1, <3>2, ThoughtThinks
    <3> QED BY <1>2, <3>3 DEF Matches, P
  <2> QED BY <2>3, <2>4, <2>5
<1>11. CASE \E t \in Tools : Calling(s, P, t) /\ Latest(items, t)
  BY <1>11, CallLeft
<1> HIDE DEF P
<1>12. \/ Settled(s, P) /\ Ended(P) /\ s.text = Nil
       \/ Writing(s, P) /\ P # <<>> /\ Last(P) = RigText(s.text.text, FALSE)
       \/ /\ Thinks(s, P) /\ P # <<>> /\ s.text = Nil /\ s.reasoning # Nil
          /\ Last(P) = ThinkingPart(s.reasoning.id, s.reasoning.text)
       \/ \E t \in Tools : Calling(s, P, t) /\ Latest(items, t)
  BY MatchesIs DEF P
<1> QED BY <1>8, <1>9, <1>10, <1>11, <1>12

(* A complete reasoning item that repeats what it completes. *)
LEMMA ReasoningMatches ==
  ASSUME NEW s, Ready(s, {}), ~s.final, NEW items \in Seq(ItemSet), Matches(s, items),
         NEW item \in ItemSet, item.type = "Reasoning",
         Parts(items) # <<>> /\ Last(Parts(items)).type = "Thinking" =>
           Last(Parts(items)).text = item.reasoning.text
  PROVE  \/ Matches(Handle(s, item), Append(items, item))
         \/ Abandoned(Append(items, item))
<1> DEFINE P == Parts(items)
           v == item.reasoning
           rig == RigReasoning(v)
           c == CloseText(s)
           r == CompleteReasoning(c, v)
           Q == Extend(P, item)
           last == IF P = <<>> THEN Gap ELSE Last(P)
<1>1. v \in Reasonings
  BY ReasoningFields
<1>2. Handle(s, item) = r /\ Parts(Append(items, item)) = Q
  BY PartsMore DEF Handle
<1>3. Q = IF last.type = "Thinking" THEN Append(Front(P), rig)
          ELSE IF EmptyReasoning(v) THEN IF last.type = "Text" THEN Append(P, Gap) ELSE P
          ELSE Append(P, rig)
  BY DEF Extend
<1> HIDE DEF Q
<1>4. Ready(c, {}) /\ (s.text = Nil => c = s)
  BY CloseTextReady DEF CloseText
<1>5. P \in Seq(OpenParts) /\ rig \in OpenParts /\ rig.type = "Reasoning"
  BY <1>1, MatchesIs DEF OpenParts, RigParts, RigReasoning
<1>6. ASSUME Settled(c, P), last.type # "Thinking", last.type = "Text" \/ Ended(P)
      PROVE  Matches(r, Append(items, item))
  <2>1. CASE EmptyReasoning(v)
    <3>1. r = c
      BY <1>6, <2>1 DEF CompleteReasoning, Settled
    <3>2. CASE last.type = "Text"
      <4>1. Gap \in OpenParts /\ Gap.type = "Gap"
        BY DEF OpenParts, Gap
      <4>2. Rendered(Q) = Rendered(P)
        <5>1. Rendered(Q) = Rendered(P) \o <<>> /\ Rendered(P) \in Seq(Rendering)
          BY <1>3, <1>5, <2>1, <3>2, <4>1, RenderedMore, RenderedParts
        <5> QED BY <5>1
      <4>3. Ended(Q)
        BY <1>3, <1>5, <2>1, <3>2, <4>1, AppendedPart DEF Ended
      <4>4. Settled(r, Q)
        BY <1>6, <3>1, <4>2 DEF Settled
      <4> QED BY <1>2, <4>3, <4>4 DEF Matches
    <3>3. CASE last.type # "Text"
      <4>1. Q = P
        BY <1>3, <1>6, <2>1, <3>3
      <4> QED BY <1>2, <1>6, <3>1, <3>3, <4>1 DEF Matches
    <3> QED BY <3>2, <3>3
  <2>2. CASE ~EmptyReasoning(v)
    <3>1. Q = Append(P, rig)
      BY <1>3, <1>6, <2>2
    <3>2. Settled(r, Q)
      <4> HIDE DEF c, P, v
      <4> QED BY <1>1, <1>4, <1>5, <1>6, <2>2, <3>1, CompleteReasoningSettles
    <3>3. Ended(Q)
      BY <1>5, <3>1, AppendedPart DEF Ended
    <3> QED BY <1>2, <3>2, <3>3 DEF Matches
  <2> QED BY <2>1, <2>2
<1>7. CASE Settled(s, P) /\ Ended(P) /\ s.text = Nil
  <2>1. last.type \notin {"Text", "Thinking"}
    BY <1>7 DEF Ended, Gap
  <2> HIDE DEF c, last
  <2> QED BY <1>2, <1>4, <1>6, <1>7, <2>1
<1>8. CASE Writing(s, P) /\ P # <<>> /\ Last(P) = RigText(s.text.text, FALSE)
  <2>1. last.type = "Text"
    BY <1>8 DEF RigText
  <2>2. Settled(c, P)
    BY <1>5, <1>8, WritingSettles
  <2> HIDE DEF c, last
  <2> QED BY <1>2, <1>6, <2>1, <2>2
<1>9. CASE /\ Thinks(s, P) /\ P # <<>> /\ s.text = Nil /\ s.reasoning.text # <<>>
           /\ Last(P) = ThinkingPart(s.reasoning.id, s.reasoning.text)
  <2>1. last.type = "Thinking" /\ Last(P).type = "Thinking" /\ Last(P).text = s.reasoning.text
    BY <1>9 DEF ThinkingPart
  <2>2. ~EmptyReasoning(v)
    BY <1>9, <2>1 DEF EmptyReasoning
  <2>3. c = s /\ Q = Append(Front(P), rig)
    BY <1>3, <1>4, <1>9, <2>1
  <2>4. Settled(r, Q)
    <3> HIDE DEF c, P, v
    <3> QED BY <1>1, <1>4, <1>5, <1>9, <2>2, <2>3, CompleteReasoningSettles
  <2>5. Ended(Q)
    <3>1. Front(P) \in Seq(OpenParts)
      BY <1>5, <1>9, LastPart
    <3> HIDE DEF P, rig
    <3> QED BY <1>5, <2>3, <3>1, AppendedPart DEF Ended
  <2> QED BY <1>2, <2>4, <2>5 DEF Matches
<1>10. CASE \E t \in Tools : Calling(s, P, t) /\ Latest(items, t)
  BY <1>10, CallLeft
<1> HIDE DEF P
<1>11. \/ Settled(s, P) /\ Ended(P) /\ s.text = Nil
       \/ Writing(s, P) /\ P # <<>> /\ Last(P) = RigText(s.text.text, FALSE)
       \/ /\ Thinks(s, P) /\ P # <<>> /\ s.text = Nil /\ s.reasoning.text # <<>>
          /\ Last(P) = ThinkingPart(s.reasoning.id, s.reasoning.text)
       \/ \E t \in Tools : Calling(s, P, t) /\ Latest(items, t)
  BY MatchesIs DEF P
<1> QED BY <1>7, <1>8, <1>9, <1>10, <1>11

(* The items of a call: it is the one in the making, or a new one. *)
LEMMA CallIsNext ==
  ASSUME NEW s, Ready(s, {}), ~s.final, NEW items \in Seq(ItemSet), Matches(s, items),
         DOMAIN s.tools = ToolsOf(items), NEW item \in ItemSet,
         item.type \in {"ToolCall", "ToolCallDelta"}, ~Rejects(s, item)
  PROVE  LET t == item.tool
             q == Quiet(s)
         IN  \/ Abandoned(Append(items, item))
             \/ Calling(EnsureTool(q, t), Parts(items), t) /\ Uncalled(items, t)
<1> DEFINE t == item.tool
           q == Quiet(s)
           P == Parts(items)
<1>1. t \in Tools
  BY DeltaFields, ToolCallFields
<1>2. /\ Ready(q, {}) /\ q.tools = s.tools
  BY QuietReady, FieldsAre DEF Same
<1>3. P \in Seq(OpenParts)
  BY PartsTyped
<1>4. t \in DOMAIN s.tools => ~s.tools[t].completed
  <2>1. CASE item.type = "ToolCallDelta"
    BY <2>1 DEF Rejects, BadDelta
  <2>2. CASE item.type = "ToolCall"
    BY <2>2 DEF Rejects, BadCall, EnsureTool
  <2> QED BY <2>1, <2>2
<1>5. CASE AtRest(s, P)
  <2>1. Settled(q, P)
    BY <1>3, <1>5, QuietSettles
  <2>2. t \notin DOMAIN s.tools
    BY <1>2, <1>4, <2>1 DEF Settled, AllComplete
  <2>3. Uncalled(items, t)
    BY <2>2 DEF ToolsOf, Uncalled
  <2> HIDE DEF q, P, t
  <2>4. Calling(EnsureTool(q, t), P, t)
    BY <1>1, <1>2, <1>3, <2>1, <2>2, EnsureToolCalls
  <2> QED BY <2>3, <2>4 DEF q, P, t
<1>6. ASSUME NEW u \in Tools, Calling(s, P, u), Latest(items, u)
      PROVE  \/ Abandoned(Append(items, item))
             \/ Calling(EnsureTool(q, t), P, t) /\ Uncalled(items, t)
  <2>1. CASE u = t
    <3>1. q = s
      BY <1>6 DEF Quiet, CloseText, CloseReasoning, Calling
    <3> HIDE DEF q, P, t
    <3>2. Calling(EnsureTool(q, t), P, t)
      BY <1>1, <1>2, <1>3, <1>6, <2>1, <3>1, EnsureToolCalls
    <3> QED BY <1>6, <2>1, <3>2 DEF Latest
  <2>2. CASE u # t
    <3>1. ~OfTool(item, u)
      BY <2>2 DEF OfTool
    <3> QED BY <1>6, <3>1, LeftBehind
  <2> QED BY <2>1, <2>2
<1> HIDE DEF q, P, t
<1>7. AtRest(s, P) \/ \E u \in Tools : Calling(s, P, u) /\ Latest(items, u)
  BY MatchesIs DEF AtRest, P
<1> QED BY <1>5, <1>6, <1>7 DEF q, P, t

(* A delta of a call. *)
LEMMA DeltaMatches ==
  ASSUME NEW s, Ready(s, {}), ~s.final, NEW items \in Seq(ItemSet), Matches(s, items),
         DOMAIN s.tools = ToolsOf(items), NEW item \in ItemSet,
         item.type = "ToolCallDelta", ~Rejects(s, item)
  PROVE  \/ Matches(Handle(s, item), Append(items, item))
         \/ Abandoned(Append(items, item))
<1> DEFINE P == Parts(items)
           t == item.tool
           q == Quiet(s)
           r == PushToolDelta(q, t, item.part, item.atom)
           Q == Append(P, Gap)
<1> SUFFICES ASSUME ~Abandoned(Append(items, item))
             PROVE  Matches(Handle(s, item), Append(items, item))
  OBVIOUS
<1>1. t \in Tools /\ item.part \in {"name", "args"} /\ item.atom \in Atoms
  BY DeltaFields
<1>2. Handle(s, item) = r /\ Parts(Append(items, item)) = Q
  BY PartsMore DEF Handle, Extend
<1>3. Ready(q, {}) /\ P \in Seq(OpenParts) /\ Gap \in OpenParts /\ Gap.type = "Gap"
  BY QuietReady, PartsTyped DEF OpenParts, Gap
<1>4. Calling(EnsureTool(q, t), P, t) /\ Uncalled(items, t)
  BY CallIsNext
<1>5. Calling(r, P, t)
  <2> HIDE DEF q, P, t
  <2> QED BY <1>1, <1>3, <1>4, PushToolDeltaCalls
<1> HIDE DEF q, r, P
<1>6. Rendered(Q) = Rendered(P)
  <2>1. Rendered(Q) = Rendered(P) \o <<>> /\ Rendered(P) \in Seq(Rendering)
    BY <1>3, RenderedMore, RenderedParts
  <2> QED BY <2>1
<1>7. Ended(Q)
  BY <1>3, AppendedPart DEF Ended
<1> HIDE DEF Q
<1>8. Calling(r, Q, t)
  BY <1>5, <1>6 DEF Calling
<1>9. Latest(Append(items, item), t)
  BY <1>4, StillLatest
<1> QED BY <1>1, <1>2, <1>7, <1>8, <1>9 DEF Matches

(* A complete call. *)
LEMMA CallMatches ==
  ASSUME NEW s, Ready(s, {}), ~s.final, NEW items \in Seq(ItemSet), Matches(s, items),
         DOMAIN s.tools = ToolsOf(items), NEW item \in ItemSet,
         item.type = "ToolCall", item.wire # Nil, ~Rejects(s, item)
  PROVE  \/ Matches(Handle(s, item), Append(items, item))
         \/ Abandoned(Append(items, item))
<1> DEFINE P == Parts(items)
           t == item.tool
           q == Quiet(s)
           r == CompleteTool(q, item)
           rig == RigCall([id |-> item.wire, name |-> item.name, args |-> item.args],
                          item.meta)
           Q == Append(P, rig)
<1> SUFFICES ASSUME ~Abandoned(Append(items, item))
             PROVE  Matches(Handle(s, item), Append(items, item))
  OBVIOUS
<1>1. Handle(s, item) = r /\ Parts(Append(items, item)) = Q
  BY PartsMore DEF Handle, Extend
<1>2. Ready(q, {}) /\ P \in Seq(OpenParts) /\ rig.type = "ToolCall"
  BY QuietReady, PartsTyped DEF RigCall
<1>3. Calling(EnsureTool(q, t), P, t)
  BY CallIsNext
<1>4. ~BadCall(q, item)
  <2>1. ~BadCall(s, item)
    BY DEF Rejects
  <2>2. q.tools = s.tools /\ q.used = s.used /\ q.next = s.next
    BY QuietReady, FieldsAre DEF Same
  <2>3. DOMAIN s = Fields /\ DOMAIN q = Fields
    BY <1>2 DEF Ready, Typed
  <2> HIDE DEF q
  <2>4. /\ EnsureTool(q, item.tool).tools = EnsureTool(s, item.tool).tools
        /\ EnsureTool(q, item.tool).used = EnsureTool(s, item.tool).used
    BY <2>2, <2>3, FieldsAre DEF EnsureTool, Allocate
  <2> QED BY <2>1, <2>4 DEF BadCall, Contradicts
<1> HIDE DEF q, P
<1>5. Settled(r, Q)
  BY <1>2, <1>3, <1>4, CompleteToolSettles
<1> HIDE DEF rig
<1>6. Ended(Q)
  BY <1>2, AppendedPart DEF Ended
<1> QED BY <1>1, <1>5, <1>6 DEF Matches

(* The final item, and an item that means nothing. *)
LEMMA SilentMatches ==
  ASSUME NEW s, Ready(s, {}), ~s.final, NEW items \in Seq(ItemSet), Matches(s, items),
         NEW item \in ItemSet, item.type \in {"Final", "Unknown"}
  PROVE  \/ Matches(Handle(s, item), Append(items, item))
         \/ Abandoned(Append(items, item))
<1> DEFINE P == Parts(items)
<1>1. P \in Seq(OpenParts) /\ Parts(Append(items, item)) = P
  BY PartsTyped, PartsMore DEF Extend
<1>2. CASE item.type = "Final"
  <2> DEFINE q == Quiet(s)
             r == [q EXCEPT !.usage = item.usage, !.stop = item.stop, !.final = TRUE]
  <2>1. Handle(s, item) = r
    BY <1>2 DEF Handle
  <2>2. CASE AtRest(s, P)
    <3>1. Settled(q, P) /\ DOMAIN q = Fields
      BY <1>1, <2>2, QuietSettles, QuietReady DEF Same
    <3> HIDE DEF q
    <3>2. /\ r.text = q.text /\ r.reasoning = q.reasoning /\ r.next = q.next
          /\ r.content = q.content /\ r.tools = q.tools /\ r.final = TRUE
      BY <3>1, FieldsAre
    <3> HIDE DEF r
    <3>3. Settled(r, P)
      BY <3>1, <3>2, KeptSame DEF Settled, AllComplete
    <3> QED BY <1>1, <2>1, <3>2, <3>3 DEF Matches
  <2>3. CASE \E t \in Tools : Calling(s, P, t) /\ Latest(items, t)
    BY <1>2, <2>3, CallLeft
  <2> HIDE DEF q, P, r
  <2>4. AtRest(s, P) \/ \E t \in Tools : Calling(s, P, t) /\ Latest(items, t)
    BY MatchesIs DEF AtRest, P
  <2> QED BY <2>2, <2>3, <2>4
<1>3. CASE item.type = "Unknown"
  <2> DEFINE r == Emit(s, <<ProviderEvent("unknown_stream_item")>>)
  <2>1. Handle(s, item) = r
    BY <1>3 DEF Handle
  <2>2. DOMAIN s = Fields
    BY DEF Ready, Typed
  <2>3. Same(r, s, {"pending"})
    BY <2>2, EmitIs
  <2> HIDE DEF r, P
  <2>4. /\ r.text = s.text /\ r.reasoning = s.reasoning /\ r.next = s.next
        /\ r.content = s.content /\ r.tools = s.tools /\ r.final = s.final
    BY <2>3, FieldsAre DEF Same
  <2>5. Settled(s, P) => Settled(r, P)
    BY <2>4, KeptSame DEF Settled, AllComplete
  <2>6. Writing(s, P) => Writing(r, P)
    BY <2>4, KeptSame DEF Writing, OneOpen, AllComplete
  <2>7. Thinks(s, P) => Thinks(r, P)
    BY <2>4, KeptSame DEF Thinks, OneOpen, AllComplete
  <2>8. \A t : Calling(s, P, t) => Calling(r, P, t)
    BY <2>4, KeptSame DEF Calling
  <2>9. ASSUME NEW t, Latest(items, t) PROVE Latest(Append(items, item), t)
    <3>1. Uncalled(items, t)
      BY <2>9 DEF Latest
    <3> QED BY <1>3, <2>9, <3>1, StillLatest
  <2> QED BY <1>1, <2>1, <2>4, <2>5, <2>6, <2>7, <2>8, <2>9 DEF Matches, P
<1> QED BY <1>2, <1>3

(* handle_item, for items in order. *)
LEMMA HandleMatches ==
  ASSUME NEW s, Ready(s, {}), NEW items \in Seq(ItemSet), Carried(s, items),
         NEW item \in ItemSet, ~Rejects(s, item), InOrder(Append(items, item)),
         Matches(s, items) \/ Abandoned(items)
  PROVE  \/ Matches(Handle(s, item), Append(items, item))
         \/ Abandoned(Append(items, item))
<1>1. CASE Abandoned(items)
  BY <1>1, AbandonedStays DEF InOrder
<1>2. CASE Matches(s, items)
  <2>1. ~s.final /\ DOMAIN s.tools = ToolsOf(items)
    BY DEF Rejects, Carried, CallsCarried
  <2>2. /\ item.type = "ToolCall" => item.wire # Nil
        /\ item.type = "Text" => ~item.meta
        /\ item.type = "Reasoning" /\ Parts(items) # <<>> /\ Last(Parts(items)).type = "Thinking" =>
             Last(Parts(items)).text = item.reasoning.text
    BY InOrderBefore
  <2>3. CASE item.type = "Text"
    BY <1>2, <2>1, <2>2, <2>3, TextMatches
  <2>4. CASE item.type = "ToolCallDelta"
    BY <1>2, <2>1, <2>4, DeltaMatches
  <2>5. CASE item.type = "ToolCall"
    BY <1>2, <2>1, <2>2, <2>5, CallMatches
  <2>6. CASE item.type = "Reasoning"
    BY <1>2, <2>1, <2>2, <2>6, ReasoningMatches
  <2>7. CASE item.type = "ReasoningDelta"
    BY <1>2, <2>1, <2>7, ReasoningDeltaMatches
  <2>8. CASE item.type \in {"Final", "Unknown"}
    BY <1>2, <2>1, <2>8, SilentMatches
  <2> QED BY <2>3, <2>4, <2>5, <2>6, <2>7, <2>8, ItemTypes
<1> QED BY <1>1, <1>2

(* finish_stream: the response is the one in one piece. *)
LEMMA FinishMatches ==
  ASSUME NEW s, Ready(s, {}), s.final => s.text = Nil /\ s.reasoning = Nil,
         ~Incomplete(s), NEW items \in Seq(ItemSet), Carried(s, items),
         Matches(s, items) \/ Abandoned(items)
  PROVE  ContentOf(s) = Rendered(Parts(items))
<1> DEFINE P == Parts(items)
           content == ContentOf(s)
           n == s.next
<1>1. /\ n \in Nat /\ \A t \in DOMAIN s.tools : s.tools[t].completed
      /\ content \in Seq(AssistantParts) /\ Len(content) = n /\ DOMAIN content = 1..n
      /\ \A k \in 1..n : content[k] = s.content[k - 1]
  BY CompleteIsWhole
<1>2. s.text = Nil /\ s.reasoning = Nil
  BY DEF Incomplete
<1>3. ASSUME Abandoned(items) PROVE FALSE
  <2>1. PICK j \in DOMAIN items :
          items[j].type = "ToolCallDelta" /\ Uncalled(items, items[j].tool)
    BY <1>3 DEF Abandoned
  <2> DEFINE t == items[j].tool
  <2>2. t \in ToolsOf(items)
    BY <2>1 DEF ToolsOf
  <2>3. t \in DOMAIN s.tools /\ s.tools[t].completed
    BY <1>1, <2>2 DEF Carried, CallsCarried
  <2>4. Answered(s, t, items)
    BY <2>3 DEF Carried, CallsCarried
  <2>5. \E i \in DOMAIN items : items[i].type = "ToolCall" /\ items[i].tool = t
    BY <2>4 DEF Answered
  <2> QED BY <2>1, <2>5 DEF Uncalled
<1>4. Settled(s, P)
  <2>1. ~Writing(s, P) /\ ~Thinks(s, P) /\ \A t : ~Calling(s, P, t)
    BY <1>1, <1>2 DEF Writing, Thinks, Calling
  <2> QED BY <1>3, <2>1 DEF Matches
<1> HIDE DEF content, n
<1>5. P \in Seq(OpenParts)
  BY PartsTyped
<1> HIDE DEF P
<1> DEFINE whole == Rendered(P)
<1>6. whole \in Seq(Rendering)
  <2>1. Gap \in OpenParts
    BY DEF OpenParts, Gap
  <2> QED BY <1>5, <2>1, RenderedMore
<1>7. Len(whole) = n /\ Kept(s, whole)
  BY <1>4 DEF Settled, n
<1> HIDE DEF whole
<1>8. DOMAIN whole = 1..n
  BY <1>6, <1>7
<1>9. \A k \in 1..n : content[k] = whole[k]
  BY <1>1, <1>7, <1>8 DEF Kept
<1>10. content = whole
  BY <1>1, <1>6, <1>7, <1>8, <1>9
<1> QED BY <1>10 DEF content, whole, P

-----------------------------------------------------------------------------
(* The response is the one in one piece: the invariant.                    *)

\* The content of the response in one piece.
InOnePiece(items) == Rendered(Parts(items))

(* If what was sent is in order, the assembler has what the response in one
   piece has, or a call was begun that will never complete; then the response
   that waits is that response, then the one the consumer has. *)
Alike ==
  InOrder(sent) =>
    /\ ~asm.finished /\ ~asm.failed => Matches(asm, sent) \/ Abandoned(sent)
    /\ \A k \in DOMAIN asm.pending :
         asm.pending[k].type = "ResponseCompleted"
           => asm.pending[k].content = InOnePiece(sent)
    /\ outcome = "completed" => event.content = InOnePiece(sent)

(* The call starts alike: nothing sent, nothing open, nothing kept. *)
LEMMA InitAlike == Init => Alike
<1> SUFFICES ASSUME Init PROVE Alike
  OBVIOUS
<1>1. asm = NewState /\ sent = <<>> /\ outcome # "completed"
  BY DEF Init
<1>2. Parts(<<>>) = <<>> /\ Rendered(<<>>) = <<>>
  BY PartsNothing, WholeNothing, ContentNothing DEF Rendered
<1>3. Settled(NewState, <<>>)
  BY <1>2, NewStateIs DEF Settled, AllComplete, Kept
<1>4. Matches(asm, sent)
  BY <1>1, <1>2, <1>3 DEF Matches, Ended
<1>5. \A k \in DOMAIN asm.pending : asm.pending[k].type # "ResponseCompleted"
  BY <1>1, NewStateIs DEF ResponseStarted
<1> QED BY <1>1, <1>4, <1>5 DEF Alike

(* A stream that fails has nothing more to tell. *)
LEMMA InterruptAlike ==
  ASSUME CallInv, Interrupt
  PROVE  Alike'
<1>1. DOMAIN asm = Fields
  BY DEF CallInv, Assembled, Typed
<1>2. asm'.pending = <<>> /\ asm'.failed = TRUE /\ outcome' = "failed"
  BY <1>1, FieldsAre DEF Interrupt
<1> QED BY <1>2 DEF Alike

(* An item is handled as the response in one piece takes it. *)
LEMMA PullAlike ==
  ASSUME CallInv, Keeping, Alike, NEW item \in Items, Pull(item)
  PROVE  Alike'
<1>1. /\ Pulling /\ sent' = Append(sent, item) /\ ~Rejects(asm, item)
      /\ asm' = Handle(asm, item) /\ outcome' = outcome
  BY DEF Pull, contractVars
<1>2. /\ Ready(asm, {}) /\ ~asm.finished /\ ~asm.failed
      /\ handle = "open" /\ ~Exhausted
  BY <1>1, PullingReady
<1>3. item \in ItemSet /\ sent \in Seq(ItemSet)
  BY ItemsAssumption, SeqMonotone DEF CallInv, TypeOK
<1>4. asm'.pending \in Seq(Previews)
  BY <1>1, <1>2, <1>3, HandleReady DEF Handled, Ready
<1>5. \A k \in DOMAIN asm'.pending : asm'.pending[k].type # "ResponseCompleted"
  BY <1>4, PreviewsAreNoResponses
<1>6. outcome' # "completed"
  BY <1>1, <1>2, OpenHasNoRecord
<1>7. ASSUME InOrder(sent') PROVE Matches(asm', sent') \/ Abandoned(sent')
  <2>1. InOrder(sent)
    BY <1>1, <1>3, <1>7, InOrderBefore
  <2>2. Carried(asm, sent) /\ (Matches(asm, sent) \/ Abandoned(sent))
    BY <1>2, <2>1 DEF Keeping, Alike
  <2> QED BY <1>1, <1>2, <1>3, <1>7, <2>2, HandleMatches
<1> QED BY <1>5, <1>6, <1>7 DEF Alike

(* The response is made: it is the one in one piece. *)
LEMMA ProviderEndsAlike ==
  ASSUME CallInv, Keeping, Alike, ProviderEnds
  PROVE  Alike'
<1> DEFINE content == ContentOf(asm)
           response == ResponseCompleted(content, asm.stop)
           usage == IF asm.usage THEN <<Usage>> ELSE <<>>
<1>1. /\ Pulling /\ ~Incomplete(asm) /\ asm' = FinishStream(asm)
      /\ sent' = sent /\ outcome' = outcome
  BY DEF ProviderEnds, contractVars
<1>2. /\ Ready(asm, {}) /\ (asm.final => asm.text = Nil /\ asm.reasoning = Nil)
      /\ ~asm.finished /\ ~asm.failed /\ asm.pending = <<>>
      /\ handle = "open" /\ ~Exhausted
  BY <1>1, PullingReady
<1>3. DOMAIN asm = Fields /\ sent \in Seq(ItemSet)
  BY <1>2, ItemsAssumption, SeqMonotone DEF Ready, Typed, CallInv, TypeOK
<1>4. asm'.finished = TRUE /\ asm'.pending = <<>> \o (usage \o <<response>>)
  BY <1>1, <1>2, <1>3, FieldsAre DEF FinishStream, Emit, ContentOf
<1>5. InOrder(sent) => content = InOnePiece(sent)
  BY <1>1, <1>2, <1>3, FinishMatches DEF Keeping, Alike, InOnePiece
<1> HIDE DEF content
<1>6. response.content = content
  BY DEF ResponseCompleted
<1> HIDE DEF response
<1>7. \A k \in DOMAIN asm'.pending :
        asm'.pending[k].type = "ResponseCompleted" => asm'.pending[k] = response
  <2>1. Usage.type # "ResponseCompleted"
    BY DEF Usage
  <2> DEFINE events == usage \o <<response>>
  <2>2. ASSUME NEW k \in DOMAIN events PROVE events[k] \in {Usage, response}
    BY <2>2
  <2>3. asm'.pending = events
    BY <1>4
  <2> HIDE DEF events
  <2> QED BY <2>1, <2>2, <2>3
<1>8. outcome' # "completed"
  BY <1>1, <1>2, OpenHasNoRecord
<1> QED BY <1>1, <1>4, <1>5, <1>6, <1>7, <1>8 DEF Alike

(* What is pending is nothing to what was sent. *)
LEMMA PendingMatches ==
  ASSUME NEW s, NEW r, NEW items, Matches(s, items),
         r.text = s.text, r.reasoning = s.reasoning, r.next = s.next,
         r.content = s.content, r.tools = s.tools, r.final = s.final
  PROVE  Matches(r, items)
<1> DEFINE P == Parts(items)
<1>1. Settled(s, P) => Settled(r, P)
  BY KeptSame DEF Settled, AllComplete
<1>2. Writing(s, P) => Writing(r, P)
  BY KeptSame DEF Writing, OneOpen, AllComplete
<1>3. Thinks(s, P) => Thinks(r, P)
  BY KeptSame DEF Thinks, OneOpen, AllComplete
<1>4. \A t : Calling(s, P, t) => Calling(r, P, t)
  BY KeptSame DEF Calling
<1> QED BY <1>1, <1>2, <1>3, <1>4 DEF Matches

(* What waits is handed out: the response as it is. *)
LEMMA DeliveryAlike ==
  ASSUME CallInv, Alike, Deliver \/ DeliverResponse \/ RefuseResponse
  PROVE  Alike'
<1> DEFINE e == Head(asm.pending)
<1>1. Delivering(e)
  BY DEF Deliver, DeliverResponse, RefuseResponse
<1>2. /\ asm.pending # <<>> /\ asm' = [asm EXCEPT !.pending = Tail(asm.pending)]
      /\ sent' = sent
  BY <1>1 DEF Delivering
<1>3. DOMAIN asm = Fields /\ asm.pending \in Seq(Previews \cup Responses)
  BY DEF CallInv, Assembled, Typed
<1>4. /\ asm'.pending = Tail(asm.pending) /\ asm'.tools = asm.tools
      /\ asm'.finished = asm.finished /\ asm'.failed = asm.failed
      /\ asm'.content = asm.content /\ asm'.text = asm.text /\ asm'.next = asm.next
      /\ asm'.reasoning = asm.reasoning /\ asm'.final = asm.final
  BY <1>2, <1>3, FieldsAre
<1>5. ~Exhausted /\ outcome = "open"
  <2> HIDE DEF e
  <2> QED BY <1>1, DeliveringKeeps, OpenHasNoRecord
<1> SUFFICES ASSUME InOrder(sent)
             PROVE  /\ ~asm.finished /\ ~asm.failed => Matches(asm', sent) \/ Abandoned(sent)
                    /\ \A k \in DOMAIN asm'.pending :
                         asm'.pending[k].type = "ResponseCompleted"
                           => asm'.pending[k].content = InOnePiece(sent)
                    /\ outcome' = "completed" => event'.content = InOnePiece(sent)
  BY <1>2, <1>4 DEF Alike
<1>6. ~asm.finished /\ ~asm.failed => Matches(asm', sent) \/ Abandoned(sent)
  BY <1>4, PendingMatches DEF Alike
<1>7. ASSUME NEW k \in DOMAIN asm'.pending, asm'.pending[k].type = "ResponseCompleted"
      PROVE  asm'.pending[k].content = InOnePiece(sent)
  <2>1. k + 1 \in DOMAIN asm.pending /\ asm'.pending[k] = asm.pending[k + 1]
    BY <1>2, <1>3, <1>4
  <2> QED BY <1>7, <2>1 DEF Alike
<1>8. ASSUME outcome' = "completed" PROVE event'.content = InOnePiece(sent)
  <2>1. event' = e /\ e.type = "ResponseCompleted"
    BY <1>5, <1>8 DEF Deliver, DeliverResponse, RefuseResponse
  <2>2. 1 \in DOMAIN asm.pending /\ asm.pending[1] = e
    BY <1>2, <1>3
  <2> HIDE DEF e
  <2> QED BY <2>1, <2>2 DEF Alike
<1> QED BY <1>6, <1>7, <1>8

(* Every step stays alike. *)
LEMMA StepAlike == CallInv /\ Keeping /\ Alike /\ [Next]_vars => Alike'
<1> SUFFICES ASSUME CallInv, Keeping, Alike, [Next]_vars PROVE Alike'
  OBVIOUS
<1>1. CASE Connect \/ ConnectFails
  BY <1>1 DEF Connect, ConnectFails, Alike
<1>2. CASE Provide
  <2>1. ASSUME NEW item \in Items, PullBad(item) PROVE Alike'
    BY <2>1, InterruptAlike DEF PullBad
  <2>2. CASE ProviderFails \/ ProviderEndsEarly
    BY <2>2, InterruptAlike DEF ProviderFails, ProviderEndsEarly
  <2> QED BY <1>2, <2>1, <2>2, PullAlike, ProviderEndsAlike DEF Provide
<1>3. CASE Deliver \/ DeliverResponse \/ RefuseResponse
  BY <1>3, DeliveryAlike
<1>4. CASE End \/ Drop
  BY <1>4 DEF End, Drop, contractVars, Alike
<1>5. CASE UNCHANGED vars
  BY <1>5 DEF vars, Alike
<1> QED BY <1>1, <1>2, <1>3, <1>4, <1>5 DEF Next, Poll

\* No text came with metadata: rig_stream keeps it with the text in one piece,
\* the assembler only reports it as an event and leaves the content without.
WithoutNotes(items) == \A k \in DOMAIN items : items[k].type = "Text" => ~items[k].meta

\* From a provider that sends one thing at a time, does not contradict itself,
\* gives every call an id and sends no metadata with text, the streamed response
\* has the structure of the one it gives in one piece, whatever is sent, in
\* whatever order, and however many items.
THEOREM StreamedIsWhole == Spec => [](WithoutNotes(sent) => StreamedEqualsWhole)
<1>1. Keeping /\ Alike /\ CallInv /\ [Next]_vars => (Keeping /\ Alike)'
  BY StepKeeping, StepAlike
<1>2. Keeping /\ Alike => (WithoutNotes(sent) => StreamedEqualsWhole)
  <2>1. AssistantContentFromRig(Whole(sent)) = InOnePiece(sent)
    BY DEF Whole, WholeOf, Rendered, InOnePiece
  <2> QED BY <2>1 DEF Alike, InOrder, WithoutNotes, StreamedEqualsWhole
<1> QED BY <1>1, <1>2, InitKeeping, InitAlike, CallAlways, PTL DEF Spec

-----------------------------------------------------------------------------
(* The metadata of calls in the content.                                   *)

IsNote(part) == part.kind = "ProviderData" /\ part.data = "tool_call_metadata"

\* Nothing kept changes, and what is new is no metadata.
NoNewNotes(r, s) ==
  /\ \A i \in DOMAIN s.content : i \in DOMAIN r.content /\ r.content[i] = s.content[i]
  /\ \A i \in DOMAIN r.content : IsNote(r.content[i]) => i \in DOMAIN s.content

(* One after the other. *)
LEMMA NoNewNotesOn ==
  ASSUME NEW q, NEW r, NEW s, NoNewNotes(r, s), NoNewNotes(q, r)
  PROVE  NoNewNotes(q, s)
BY DEF NoNewNotes

(* Text or reasoning is kept. *)
LEMMA KeptIsNoNote ==
  ASSUME NEW s, NEW r, NEW i, i \notin DOMAIN s.content, NEW part, ~IsNote(part),
         r.content = Put(s.content, i, part)
  PROVE  NoNewNotes(r, s)
<1>1. /\ DOMAIN r.content = DOMAIN s.content \cup {i} /\ r.content[i] = part
      /\ \A k \in DOMAIN s.content : r.content[k] = s.content[k]
  BY DEF Put
<1> QED BY <1>1 DEF NoNewNotes

(* Closing text. *)
LEMMA CloseTextNotes ==
  ASSUME NEW s, Ready(s, {})
  PROVE  NoNewNotes(CloseText(s), s)
<1>1. CASE s.text = Nil
  BY <1>1 DEF CloseText, NoNewNotes
<1>2. CASE s.text # Nil
  <2> DEFINE i == s.text.index
             x == [s EXCEPT !.text = Nil]
             part == TextContent(s.text.text)
             r == Close(x, i, part)
  <2>1. DOMAIN s = Fields /\ i \notin DOMAIN s.content
    BY <1>2, Apart DEF Ready, Typed
  <2>2. DOMAIN x = Fields /\ x.content = s.content
    BY <2>1, FieldsAre
  <2>3. ~IsNote(part) /\ CloseText(s) = r
    BY <1>2 DEF IsNote, TextContent, CloseText
  <2> HIDE DEF x, i, part
  <2>4. r.content = Put(s.content, i, part)
    BY <2>2, CloseIs
  <2> HIDE DEF r
  <2> QED BY <2>1, <2>3, <2>4, KeptIsNoNote
<1> QED BY <1>1, <1>2

(* Closing reasoning. *)
LEMMA CloseReasoningNotes ==
  ASSUME NEW s, Ready(s, {})
  PROVE  NoNewNotes(CloseReasoning(s), s)
<1>1. CASE s.reasoning = Nil
  BY <1>1 DEF CloseReasoning, NoNewNotes
<1>2. CASE s.reasoning # Nil
  <2> DEFINE i == s.reasoning.index
             x == [s EXCEPT !.reasoning = Nil]
             part == DataContent("reasoning", Reasoning(s.reasoning.id, s.reasoning.text))
             r == Close(x, i, part)
  <2>1. DOMAIN s = Fields /\ i \notin DOMAIN s.content
    BY <1>2, Apart DEF Ready, Typed
  <2>2. DOMAIN x = Fields /\ x.content = s.content
    BY <2>1, FieldsAre
  <2>3. ~IsNote(part) /\ CloseReasoning(s) = r
    BY <1>2 DEF IsNote, DataContent, CloseReasoning
  <2> HIDE DEF x, i, part
  <2>4. r.content = Put(s.content, i, part)
    BY <2>2, CloseIs
  <2> HIDE DEF r
  <2> QED BY <2>1, <2>3, <2>4, KeptIsNoNote
<1> QED BY <1>1, <1>2

(* Both. *)
LEMMA QuietNotes ==
  ASSUME NEW s, Ready(s, {})
  PROVE  NoNewNotes(Quiet(s), s)
<1>1. Ready(CloseText(s), {}) /\ NoNewNotes(CloseText(s), s)
  BY CloseTextReady, CloseTextNotes
<1>2. NoNewNotes(CloseReasoning(CloseText(s)), CloseText(s))
  BY <1>1, CloseReasoningNotes
<1> QED BY <1>1, <1>2, NoNewNotesOn DEF Quiet

(* push_reasoning_delta. *)
LEMMA PushReasoningDeltaNotes ==
  ASSUME NEW s, Ready(s, {}), s.text = Nil, NEW id \in ReasoningIds \cup {Nil},
         NEW text \in Texts
  PROVE  NoNewNotes(PushReasoningDelta(s, id, text), s)
<1> DEFINE c == IF s.reasoning # Nil /\ s.reasoning.id # id THEN CloseReasoning(s) ELSE s
           o == OpenReasoning(c, id)
           x == [o EXCEPT !.reasoning.text = @ \o text]
           r == Emit(x, <<ProviderEvent("reasoning_delta")>>)
<1>1. CASE text = <<>>
  BY <1>1 DEF PushReasoningDelta, NoNewNotes
<1>2. CASE text # <<>>
  <2>1. Ready(c, {}) /\ c.text = Nil /\ NoNewNotes(c, s)
    <3>1. /\ Ready(CloseReasoning(s), {}) /\ NoNewNotes(CloseReasoning(s), s)
          /\ CloseReasoning(s).text = Nil
      BY CloseReasoningReady, CloseReasoningNotes, FieldsAre DEF Same
    <3>2. NoNewNotes(s, s)
      BY DEF NoNewNotes
    <3> QED BY <3>1, <3>2
  <2> HIDE DEF c
  <2>2. o.content = c.content /\ DOMAIN o = Fields
    BY <2>1, OpenReasoningReady, FieldsAre DEF Same
  <2> HIDE DEF o
  <2>3. x.content = o.content /\ DOMAIN x = Fields
    BY <2>2, FieldsAre
  <2> HIDE DEF x
  <2>4. r.content = x.content
    <3>1. Same(r, x, {"pending"})
      BY <2>3, EmitIs
    <3> HIDE DEF r
    <3> QED BY <3>1, FieldsAre DEF Same
  <2>5. PushReasoningDelta(s, id, text) = r
    BY <1>2 DEF PushReasoningDelta, r, x, o, c
  <2> QED BY <2>1, <2>2, <2>3, <2>4, <2>5 DEF NoNewNotes
<1> QED BY <1>1, <1>2

(* complete_reasoning. *)
LEMMA CompleteReasoningNotes ==
  ASSUME NEW s, Ready(s, {}), s.text = Nil, NEW v \in Reasonings
  PROVE  NoNewNotes(CompleteReasoning(s, v), s)
<1>1. CASE s.reasoning = Nil /\ EmptyReasoning(v)
  BY <1>1 DEF CompleteReasoning, NoNewNotes
<1>2. CASE ~(s.reasoning = Nil /\ EmptyReasoning(v))
  <2> DEFINE o == IF s.reasoning # Nil THEN s ELSE Allocate(s, "ProviderData")
             i == IF s.reasoning # Nil THEN s.reasoning.index ELSE s.next
             x == [o EXCEPT !.reasoning = Nil]
             e == Emit(x, <<ProviderEvent("reasoning")>>)
             part == DataContent("reasoning", v)
             r == Close(e, i, part)
  <2>1. CompleteReasoning(s, v) = r /\ ~IsNote(part)
    BY <1>2 DEF CompleteReasoning, IsNote, DataContent
  <2>2. DOMAIN s = Fields /\ i \notin DOMAIN s.content
    <3>1. s.next \in Nat /\ DOMAIN s.content \subseteq 0..s.next - 1
      BY Apart
    <3>2. s.next \notin DOMAIN s.content
      BY <3>1
    <3> QED BY <3>2, Apart DEF Ready, Typed
  <2>3. o.content = s.content /\ DOMAIN o = Fields
    BY <2>2, AllocateIs, FieldsAre DEF Same
  <2> HIDE DEF o, i, part
  <2>4. x.content = o.content /\ DOMAIN x = Fields
    BY <2>3, FieldsAre
  <2> HIDE DEF x
  <2>5. e.content = x.content /\ DOMAIN e = Fields
    BY <2>4, EmitIs, FieldsAre DEF Same
  <2> HIDE DEF e
  <2>6. r.content = Put(s.content, i, part)
    BY <2>3, <2>4, <2>5, CloseIs
  <2> HIDE DEF r
  <2> QED BY <2>1, <2>2, <2>6, KeptIsNoNote
<1> QED BY <1>1, <1>2

(* Items of no call. *)
LEMMA OtherNotes ==
  ASSUME NEW s, Ready(s, {}), NEW item \in ItemSet,
         item.type \notin {"ToolCall", "ToolCallDelta"}
  PROVE  LET r == Handle(s, item)
         IN  /\ NoNewNotes(r, s) /\ r.tools = s.tools
             /\ item.type = "Unknown" => r.next = s.next
<1> DEFINE r == Handle(s, item)
<1>0. DOMAIN s = Fields
  BY DEF Ready, Typed
<1>1. CASE item.type = "Text"
  <2> DEFINE c == CloseReasoning(s)
             pushed == PushText(c, item.text)
             events == <<ProviderEvent("text_metadata")>>
  <2>1. r = IF item.meta THEN Emit(pushed, events) ELSE pushed
    BY <1>1 DEF Handle
  <2>2. /\ Ready(c, {}) /\ c.reasoning = Nil /\ c.tools = s.tools /\ NoNewNotes(c, s)
    BY CloseReasoningReady, CloseReasoningNotes, FieldsAre DEF Same
  <2> HIDE DEF c
  <2>3. Same(pushed, c, {"pending", "next", "text"})
    BY <1>1, <2>2, TextFields, PushTextReady
  <2> HIDE DEF pushed, events
  <2>4. Same(Emit(pushed, events), pushed, {"pending"})
    BY <2>3, EmitIs DEF Same
  <2>5. r.content = c.content /\ r.tools = c.tools
    BY <2>1, <2>3, <2>4, FieldsAre DEF Same
  <2> QED BY <1>1, <2>2, <2>5 DEF NoNewNotes
<1>2. ASSUME item.type \in {"Reasoning", "ReasoningDelta"}
      PROVE  NoNewNotes(r, s) /\ r.tools = s.tools
  <2> DEFINE c == CloseText(s)
  <2>1. Ready(c, {}) /\ c.text = Nil /\ c.tools = s.tools /\ NoNewNotes(c, s)
    BY CloseTextReady, CloseTextNotes, FieldsAre DEF Same
  <2>2. \/ item.type = "Reasoning" /\ r = CompleteReasoning(c, item.reasoning)
        \/ item.type = "ReasoningDelta" /\ r = PushReasoningDelta(c, item.id, item.text)
    BY <1>2 DEF Handle
  <2> HIDE DEF c, r
  <2>3. Same(r, c, {"pending", "content", "next", "reasoning"}) /\ NoNewNotes(r, c)
    BY <2>1, <2>2, ReasoningFields, CompleteReasoningReady, PushReasoningDeltaReady,
       CompleteReasoningNotes, PushReasoningDeltaNotes
  <2> QED BY <2>1, <2>3, NoNewNotesOn, FieldsAre DEF Same
<1>3. CASE item.type = "Final"
  <2> DEFINE q == Quiet(s)
  <2>1. r = [q EXCEPT !.usage = item.usage, !.stop = item.stop, !.final = TRUE]
    BY <1>3 DEF Handle
  <2>2. DOMAIN q = Fields /\ q.tools = s.tools /\ NoNewNotes(q, s)
    BY QuietReady, QuietNotes, FieldsAre DEF Same
  <2> HIDE DEF q, r
  <2>3. r.content = q.content /\ r.tools = q.tools
    BY <2>1, <2>2, FieldsAre
  <2> QED BY <1>3, <2>2, <2>3 DEF NoNewNotes, r
<1>4. CASE item.type = "Unknown"
  <2>1. r = Emit(s, <<ProviderEvent("unknown_stream_item")>>)
    BY <1>4 DEF Handle
  <2> HIDE DEF r
  <2>2. Same(r, s, {"pending"})
    BY <1>0, <2>1, EmitIs
  <2>3. r.content = s.content /\ r.tools = s.tools /\ r.next = s.next
    BY <2>2, FieldsAre DEF Same
  <2> QED BY <2>3 DEF NoNewNotes, r
<1> HIDE DEF r
<1>5. item.type = "Unknown" => r.next = s.next
  BY <1>4 DEF r
<1> QED BY <1>1, <1>2, <1>3, <1>4, <1>5, ItemTypes DEF r

-----------------------------------------------------------------------------
(* Each call is followed by its own metadata.                              *)

\* The metadata kept behind an index.
NoteAfter(content, i) ==
  IF i + 1 \in DOMAIN content /\ IsNote(content[i + 1]) THEN content[i + 1].value ELSE Nil

\* A complete call has one item, whose metadata is kept behind it.
AsNoted(s, t, said) ==
  \E j \in DOMAIN said :
    /\ said[j].type = "ToolCall" /\ said[j].tool = t
    /\ said[j].meta = NoteAfter(s.content, s.tools[t].index)
    /\ \A k \in DOMAIN said : said[k].type = "ToolCall" /\ said[k].tool = t => k = j

\* A call that is not complete is what was spoken of last, and comes next.
Noted(s, said) ==
  /\ \A t \in DOMAIN s.tools :
       IF s.tools[t].completed THEN AsNoted(s, t, said)
       ELSE s.tools[t].index = s.next - 1 /\ Latest(said, t)
  /\ \A i \in DOMAIN s.content :
       IsNote(s.content[i]) =>
         /\ s.content[i].value # Nil
         /\ i - 1 \in DOMAIN s.content /\ s.content[i - 1].kind = "ToolCall"

(* Metadata stays with what it is kept behind. *)
LEMMA NotesStay ==
  ASSUME NEW s, NEW r, NoNewNotes(r, s)
  PROVE  \A i : NoteAfter(r.content, i) = NoteAfter(s.content, i)
BY DEF NoNewNotes, NoteAfter

(* A call whose item is older keeps it. *)
LEMMA AsNotedOn ==
  ASSUME NEW s, NEW t, NEW said \in Seq(ItemSet), AsNoted(s, t, said), NEW item \in ItemSet,
         ~(item.type = "ToolCall" /\ item.tool = t), NEW r, r.tools[t] = s.tools[t],
         NoteAfter(r.content, s.tools[t].index) = NoteAfter(s.content, s.tools[t].index)
  PROVE  AsNoted(r, t, Append(said, item))
<1> DEFINE n == Len(said)
           now == Append(said, item)
<1>1. /\ n \in Nat /\ DOMAIN said = 1..n /\ DOMAIN now = 1..n + 1
      /\ now[n + 1] = item /\ \A k \in 1..n : now[k] = said[k]
  OBVIOUS
<1>2. PICK j \in 1..n :
        /\ said[j].type = "ToolCall" /\ said[j].tool = t
        /\ said[j].meta = NoteAfter(s.content, s.tools[t].index)
        /\ \A k \in 1..n : said[k].type = "ToolCall" /\ said[k].tool = t => k = j
  BY <1>1 DEF AsNoted
<1> HIDE DEF now, n
<1>3. j \in DOMAIN now /\ now[j] = said[j]
  BY <1>1
<1>4. ASSUME NEW k \in DOMAIN now, now[k].type = "ToolCall", now[k].tool = t PROVE k = j
  <2>1. k # n + 1
    BY <1>1, <1>4
  <2>2. k \in 1..n
    BY <1>1, <2>1
  <2> QED BY <1>1, <1>2, <1>4, <2>2
<1> QED BY <1>2, <1>3, <1>4 DEF AsNoted, now

(* The first item of a call is the one. *)
LEMMA AsNotedFirst ==
  ASSUME NEW said \in Seq(ItemSet), NEW item \in ItemSet, item.type = "ToolCall",
         Uncalled(said, item.tool), NEW r,
         item.meta = NoteAfter(r.content, r.tools[item.tool].index)
  PROVE  AsNoted(r, item.tool, Append(said, item))
<1> DEFINE n == Len(said)
           now == Append(said, item)
<1>1. /\ n \in Nat /\ DOMAIN said = 1..n /\ DOMAIN now = 1..n + 1
      /\ now[n + 1] = item /\ \A k \in 1..n : now[k] = said[k]
  OBVIOUS
<1> HIDE DEF now, n
<1>2. n + 1 \in DOMAIN now
  BY <1>1
<1>3. ASSUME NEW k \in DOMAIN now, now[k].type = "ToolCall", now[k].tool = item.tool
      PROVE  k = n + 1
  <2>1. k \in 1..n => FALSE
    BY <1>1, <1>3 DEF Uncalled
  <2> QED BY <1>1, <2>1
<1> QED BY <1>1, <1>2, <1>3 DEF AsNoted, now

(* An item that completes no call. *)
LEMMA NotedOn ==
  ASSUME NEW s, NEW said \in Seq(ItemSet), Noted(s, said), DOMAIN s.tools = ToolsOf(said),
         NEW item \in ItemSet, item.type # "ToolCall", NEW r, NoNewNotes(r, s),
         DOMAIN r.tools = DOMAIN s.tools \cup ToolOf(item),
         \A t \in DOMAIN s.tools : t \notin ToolOf(item) => r.tools[t] = s.tools[t],
         \A t \in ToolOf(item) :
           /\ t \in DOMAIN s.tools => ~s.tools[t].completed
           /\ ~r.tools[t].completed /\ r.tools[t].index = r.next - 1,
         item.type = "Unknown" => r.next = s.next
  PROVE  Noted(r, Append(said, item)) \/ Abandoned(Append(said, item))
<1> DEFINE now == Append(said, item)
<1> SUFFICES ASSUME ~Abandoned(now) PROVE Noted(r, now)
  OBVIOUS
<1>1. ASSUME NEW t \in ToolOf(item) PROVE Latest(now, t)
  <2>1. item.type = "ToolCallDelta" /\ item.tool = t
    BY <1>1 DEF ToolOf
  <2>2. Uncalled(said, t)
    <3>1. CASE t \in DOMAIN s.tools
      BY <1>1, <3>1 DEF Noted, Latest
    <3>2. CASE t \notin DOMAIN s.tools
      BY <3>2 DEF ToolsOf, Uncalled
    <3> QED BY <3>1, <3>2
  <2> QED BY <2>1, <2>2, StillLatest
<1>2. ASSUME NEW t \in DOMAIN s.tools, t \notin ToolOf(item), ~s.tools[t].completed
      PROVE  Latest(now, t) /\ r.tools[t].index = r.next - 1
  <2>1. Latest(said, t) /\ s.tools[t].index = s.next - 1
    BY <1>2 DEF Noted
  <2>2. ~OfTool(item, t)
    BY <1>2 DEF ToolOf, OfTool
  <2>3. item.type = "Unknown"
    BY <2>1, <2>2, LeftBehind
  <2>4. Uncalled(said, t)
    BY <2>1 DEF Latest
  <2>5. Latest(now, t)
    BY <2>1, <2>3, <2>4, StillLatest
  <2> QED BY <1>2, <2>1, <2>3, <2>5
<1>3. ASSUME NEW t \in DOMAIN s.tools, t \notin ToolOf(item), s.tools[t].completed
      PROVE  AsNoted(r, t, now)
  <2>1. AsNoted(s, t, said) /\ r.tools[t] = s.tools[t]
    BY <1>3 DEF Noted
  <2>2. NoteAfter(r.content, s.tools[t].index) = NoteAfter(s.content, s.tools[t].index)
    BY NotesStay
  <2> QED BY <2>1, <2>2, AsNotedOn
<1>4. \A i \in DOMAIN r.content :
        IsNote(r.content[i]) =>
          /\ r.content[i].value # Nil
          /\ i - 1 \in DOMAIN r.content /\ r.content[i - 1].kind = "ToolCall"
  BY DEF Noted, NoNewNotes
<1> HIDE DEF now
<1>5. ASSUME NEW t \in DOMAIN r.tools
      PROVE  IF r.tools[t].completed THEN AsNoted(r, t, now)
             ELSE r.tools[t].index = r.next - 1 /\ Latest(now, t)
  BY <1>1, <1>2, <1>3
<1> QED BY <1>4, <1>5 DEF Noted, now

(* A complete item: the call, and its metadata right behind. *)
LEMMA CompletionNoted ==
  ASSUME NEW s, Ready(s, {}), NEW said \in Seq(ItemSet), Noted(s, said),
         DOMAIN s.tools = ToolsOf(said), NEW item \in ItemSet, item.type = "ToolCall",
         ~BadCall(s, item)
  PROVE  \/ Noted(CompleteTool(s, item), Append(said, item))
         \/ Abandoned(Append(said, item))
<1> DEFINE t == item.tool
           r == CompleteTool(s, item)
           now == Append(said, item)
           known == EnsureTool(s, t)
<1> SUFFICES ASSUME ~Abandoned(now) PROVE Noted(r, now)
  OBVIOUS
<1>1. ASSUME NEW u \in DOMAIN s.tools, u # t PROVE s.tools[u].completed
  <2>1. ~s.tools[u].completed => Latest(said, u)
    BY DEF Noted
  <2>2. ~OfTool(item, u)
    BY <1>1 DEF OfTool
  <2> QED BY <2>1, <2>2, LeftBehind
<1>2. PICK f :
        /\ Ready(f, {}) /\ t \in DOMAIN f.tools
        /\ ~known.tools[t].completed /\ Moves(f, known, t)
        /\ DOMAIN r.tools = DOMAIN f.tools
        /\ r.tools[t].completed /\ r.tools[t].index = f.tools[t].index
        /\ \A u \in DOMAIN f.tools : u # t => r.tools[u] = f.tools[u]
        /\ item.meta = Nil =>
             /\ r.next = f.next
             /\ r.content = Put(f.content, f.tools[t].index, ToolContent(CallOf(f, item)))
        /\ item.meta # Nil =>
             /\ r.next = f.next + 1
             /\ r.content = Put(Put(f.content, f.tools[t].index, ToolContent(CallOf(f, item))),
                                f.next, DataContent("tool_call_metadata", item.meta))
  BY CompletionIs
<1>3. t \in Tools
  BY ToolCallFields
<1>4. /\ known.content = s.content /\ known.tools[t].index = known.next - 1
      /\ DOMAIN known.tools = DOMAIN s.tools \cup {t}
      /\ \A u \in DOMAIN s.tools : u # t => known.tools[u] = s.tools[u]
      /\ Uncalled(said, t)
  <2>1. CASE t \in DOMAIN s.tools
    <3>1. known = s /\ DOMAIN s.tools = DOMAIN s.tools \cup {t}
      BY <2>1 DEF EnsureTool
    <3>2. ~s.tools[t].completed
      BY <1>2, <3>1
    <3> QED BY <2>1, <3>1, <3>2 DEF Noted, Latest
  <2>2. CASE t \notin DOMAIN s.tools
    <3>1. s.next \in Nat
      BY DEF Ready, Typed
    <3>2. /\ known.content = s.content /\ known.tools[t].index = s.next
          /\ known.next = s.next + 1 /\ DOMAIN known.tools = DOMAIN s.tools \cup {t}
          /\ \A u \in DOMAIN s.tools : u # t /\ known.tools[u] = s.tools[u]
      BY <1>3, <2>2, EnsureToolOpens
    <3>3. Uncalled(said, t)
      BY <2>2 DEF ToolsOf, Uncalled
    <3> HIDE DEF known
    <3> QED BY <3>1, <3>2, <3>3
  <2> QED BY <2>1, <2>2
<1> DEFINE i == f.tools[t].index
           part == ToolContent(CallOf(f, item))
           note == DataContent("tool_call_metadata", item.meta)
<1>5. /\ f.content = s.content /\ i = f.next - 1
      /\ DOMAIN f.tools = DOMAIN s.tools \cup {t} /\ ~f.tools[t].completed
      /\ \A u \in DOMAIN s.tools : u # t => f.tools[u] = s.tools[u]
  <2> HIDE DEF known
  <2> QED BY <1>2, <1>4 DEF Moves
<1>6. /\ f.next \in Nat /\ i \in Nat /\ i \notin DOMAIN s.content
      /\ DOMAIN s.content \subseteq 0..f.next - 1
      /\ \A u \in DOMAIN f.tools : u # t => f.tools[u].index # i
  BY <1>2, <1>5, Apart
<1>7. part.kind = "ToolCall" /\ ~IsNote(part)
  BY DEF ToolContent, IsNote
<1>8. IsNote(note) /\ note.value = item.meta
  BY DEF DataContent, IsNote
<1> HIDE DEF known, part, note, i, r, now
<1>9. i + 1 = f.next /\ i + 1 \notin DOMAIN s.content /\ (i + 1) - 1 = i
  BY <1>5, <1>6
<1>10. /\ i \in DOMAIN r.content /\ r.content[i] = part
       /\ \A k \in DOMAIN s.content : k \in DOMAIN r.content /\ r.content[k] = s.content[k]
       /\ item.meta = Nil => DOMAIN r.content = DOMAIN s.content \cup {i}
       /\ item.meta # Nil =>
            DOMAIN r.content = DOMAIN s.content \cup {i, i + 1} /\ r.content[i + 1] = note
  <2> DEFINE kept == Put(f.content, i, part)
  <2>1. /\ DOMAIN kept = DOMAIN s.content \cup {i} /\ kept[i] = part
        /\ \A k \in DOMAIN s.content : kept[k] = s.content[k]
    BY <1>5, <1>6 DEF Put
  <2> HIDE DEF kept
  <2>2. CASE item.meta = Nil
    <3>1. r.content = kept
      BY <1>2, <2>2 DEF i, part, kept
    <3> QED BY <2>1, <2>2, <3>1
  <2>3. CASE item.meta # Nil
    <3>1. r.content = Put(kept, i + 1, note)
      BY <1>2, <1>9, <2>3 DEF i, part, note, kept
    <3>2. i + 1 # i
      BY <1>6
    <3>3. /\ DOMAIN r.content = DOMAIN kept \cup {i + 1} /\ r.content[i + 1] = note
          /\ \A k \in DOMAIN kept : k # i + 1 => r.content[k] = kept[k]
      BY <3>1 DEF Put
    <3> QED BY <1>9, <2>1, <2>3, <3>2, <3>3
  <2> QED BY <2>2, <2>3
<1>11. NoteAfter(r.content, i) = item.meta
  <2>1. CASE item.meta = Nil
    <3>1. i + 1 \notin DOMAIN r.content
      BY <1>6, <1>9, <1>10, <2>1
    <3> QED BY <2>1, <3>1 DEF NoteAfter
  <2>2. CASE item.meta # Nil
    BY <1>8, <1>10, <2>2 DEF NoteAfter
  <2> QED BY <2>1, <2>2
<1>12. ASSUME NEW k \in Nat, k # i PROVE NoteAfter(r.content, k) = NoteAfter(s.content, k)
  <2>1. k + 1 # i + 1
    BY <1>6, <1>12
  <2>2. CASE k + 1 = i
    BY <1>6, <1>7, <1>10, <2>2 DEF NoteAfter
  <2>3. CASE k + 1 # i
    <3>1. k + 1 \in DOMAIN r.content <=> k + 1 \in DOMAIN s.content
      BY <1>10, <2>1, <2>3
    <3> QED BY <1>10, <3>1 DEF NoteAfter
  <2> QED BY <2>2, <2>3
<1>13. AsNoted(r, t, now)
  BY <1>2, <1>4, <1>11, AsNotedFirst DEF now, i
<1>14. ASSUME NEW u \in DOMAIN s.tools, u # t PROVE AsNoted(r, u, now)
  <2>1. AsNoted(s, u, said)
    BY <1>1, <1>14 DEF Noted
  <2>2. r.tools[u] = s.tools[u] /\ s.tools[u].index \in Nat /\ s.tools[u].index # i
    <3>1. s.tools[u] \in ToolStates
      BY DEF Ready, Typed
    <3> QED BY <1>2, <1>5, <1>6, <1>14, <3>1, ToolFields
  <2>3. NoteAfter(r.content, s.tools[u].index) = NoteAfter(s.content, s.tools[u].index)
    BY <1>12, <2>2
  <2> QED BY <1>14, <2>1, <2>2, <2>3, AsNotedOn DEF now
<1>15. ASSUME NEW k \in DOMAIN r.content, IsNote(r.content[k])
       PROVE  /\ r.content[k].value # Nil
              /\ k - 1 \in DOMAIN r.content /\ r.content[k - 1].kind = "ToolCall"
  <2>1. CASE k \in DOMAIN s.content
    BY <1>10, <1>15, <2>1 DEF Noted
  <2>2. CASE k \notin DOMAIN s.content
    <3>1. k = i + 1 /\ item.meta # Nil
      BY <1>7, <1>10, <1>15, <2>2
    <3> QED BY <1>7, <1>8, <1>9, <1>10, <3>1
  <2> QED BY <2>1, <2>2
<1>16. ASSUME NEW u \in DOMAIN r.tools
       PROVE  r.tools[u].completed /\ AsNoted(r, u, now)
  <2>1. CASE u = t
    BY <1>2, <1>13, <2>1
  <2>2. CASE u # t
    <3>1. u \in DOMAIN f.tools /\ u \in DOMAIN s.tools
      BY <1>2, <1>5, <2>2
    <3>2. r.tools[u] = s.tools[u]
      BY <1>2, <1>5, <2>2, <3>1
    <3> QED BY <1>1, <1>14, <2>2, <3>1, <3>2
  <2> QED BY <2>1, <2>2
<1> QED BY <1>15, <1>16 DEF Noted

(* handle_item, for items of one call at a time. *)
LEMMA HandleNoted ==
  ASSUME NEW s, Ready(s, {}), NEW said \in Seq(ItemSet), Carried(s, said),
         NEW item \in ItemSet, ~Rejects(s, item), OneAtATime(Append(said, item)),
         Noted(s, said) \/ Abandoned(said)
  PROVE  \/ Noted(Handle(s, item), Append(said, item))
         \/ Abandoned(Append(said, item))
<1> DEFINE q == Quiet(s)
           t == item.tool
           r == Handle(s, item)
<1> SUFFICES ASSUME Noted(s, said)
             PROVE  Noted(r, Append(said, item)) \/ Abandoned(Append(said, item))
  BY AbandonedStays
<1>1. DOMAIN s.tools = ToolsOf(said)
  BY DEF Carried, CallsCarried
<1>2. /\ Ready(q, {}) /\ DOMAIN q = Fields /\ DOMAIN s = Fields
      /\ q.tools = s.tools /\ q.used = s.used /\ q.next = s.next
  BY QuietReady, FieldsAre DEF Same, Ready, Typed
<1>3. Noted(q, said) /\ NoNewNotes(q, s)
  <2>1. NoNewNotes(q, s)
    BY QuietNotes
  <2> HIDE DEF q
  <2>2. \A u \in DOMAIN q.tools :
          IF q.tools[u].completed THEN AsNoted(q, u, said)
          ELSE q.tools[u].index = q.next - 1 /\ Latest(said, u)
    BY <1>2, <2>1, NotesStay DEF Noted, AsNoted
  <2> QED BY <2>1, <2>2 DEF Noted, NoNewNotes
<1>4. CASE item.type \notin {"ToolCall", "ToolCallDelta"}
  <2>1. ToolOf(item) = {} /\ DOMAIN s.tools = DOMAIN s.tools \cup {}
    BY <1>4 DEF ToolOf
  <2>2. NoNewNotes(r, s) /\ r.tools = s.tools /\ (item.type = "Unknown" => r.next = s.next)
    BY <1>4, OtherNotes
  <2> HIDE DEF r
  <2> QED BY <1>1, <1>4, <2>1, <2>2, NotedOn
<1>5. CASE item.type = "ToolCallDelta"
  <2> DEFINE known == EnsureTool(q, t)
             w == PushToolDelta(q, t, item.part, item.atom)
  <2>1. r = w /\ ToolOf(item) = {t} /\ t \in Tools
    BY <1>5, DeltaFields DEF Handle, ToolOf
  <2>2. t \in DOMAIN q.tools => ~q.tools[t].completed
    BY <1>2, <1>5 DEF Rejects, BadDelta
  <2> HIDE DEF q
  <2>3. ~known.tools[t].completed
    BY <1>2, <2>1, <2>2, FreshOrOpen
  <2>4. Moves(w, known, t)
    BY <1>2, <1>5, <2>1, <2>3, DeltaFields, PushToolDeltaMoves
  <2>5. /\ known.content = q.content /\ known.tools[t].index = known.next - 1
        /\ DOMAIN known.tools = DOMAIN q.tools \cup {t}
        /\ \A u \in DOMAIN q.tools : u # t => known.tools[u] = q.tools[u]
    <3>1. CASE t \in DOMAIN q.tools
      <4>1. known = q /\ DOMAIN q.tools = DOMAIN q.tools \cup {t}
        BY <3>1 DEF EnsureTool
      <4> QED BY <1>3, <2>2, <3>1, <4>1 DEF Noted
    <3>2. CASE t \notin DOMAIN q.tools
      <4>1. q.next \in Nat
        BY <1>2 DEF Ready, Typed
      <4>2. /\ known.content = q.content /\ known.tools[t].index = q.next
            /\ known.next = q.next + 1 /\ DOMAIN known.tools = DOMAIN q.tools \cup {t}
            /\ \A u \in DOMAIN q.tools : u # t /\ known.tools[u] = q.tools[u]
        BY <1>2, <2>1, <3>2, EnsureToolOpens
      <4> HIDE DEF known
      <4> QED BY <4>1, <4>2
    <3> QED BY <3>1, <3>2
  <2> HIDE DEF known, w
  <2>6. /\ NoNewNotes(w, q) /\ DOMAIN w.tools = DOMAIN q.tools \cup {t}
        /\ ~w.tools[t].completed /\ w.tools[t].index = w.next - 1
        /\ \A u \in DOMAIN q.tools : u # t => w.tools[u] = q.tools[u]
    BY <2>4, <2>5 DEF Moves, NoNewNotes
  <2> QED BY <1>1, <1>2, <1>3, <1>5, <2>1, <2>2, <2>6, NotedOn
<1>6. CASE item.type = "ToolCall"
  <2>1. r = CompleteTool(q, item) /\ ~BadCall(s, item)
    BY <1>6 DEF Handle, Rejects
  <2> HIDE DEF q
  <2>2. /\ EnsureTool(q, t).tools = EnsureTool(s, t).tools
        /\ EnsureTool(q, t).used = EnsureTool(s, t).used
    BY <1>2, FieldsAre DEF EnsureTool, Allocate
  <2>3. ~BadCall(q, item)
    BY <2>1, <2>2 DEF BadCall, Contradicts
  <2> QED BY <1>1, <1>2, <1>3, <1>6, <2>1, <2>3, CompletionNoted
<1> QED BY <1>4, <1>5, <1>6

(* What is one at a time was so before the last item. *)
LEMMA OneAtATimeBefore ==
  ASSUME NEW items \in Seq(ItemSet), NEW item \in ItemSet, OneAtATime(Append(items, item))
  PROVE  OneAtATime(items)
<1> DEFINE n == Len(items)
           now == Append(items, item)
<1>1. /\ n \in Nat /\ DOMAIN items = 1..n /\ DOMAIN now = 1..n + 1
      /\ \A k \in 1..n : now[k] = items[k] /\ k \in 1..n + 1
  OBVIOUS
<1>2. OneAtATime(now)
  OBVIOUS
<1> HIDE DEF now, n
<1> SUFFICES ASSUME NEW i \in 1..n, NEW j \in 1..n, NEW t \in Tools, i < j,
                    OfTool(items[i], t), OfTool(items[j], t), NEW k \in i..j
             PROVE  OfTool(items[k], t) \/ items[k].type = "Unknown"
  BY <1>1 DEF OneAtATime
<1>3. k \in 1..n
  BY <1>1
<1>4. OfTool(now[k], t) \/ now[k].type = "Unknown"
  BY <1>1, <1>2 DEF OneAtATime
<1> QED BY <1>1, <1>3, <1>4

\* Each call of a response comes from one item, and its metadata is behind it.
Followed(content, tools, said) ==
  /\ content \in Seq(AssistantParts)
  /\ \A k \in DOMAIN content :
       IsNote(content[k]) =>
         /\ content[k].value # Nil
         /\ k - 1 \in DOMAIN content /\ content[k - 1].kind = "ToolCall"
  /\ \A k \in DOMAIN content :
       content[k].kind = "ToolCall" =>
         \E j \in DOMAIN said :
           /\ said[j].type = "ToolCall"
           /\ tools[said[j].tool].id = content[k].call.id
           /\ said[j].meta = NoteAfter(content, k)
           /\ \A m \in DOMAIN said :
                said[m].type = "ToolCall" /\ tools[said[m].tool].id = content[k].call.id
                  => m = j

(* A call that was begun and left does not end well. *)
LEMMA NotAbandoned ==
  ASSUME NEW s, \A t \in DOMAIN s.tools : s.tools[t].completed,
         NEW items, CallsCarried(s, items)
  PROVE  ~Abandoned(items)
<1> SUFFICES ASSUME Abandoned(items) PROVE FALSE
  OBVIOUS
<1>1. PICK j \in DOMAIN items :
        items[j].type = "ToolCallDelta" /\ Uncalled(items, items[j].tool)
  BY DEF Abandoned
<1> DEFINE t == items[j].tool
<1>2. t \in ToolsOf(items)
  BY <1>1 DEF ToolsOf
<1>3. Answered(s, t, items)
  BY <1>2 DEF CallsCarried
<1>4. \E i \in DOMAIN items : items[i].type = "ToolCall" /\ items[i].tool = t
  BY <1>3 DEF Answered
<1> QED BY <1>1, <1>4 DEF Uncalled

(* finish_stream: the response has each call, and its metadata behind it. *)
LEMMA FinishFollows ==
  ASSUME NEW s, Ready(s, {}), s.final => s.text = Nil /\ s.reasoning = Nil,
         ~Incomplete(s), NEW said, Carried(s, said), Noted(s, said) \/ Abandoned(said)
  PROVE  Followed(ContentOf(s), s.tools, said)
<1> DEFINE content == ContentOf(s)
           n == s.next
<1>1. CallsCarried(s, said)
  BY DEF Carried
<1>2. /\ n \in Nat /\ DOMAIN s.content = 0..n - 1 /\ \A t \in DOMAIN s.tools : s.tools[t].completed
      /\ content \in Seq(AssistantParts) /\ DOMAIN content = 1..n
      /\ \A k \in 1..n : content[k] = s.content[k - 1]
  BY CompleteIsWhole
<1>3. Noted(s, said)
  BY <1>1, <1>2, NotAbandoned
<1> HIDE DEF content, n
<1>4. \A k \in 1..n : k - 1 \in 0..n - 1 /\ (k - 1) + 1 = k /\ k \in Nat
  BY <1>2
<1>5. ASSUME NEW k \in 1..n, IsNote(content[k])
      PROVE  /\ content[k].value # Nil
             /\ k - 1 \in DOMAIN content /\ content[k - 1].kind = "ToolCall"
  <2>1. k - 1 \in DOMAIN s.content /\ IsNote(s.content[k - 1])
    BY <1>2, <1>4, <1>5
  <2>2. /\ content[k].value # Nil
        /\ (k - 1) - 1 \in 0..n - 1 /\ s.content[(k - 1) - 1].kind = "ToolCall"
    BY <1>2, <1>3, <2>1 DEF Noted
  <2>3. k - 1 \in 1..n
    BY <1>2, <2>2
  <2> QED BY <1>2, <2>2, <2>3
<1>6. ASSUME NEW k \in 1..n PROVE NoteAfter(content, k) = NoteAfter(s.content, k - 1)
  <2>1. /\ k + 1 \in 1..n <=> (k - 1) + 1 \in 0..n - 1
        /\ k + 1 \in 1..n => (k + 1) - 1 = k
        /\ (k - 1) + 1 = k
    BY <1>2
  <2> QED BY <1>2, <2>1 DEF NoteAfter
<1>7. ASSUME NEW k \in 1..n, content[k].kind = "ToolCall"
      PROVE  \E j \in DOMAIN said :
               /\ said[j].type = "ToolCall"
               /\ s.tools[said[j].tool].id = content[k].call.id
               /\ said[j].meta = NoteAfter(content, k)
               /\ \A m \in DOMAIN said :
                    said[m].type = "ToolCall" /\ s.tools[said[m].tool].id = content[k].call.id
                      => m = j
  <2>1. k - 1 \in DOMAIN s.content /\ content[k] = s.content[k - 1]
    BY <1>2, <1>4
  <2>2. PICK t \in DOMAIN s.tools : s.tools[t].completed /\ s.tools[t].index = k - 1
    BY <1>1, <1>7, <2>1 DEF CallsCarried
  <2>3. content[k].call.id = s.tools[t].id
    BY <1>1, <2>1, <2>2 DEF CallsCarried, Answered
  <2>4. s.tools[t].id # Nil
    <3>1. content[k] \in AssistantParts
      BY <1>2
    <3>2. content[k].call.id \in Ids
      BY <1>7, <3>1 DEF AssistantParts
    <3> QED BY <2>3, <3>2, NilAssumption
  <2>5. PICK j \in DOMAIN said :
          /\ said[j].type = "ToolCall" /\ said[j].tool = t
          /\ said[j].meta = NoteAfter(s.content, k - 1)
          /\ \A m \in DOMAIN said : said[m].type = "ToolCall" /\ said[m].tool = t => m = j
    BY <1>3, <2>2 DEF Noted, AsNoted
  <2>6. ASSUME NEW m \in DOMAIN said, said[m].type = "ToolCall",
               s.tools[said[m].tool].id = content[k].call.id
        PROVE  m = j
    <3>1. said[m].tool \in DOMAIN s.tools
      BY <1>1, <2>6 DEF CallsCarried, ToolsOf
    <3>2. said[m].tool = t
      BY <2>3, <2>4, <2>6, <3>1 DEF Ready, Distinct
    <3> QED BY <2>5, <2>6, <3>2
  <2> QED BY <1>6, <2>3, <2>5, <2>6
<1> QED BY <1>2, <1>5, <1>7 DEF Followed, content

-----------------------------------------------------------------------------
(* A response is replayed: each call gets its own metadata.                *)

(* Replay, part by part. *)
LEMMA ReplayIs ==
  ASSUME NEW keeps, NEW c \in Seq(AssistantParts)
  PROVE  \E acc : /\ acc[0] = NoReplay
                  /\ \A k \in 1..Len(c) : acc[k] = ReplayPart(keeps, acc[k - 1], c[k])
                  /\ Replay(keeps, c) = acc[Len(c)]
<1> DEFINE n == Len(c)
           Step(x, i) == ReplayPart(keeps, x, c[i])
           Body(f, S) == IF S = {} THEN NoReplay ELSE Step(f[S \ {Max(S)}], Max(S))
           Solves(f, k) == f = [S \in SUBSET (1..k) |-> Body(f, S)]
           A == {k \in 0..n : \E f : Solves(f, k)}
           fold == CHOOSE f : Solves(f, n)
           acc == [k \in 0..n |-> fold[1..k]]
<1>1. n \in Nat /\ DOMAIN c = 1..n
  OBVIOUS
<1>2. Replay(keeps, c) = fold[1..n]
  BY <1>1 DEF Replay, FoldLeft, MapThenFoldSet
<1> HIDE DEF Step, fold
<1>3. 0 \in A
  <2> DEFINE f == [S \in SUBSET (1..0) |-> NoReplay]
  <2>1. Solves(f, 0)
    <3>1. \A S \in SUBSET (1..0) : S = {}
      OBVIOUS
    <3> QED BY <3>1
  <2> HIDE DEF Solves, f
  <2> QED BY <1>1, <2>1
<1>4. ASSUME NEW k \in 1..n, k - 1 \in A PROVE k \in A
  <2>1. PICK f : Solves(f, k - 1)
    BY <1>4
  <2> DEFINE g == [S \in SUBSET (1..k) |-> IF k \in S THEN Step(f[S \ {k}], k) ELSE f[S]]
  <2>2. k \in Nat /\ k - 1 \in Nat /\ k \in 0..n
    BY <1>1
  <2>3. \A S \in SUBSET (1..k - 1) : S \in SUBSET (1..k) /\ k \notin S
    BY <2>2
  <2>4. \A S \in SUBSET (1..k - 1) : g[S] = f[S] /\ f[S] = Body(f, S)
    <3> HIDE DEF Body
    <3> QED BY <2>1, <2>3
  <2>5. ASSUME NEW S \in SUBSET (1..k) PROVE g[S] = Body(g, S)
    <3>1. CASE k \in S
      <4>1. Max(S) = k /\ S \ {k} \in SUBSET (1..k - 1) /\ S # {}
        BY <2>2, <3>1, SubsetsByMax
      <4>2. g[S] = Step(f[S \ {k}], k)
        BY <3>1
      <4>3. g[S \ {k}] = f[S \ {k}]
        BY <2>4, <4>1
      <4> HIDE DEF g
      <4> QED BY <4>1, <4>2, <4>3
    <3>2. CASE k \notin S
      <4>1. S \in SUBSET (1..k - 1) /\ (S # {} => S \ {Max(S)} \in SUBSET (1..k - 1))
        BY <2>2, <3>2, SubsetsByMax
      <4> HIDE DEF g
      <4> QED BY <2>4, <4>1
    <3> QED BY <3>1, <3>2
  <2>6. Solves(g, k)
    <3> HIDE DEF Body
    <3>1. g = [S \in SUBSET (1..k) |-> g[S]]
      OBVIOUS
    <3> HIDE DEF g
    <3> QED BY <2>5, <3>1
  <2> HIDE DEF Solves, g
  <2> QED BY <2>2, <2>6
<1>5. n \in A
  <2>1. n \in 0..n
    BY <1>1
  <2> HIDE DEF A, n
  <2> QED BY <1>1, <1>3, <1>4, <2>1, CountUp
<1>6. Solves(fold, n)
  <2> HIDE DEF Solves
  <2> QED BY <1>5 DEF fold
<1>7. fold[1..0] = NoReplay
  <2>1. 1..0 = {} /\ {} \in SUBSET (1..n)
    OBVIOUS
  <2> QED BY <1>6, <2>1
<1>8. ASSUME NEW k \in 1..n PROVE fold[1..k] = Step(fold[1..k - 1], k)
  <2>1. 1..k \in SUBSET (1..n) /\ 1..k # {} /\ Max(1..k) = k /\ (1..k) \ {k} = 1..k - 1
    BY <1>1, IntervalFacts
  <2> QED BY <1>6, <2>1
<1>9. acc[0] = NoReplay /\ acc[n] = fold[1..n]
  BY <1>1, <1>7
<1>10. ASSUME NEW k \in 1..n PROVE acc[k] = Step(acc[k - 1], k)
  <2>1. acc[k] = fold[1..k] /\ acc[k - 1] = fold[1..k - 1]
    BY <1>1
  <2> QED BY <1>8, <2>1
<1> HIDE DEF acc
<1> QED BY <1>2, <1>9, <1>10 DEF Step

(* Metadata over none. *)
LEMMA RenewedFirst == \A meta : Renewed(Nil, meta) = meta
BY DEF Renewed

\* A replayed call is one of the content, with the metadata behind it.
SetBack(content, part) ==
  part.type = "ToolCall" =>
    \E k \in DOMAIN content :
      /\ content[k].kind = "ToolCall"
      /\ part.call = content[k].call /\ part.meta = NoteAfter(content, k)

\* A sequence, of whatever.
Listed(done) == \E T : done \in Seq(T)

\* What is replayed of the content up to k: a call that comes last has yet to
\* get its metadata.
ReplayedTo(content, k, replay) ==
  \E done :
    /\ Listed(done) /\ \A i \in DOMAIN done : SetBack(content, done[i])
    /\ replay = [verdict |-> "Ok",
                 rig |-> IF k > 0 /\ content[k].kind = "ToolCall"
                         THEN Append(done, RigCall(content[k].call, Nil)) ELSE done]

(* One replayed part more. *)
LEMMA SetBackMore ==
  ASSUME NEW content, NEW done, Listed(done),
         \A i \in DOMAIN done : SetBack(content, done[i]), NEW part, SetBack(content, part)
  PROVE  /\ Listed(Append(done, part))
         /\ \A i \in DOMAIN Append(done, part) : SetBack(content, Append(done, part)[i])
<1> PICK T : done \in Seq(T)
  BY DEF Listed
<1> DEFINE U == T \cup {part}
           more == Append(done, part)
<1>1. done \in Seq(U) /\ part \in U
  BY SeqMonotone
<1> HIDE DEF U
<1>2. /\ more \in Seq(U) /\ Len(done) \in Nat /\ DOMAIN done = 1..Len(done)
      /\ DOMAIN more = 1..Len(done) + 1
      /\ more[Len(done) + 1] = part /\ \A i \in 1..Len(done) : more[i] = done[i]
  BY <1>1
<1> HIDE DEF more
<1>3. ASSUME NEW i \in DOMAIN more PROVE SetBack(content, more[i])
  <2>1. i = Len(done) + 1 \/ i \in DOMAIN done
    BY <1>2
  <2> QED BY <1>2, <2>1
<1> QED BY <1>2, <1>3 DEF more, Listed

(* Metadata goes to the call it follows. *)
LEMMA NoteSetBack ==
  ASSUME NEW content, NEW k \in Nat, k - 1 \in DOMAIN content, k \in DOMAIN content,
         IsNote(content[k]), WellFormedMetadata(content[k].value),
         content[k - 1].kind = "ToolCall", NEW keeps,
         NEW replay, ReplayedTo(content, k - 1, replay), k > 1
  PROVE  ReplayedTo(content, k, ReplayPart(keeps, replay, content[k]))
<1> DEFINE call == content[k - 1].call
           meta == content[k].value
           q == ReplayPart(keeps, replay, content[k])
<1>1. PICK done :
        /\ Listed(done) /\ \A i \in DOMAIN done : SetBack(content, done[i])
        /\ replay = [verdict |-> "Ok", rig |-> Append(done, RigCall(call, Nil))]
  <2>1. k - 1 > 0
    OBVIOUS
  <2> QED BY <2>1 DEF ReplayedTo
<1>2. PICK T : done \in Seq(T)
  BY <1>1 DEF Listed
<1> DEFINE rig == Append(done, RigCall(call, Nil))
           n == Len(done)
           last == RigCall(call, Nil)
           set == RigCall(call, meta)
<1>3. /\ n \in Nat /\ DOMAIN rig = 1..n + 1 /\ Len(rig) = n + 1 /\ rig # <<>>
      /\ rig[n + 1] = last /\ \A i \in 1..n : rig[i] = done[i] /\ DOMAIN done = 1..n
  <2> DEFINE U == T \cup {last}
  <2>1. done \in Seq(U) /\ last \in U
    BY <1>2, SeqMonotone
  <2> HIDE DEF U, last
  <2> QED BY <2>1 DEF last
<1>4. [last EXCEPT !.meta = Renewed(@, meta)] = set
  <2>1. last.meta = Nil
    BY DEF RigCall
  <2>2. [last EXCEPT !.meta = meta] = set
    BY DEF RigCall
  <2> HIDE DEF last
  <2> QED BY <2>1, <2>2, RenewedFirst
<1>5. q = ReplayMetadata(replay, meta)
  <2>1. replay.verdict = "Ok"
    BY <1>1
  <2>2. content[k].kind = "ProviderData" /\ content[k].data = "tool_call_metadata"
    BY DEF IsNote
  <2> QED BY <2>1, <2>2 DEF ReplayPart, ReplayData
<1>6. last.type = "ToolCall" /\ set.type = "ToolCall" /\ set.call = call /\ set.meta = meta
  BY DEF RigCall
<1> HIDE DEF rig, n, last, set, q
<1>7. replay.verdict = "Ok" /\ replay.rig = rig /\ Last(rig) = last
  BY <1>1, <1>3 DEF rig, last, Last
<1>8. q = [replay EXCEPT !.rig = [rig EXCEPT ![n + 1] = set]]
  <2>1. q = [replay EXCEPT !.rig[Len(replay.rig)].meta = Renewed(@, meta)]
    BY <1>3, <1>5, <1>6, <1>7 DEF ReplayMetadata
  <2>2. q = [replay EXCEPT !.rig = [rig EXCEPT ![n + 1] =
                                     [last EXCEPT !.meta = Renewed(@, meta)]]]
    BY <1>3, <1>7, <2>1
  <2> QED BY <1>4, <2>2
<1>9. [rig EXCEPT ![n + 1] = set] = Append(done, set)
  <2> DEFINE U == T \cup {last, set}
  <2>1. done \in Seq(U) /\ last \in U /\ set \in U
    BY <1>2, SeqMonotone
  <2> HIDE DEF U
  <2>2. rig \in Seq(U) /\ rig = Append(done, last)
    BY <2>1 DEF rig, last
  <2> DEFINE new == [rig EXCEPT ![n + 1] = set]
             more == Append(done, set)
  <2>3. /\ new \in Seq(U) /\ DOMAIN new = 1..n + 1 /\ new[n + 1] = set
        /\ \A i \in 1..n : i # n + 1 /\ new[i] = rig[i]
    <3> HIDE DEF new
    <3> DEFINE m == n + 1
    <3>1. rig \in [1..m -> U] /\ m \in 1..m
      <4>1. m \in 1..m /\ Len(rig) = m /\ m \in Nat
        BY <1>3
      <4>2. rig \in Seq(U)
        BY <2>2
      <4> HIDE DEF m, rig, U
      <4>3. rig \in [1..Len(rig) -> U]
        BY <4>2
      <4> QED BY <4>1, <4>3
    <3>2. new \in [1..n + 1 -> U] /\ new[n + 1] = set /\ \A i \in 1..n : i # n + 1 /\ new[i] = rig[i]
      BY <1>3, <2>1, <3>1 DEF new
    <3> QED BY <1>3, <3>2
  <2>4. /\ more \in Seq(U) /\ DOMAIN more = 1..n + 1 /\ more[n + 1] = set
        /\ \A i \in 1..n : more[i] = done[i]
    BY <1>3, <2>1 DEF n
  <2> HIDE DEF new, more
  <2>5. \A i \in 1..n + 1 : i \in 1..n \/ i = n + 1
    BY <1>3
  <2>6. \A i \in 1..n + 1 : new[i] = more[i]
    BY <1>3, <2>3, <2>4, <2>5
  <2>7. new = more
    <3> DEFINE m == n + 1
    <3>1. new = [i \in 1..m |-> new[i]] /\ more = [i \in 1..m |-> more[i]]
      BY <2>3, <2>4
    <3> HIDE DEF m
    <3>2. \A i \in 1..m : new[i] = more[i]
      BY <2>6 DEF m
    <3> QED BY <3>1, <3>2
  <2> QED BY <2>7 DEF new, more
<1>10. q = [verdict |-> "Ok", rig |-> Append(done, set)]
  BY <1>1, <1>8, <1>9
<1>11. SetBack(content, set)
  <2>1. (k - 1) + 1 = k
    OBVIOUS
  <2>2. NoteAfter(content, k - 1) = meta
    BY <2>1 DEF NoteAfter
  <2> QED BY <1>6, <2>2 DEF SetBack
<1>12. content[k].kind # "ToolCall"
  BY DEF IsNote
<1>13. /\ Listed(Append(done, set))
       /\ \A i \in DOMAIN Append(done, set) : SetBack(content, Append(done, set)[i])
  BY <1>1, <1>11, SetBackMore
<1> QED BY <1>10, <1>12, <1>13 DEF ReplayedTo, q

(* Everything else comes after what is done. *)
LEMMA PartSetBack ==
  ASSUME NEW content \in Seq(AssistantParts), NEW k \in DOMAIN content, ~IsNote(content[k]),
         NEW keeps,
         content[k].kind = "ProviderData" /\ content[k].data = "reasoning"
           => Replayable(keeps, content[k].value),
         NEW replay, ReplayedTo(content, k - 1, replay)
  PROVE  ReplayedTo(content, k, ReplayPart(keeps, replay, content[k]))
<1> DEFINE part == content[k]
           q == ReplayPart(keeps, replay, part)
<1>1. k \in Nat /\ k > 0 /\ part \in AssistantParts
  OBVIOUS
<1>2. \E done :
        /\ Listed(done) /\ \A i \in DOMAIN done : SetBack(content, done[i])
        /\ replay = [verdict |-> "Ok", rig |-> done]
  <2>1. PICK done :
          /\ Listed(done) /\ \A i \in DOMAIN done : SetBack(content, done[i])
          /\ replay = [verdict |-> "Ok",
                       rig |-> IF k - 1 > 0 /\ content[k - 1].kind = "ToolCall"
                               THEN Append(done, RigCall(content[k - 1].call, Nil)) ELSE done]
    BY DEF ReplayedTo
  <2>2. CASE k - 1 > 0 /\ content[k - 1].kind = "ToolCall"
    <3> DEFINE last == RigCall(content[k - 1].call, Nil)
    <3>1. k - 1 \in DOMAIN content /\ (k - 1) + 1 = k
      BY <1>1, <2>2
    <3>2. NoteAfter(content, k - 1) = Nil
      BY <3>1 DEF NoteAfter
    <3>3. SetBack(content, last)
      BY <2>2, <3>1, <3>2 DEF SetBack, RigCall
    <3> HIDE DEF last
    <3>4. /\ Listed(Append(done, last))
          /\ \A i \in DOMAIN Append(done, last) : SetBack(content, Append(done, last)[i])
      BY <2>1, <3>3, SetBackMore
    <3> QED BY <2>1, <2>2, <3>4 DEF last
  <2>3. CASE ~(k - 1 > 0 /\ content[k - 1].kind = "ToolCall")
    BY <2>1, <2>3
  <2> QED BY <2>2, <2>3
<1>3. PICK done :
        /\ Listed(done) /\ \A i \in DOMAIN done : SetBack(content, done[i])
        /\ replay = [verdict |-> "Ok", rig |-> done]
  BY <1>2
<1>4. \A x : Pushed(replay, x) = [verdict |-> "Ok", rig |-> Append(done, x)]
  BY <1>3 DEF Pushed
<1>5. replay.verdict = "Ok"
  BY <1>3
<1> HIDE DEF part, q
<1>6. CASE part.kind = "ToolCall"
  <2>1. q = Pushed(replay, RigCall(part.call, Nil))
    BY <1>5, <1>6 DEF q, ReplayPart
  <2> QED BY <1>1, <1>3, <1>4, <1>6, <2>1 DEF ReplayedTo, part, q
<1>7. ASSUME NEW x, q = Pushed(replay, x), x.type # "ToolCall", part.kind # "ToolCall"
      PROVE  ReplayedTo(content, k, q)
  <2>1. SetBack(content, x)
    BY <1>7 DEF SetBack
  <2>2. /\ Listed(Append(done, x))
        /\ \A i \in DOMAIN Append(done, x) : SetBack(content, Append(done, x)[i])
    BY <1>3, <2>1, SetBackMore
  <2> QED BY <1>4, <1>7, <2>2 DEF ReplayedTo, part
<1>8. CASE part.kind = "Text"
  <2>1. q = Pushed(replay, RigText(part.text, FALSE)) /\ RigText(part.text, FALSE).type = "Text"
    BY <1>5, <1>8 DEF q, ReplayPart, RigText
  <2> QED BY <1>7, <1>8, <2>1 DEF part, q
<1>9. CASE part.kind = "ProviderData"
  <2>1. part.data = "reasoning"
    <3>1. part.data \in {"reasoning", "tool_call_metadata"}
      BY <1>1, <1>9 DEF AssistantParts
    <3> QED BY <1>9, <3>1 DEF IsNote, part
  <2>2. Replayable(keeps, part.value)
    BY <1>9, <2>1 DEF part
  <2>3. q = Pushed(replay, RigReasoning(part.value)) /\ RigReasoning(part.value).type = "Reasoning"
    BY <1>5, <1>9, <2>1, <2>2 DEF q, ReplayPart, ReplayData, RigReasoning
  <2> QED BY <1>7, <1>9, <2>3 DEF part, q
<1>10. part.kind \in {"Text", "ToolCall", "ProviderData"}
  BY <1>1 DEF AssistantParts
<1> QED BY <1>6, <1>8, <1>9, <1>10 DEF part, q

(* The whole of it. *)
LEMMA ReplaySetsBack ==
  ASSUME NEW content \in Seq(AssistantParts), NEW keeps,
         \A k \in DOMAIN content :
           /\ IsNote(content[k]) =>
                /\ k - 1 \in DOMAIN content /\ content[k - 1].kind = "ToolCall"
                /\ WellFormedMetadata(content[k].value)
           /\ content[k].kind = "ProviderData" /\ content[k].data = "reasoning"
                => Replayable(keeps, content[k].value)
  PROVE  /\ Replay(keeps, content).verdict = "Ok"
         /\ \A k \in DOMAIN Replay(keeps, content).rig :
              SetBack(content, Replay(keeps, content).rig[k])
<1> DEFINE n == Len(content)
           whole == Replay(keeps, content)
<1>1. n \in Nat /\ DOMAIN content = 1..n /\ n \in 0..n
  OBVIOUS
<1>2. PICK acc : /\ acc[0] = NoReplay
                 /\ \A k \in 1..n : acc[k] = ReplayPart(keeps, acc[k - 1], content[k])
                 /\ whole = acc[n]
  BY ReplayIs
<1> DEFINE A == {k \in 0..n : ReplayedTo(content, k, acc[k])}
<1>3. 0 \in A
  <2>1. Listed(<<>>) /\ DOMAIN <<>> = {}
    BY DEF Listed
  <2>2. ReplayedTo(content, 0, NoReplay)
    BY <2>1 DEF ReplayedTo, NoReplay
  <2> QED BY <1>1, <1>2, <2>2
<1>4. ASSUME NEW k \in 1..n, k - 1 \in A PROVE k \in A
  <2>1. ReplayedTo(content, k - 1, acc[k - 1]) /\ acc[k] = ReplayPart(keeps, acc[k - 1], content[k])
    BY <1>2, <1>4
  <2>2. k \in 0..n /\ k \in Nat /\ k \in DOMAIN content
    BY <1>1
  <2>3. CASE IsNote(content[k])
    <3>1. /\ k - 1 \in DOMAIN content /\ content[k - 1].kind = "ToolCall"
          /\ WellFormedMetadata(content[k].value)
      BY <2>2, <2>3
    <3>2. k > 1
      BY <1>1, <2>2, <3>1
    <3>3. ReplayedTo(content, k, acc[k])
      BY <2>1, <2>2, <2>3, <3>1, <3>2, NoteSetBack
    <3> QED BY <2>2, <3>3
  <2>4. CASE ~IsNote(content[k])
    <3>1. ReplayedTo(content, k, acc[k])
      BY <2>1, <2>2, <2>4, PartSetBack
    <3> QED BY <2>2, <3>1
  <2> QED BY <2>3, <2>4
<1>5. ReplayedTo(content, n, whole)
  <2>1. \A k \in 0..n : k \in A
    <3> HIDE DEF A, n
    <3> QED BY <1>1, <1>3, <1>4, CountUp
  <2> QED BY <1>1, <1>2, <2>1
<1>6. PICK done :
        /\ Listed(done) /\ \A i \in DOMAIN done : SetBack(content, done[i])
        /\ whole = [verdict |-> "Ok",
                    rig |-> IF n > 0 /\ content[n].kind = "ToolCall"
                            THEN Append(done, RigCall(content[n].call, Nil)) ELSE done]
  BY <1>5 DEF ReplayedTo
<1> HIDE DEF n, whole
<1>7. whole.verdict = "Ok"
  BY <1>6
<1>8. CASE n > 0 /\ content[n].kind = "ToolCall"
  <2> DEFINE last == RigCall(content[n].call, Nil)
  <2>1. n \in DOMAIN content /\ n + 1 \notin DOMAIN content
    BY <1>1, <1>8
  <2>2. NoteAfter(content, n) = Nil
    BY <2>1 DEF NoteAfter
  <2>3. SetBack(content, last)
    BY <1>8, <2>1, <2>2 DEF SetBack, RigCall
  <2>4. whole.rig = Append(done, last)
    BY <1>6, <1>8
  <2> HIDE DEF last
  <2>5. \A i \in DOMAIN Append(done, last) : SetBack(content, Append(done, last)[i])
    BY <1>6, <2>3, SetBackMore
  <2> QED BY <1>7, <2>4, <2>5 DEF whole
<1>9. CASE ~(n > 0 /\ content[n].kind = "ToolCall")
  <2>1. whole.rig = done
    BY <1>6, <1>9
  <2> QED BY <1>6, <1>7, <2>1 DEF whole
<1> QED BY <1>8, <1>9

-----------------------------------------------------------------------------
(* Metadata is restored: the invariant.                                    *)

(* If each call is sent in one run, the assembler keeps the metadata of each
   behind it, or a call was begun that will never complete; then the response
   that waits has it there, then the one the consumer has. *)
InTurn ==
  OneAtATime(sent) =>
    /\ ~asm.finished /\ ~asm.failed => Noted(asm, sent) \/ Abandoned(sent)
    /\ \A k \in DOMAIN asm.pending :
         asm.pending[k].type = "ResponseCompleted"
           => Followed(asm.pending[k].content, asm.tools, sent)
    /\ outcome = "completed" => Followed(event.content, asm.tools, sent)

(* The call starts with nothing kept. *)
LEMMA InitInTurn == Init => InTurn
<1> SUFFICES ASSUME Init PROVE InTurn
  OBVIOUS
<1>1. asm = NewState /\ outcome # "completed"
  BY DEF Init
<1>2. DOMAIN NewState.tools = {} /\ DOMAIN NewState.content = {}
  BY DEF NewState
<1>3. Noted(asm, sent)
  BY <1>1, <1>2 DEF Noted
<1>4. \A k \in DOMAIN asm.pending : asm.pending[k].type # "ResponseCompleted"
  BY <1>1, NewStateIs DEF ResponseStarted
<1> QED BY <1>1, <1>3, <1>4 DEF InTurn

(* A stream that fails has nothing more to tell. *)
LEMMA InterruptInTurn ==
  ASSUME CallInv, Interrupt
  PROVE  InTurn'
<1>1. DOMAIN asm = Fields
  BY DEF CallInv, Assembled, Typed
<1>2. asm'.pending = <<>> /\ asm'.failed = TRUE /\ outcome' = "failed"
  BY <1>1, FieldsAre DEF Interrupt
<1> QED BY <1>2 DEF InTurn

(* A call that is handled is followed by its metadata. *)
LEMMA PullInTurn ==
  ASSUME CallInv, Keeping, InTurn, NEW item \in Items, Pull(item)
  PROVE  InTurn'
<1>1. /\ Pulling /\ sent' = Append(sent, item) /\ ~Rejects(asm, item)
      /\ asm' = Handle(asm, item) /\ outcome' = outcome
  BY DEF Pull, contractVars
<1>2. /\ Ready(asm, {}) /\ ~asm.finished /\ ~asm.failed
      /\ handle = "open" /\ ~Exhausted
  BY <1>1, PullingReady
<1>3. item \in ItemSet /\ sent \in Seq(ItemSet)
  BY ItemsAssumption, SeqMonotone DEF CallInv, TypeOK
<1>4. asm'.pending \in Seq(Previews)
  BY <1>1, <1>2, <1>3, HandleReady DEF Handled, Ready
<1>5. \A k \in DOMAIN asm'.pending : asm'.pending[k].type # "ResponseCompleted"
  BY <1>4, PreviewsAreNoResponses
<1>6. outcome' # "completed"
  BY <1>1, <1>2, OpenHasNoRecord
<1>7. ASSUME OneAtATime(sent') PROVE Noted(asm', sent') \/ Abandoned(sent')
  <2>1. OneAtATime(sent)
    BY <1>1, <1>3, <1>7, OneAtATimeBefore
  <2>2. Carried(asm, sent) /\ (Noted(asm, sent) \/ Abandoned(sent))
    BY <1>2, <2>1 DEF Keeping, InTurn
  <2> QED BY <1>1, <1>2, <1>3, <1>7, <2>2, HandleNoted
<1> QED BY <1>5, <1>6, <1>7 DEF InTurn

(* The response is made: it has the calls as they were kept. *)
LEMMA ProviderEndsInTurn ==
  ASSUME CallInv, Keeping, InTurn, ProviderEnds
  PROVE  InTurn'
<1> DEFINE content == ContentOf(asm)
           response == ResponseCompleted(content, asm.stop)
           usage == IF asm.usage THEN <<Usage>> ELSE <<>>
<1>1. /\ Pulling /\ ~Incomplete(asm) /\ asm' = FinishStream(asm)
      /\ sent' = sent /\ outcome' = outcome
  BY DEF ProviderEnds, contractVars
<1>2. /\ Ready(asm, {}) /\ (asm.final => asm.text = Nil /\ asm.reasoning = Nil)
      /\ ~asm.finished /\ ~asm.failed /\ asm.pending = <<>>
      /\ handle = "open" /\ ~Exhausted
  BY <1>1, PullingReady
<1>3. DOMAIN asm = Fields /\ sent \in Seq(ItemSet)
  BY <1>2, ItemsAssumption, SeqMonotone DEF Ready, Typed, CallInv, TypeOK
<1>4. /\ asm'.finished = TRUE /\ asm'.tools = asm.tools
      /\ asm'.pending = <<>> \o (usage \o <<response>>)
  BY <1>1, <1>2, <1>3, FieldsAre DEF FinishStream, Emit, ContentOf
<1>5. OneAtATime(sent) => Followed(content, asm.tools, sent)
  BY <1>1, <1>2, FinishFollows DEF Keeping, InTurn
<1> HIDE DEF content
<1>6. response.content = content
  BY DEF ResponseCompleted
<1> HIDE DEF response
<1>7. \A k \in DOMAIN asm'.pending :
        asm'.pending[k].type = "ResponseCompleted" => asm'.pending[k] = response
  <2>1. Usage.type # "ResponseCompleted"
    BY DEF Usage
  <2> DEFINE events == usage \o <<response>>
  <2>2. ASSUME NEW k \in DOMAIN events PROVE events[k] \in {Usage, response}
    BY <2>2
  <2>3. asm'.pending = events
    BY <1>4
  <2> HIDE DEF events
  <2> QED BY <2>1, <2>2, <2>3
<1>8. outcome' # "completed"
  BY <1>1, <1>2, OpenHasNoRecord
<1> QED BY <1>1, <1>4, <1>5, <1>6, <1>7, <1>8 DEF InTurn

(* What waits is handed out: the response as it is. *)
LEMMA DeliveryInTurn ==
  ASSUME CallInv, InTurn, Deliver \/ DeliverResponse \/ RefuseResponse
  PROVE  InTurn'
<1> DEFINE e == Head(asm.pending)
<1>1. Delivering(e)
  BY DEF Deliver, DeliverResponse, RefuseResponse
<1>2. /\ asm.pending # <<>> /\ asm' = [asm EXCEPT !.pending = Tail(asm.pending)]
      /\ sent' = sent
  BY <1>1 DEF Delivering
<1>3. DOMAIN asm = Fields /\ asm.pending \in Seq(Previews \cup Responses)
  BY DEF CallInv, Assembled, Typed
<1>4. /\ asm'.pending = Tail(asm.pending) /\ asm'.tools = asm.tools
      /\ asm'.finished = asm.finished /\ asm'.failed = asm.failed
      /\ asm'.content = asm.content /\ asm'.text = asm.text /\ asm'.next = asm.next
      /\ asm'.reasoning = asm.reasoning /\ asm'.final = asm.final
  BY <1>2, <1>3, FieldsAre
<1>5. ~Exhausted /\ outcome = "open"
  <2> HIDE DEF e
  <2> QED BY <1>1, DeliveringKeeps, OpenHasNoRecord
<1> SUFFICES ASSUME OneAtATime(sent)
             PROVE  /\ ~asm.finished /\ ~asm.failed => Noted(asm', sent) \/ Abandoned(sent)
                    /\ \A k \in DOMAIN asm'.pending :
                         asm'.pending[k].type = "ResponseCompleted"
                           => Followed(asm'.pending[k].content, asm.tools, sent)
                    /\ outcome' = "completed" => Followed(event'.content, asm.tools, sent)
  BY <1>2, <1>4 DEF InTurn
<1>6. ~asm.finished /\ ~asm.failed => Noted(asm', sent) \/ Abandoned(sent)
  BY <1>4 DEF InTurn, Noted, AsNoted
<1>7. ASSUME NEW k \in DOMAIN asm'.pending, asm'.pending[k].type = "ResponseCompleted"
      PROVE  Followed(asm'.pending[k].content, asm.tools, sent)
  <2>1. k + 1 \in DOMAIN asm.pending /\ asm'.pending[k] = asm.pending[k + 1]
    BY <1>2, <1>3, <1>4
  <2> QED BY <1>7, <2>1 DEF InTurn
<1>8. ASSUME outcome' = "completed" PROVE Followed(event'.content, asm.tools, sent)
  <2>1. event' = e /\ e.type = "ResponseCompleted"
    BY <1>5, <1>8 DEF Deliver, DeliverResponse, RefuseResponse
  <2>2. 1 \in DOMAIN asm.pending /\ asm.pending[1] = e
    BY <1>2, <1>3
  <2> HIDE DEF e
  <2> QED BY <2>1, <2>2 DEF InTurn
<1> QED BY <1>6, <1>7, <1>8

(* Every step keeps to it. *)
LEMMA StepInTurn == CallInv /\ Keeping /\ InTurn /\ [Next]_vars => InTurn'
<1> SUFFICES ASSUME CallInv, Keeping, InTurn, [Next]_vars PROVE InTurn'
  OBVIOUS
<1>1. CASE Connect \/ ConnectFails
  BY <1>1 DEF Connect, ConnectFails, InTurn
<1>2. CASE Provide
  <2>1. ASSUME NEW item \in Items, PullBad(item) PROVE InTurn'
    BY <2>1, InterruptInTurn DEF PullBad
  <2>2. CASE ProviderFails \/ ProviderEndsEarly
    BY <2>2, InterruptInTurn DEF ProviderFails, ProviderEndsEarly
  <2> QED BY <1>2, <2>1, <2>2, PullInTurn, ProviderEndsInTurn DEF Provide
<1>3. CASE Deliver \/ DeliverResponse \/ RefuseResponse
  BY <1>3, DeliveryInTurn
<1>4. CASE End \/ Drop
  BY <1>4 DEF End, Drop, contractVars, InTurn
<1>5. CASE UNCHANGED vars
  BY <1>5 DEF vars, InTurn
<1> QED BY <1>1, <1>2, <1>3, <1>4, <1>5 DEF Next, Poll

\* What was sent with calls is metadata as replay_tool_call_metadata takes it:
\* it refuses an object without fields, or with an empty call id or signature,
\* which a provider may still send.
Restorable(items) ==
  \A k \in DOMAIN items :
    items[k].type = "ToolCall" /\ items[k].meta # Nil => WellFormedMetadata(items[k].meta)

(* A response whose calls are followed by their metadata is replayed so. *)
LEMMA FollowedIsRestored ==
  ASSUME Followed(event.content, asm.tools, sent), Restorable(sent)
  PROVE  Restored
<1> DEFINE content == event.content
           replay == Replay(KeepsSignatures, content)
<1> HIDE DEF content
<1> SUFFICES ASSUME \A part \in Range(content) :
                      part.kind = "ProviderData" /\ part.data = "reasoning"
                        => Replayable(KeepsSignatures, part.value)
             PROVE  /\ replay.verdict = "Ok"
                    /\ \A k \in DOMAIN replay.rig :
                         replay.rig[k].type = "ToolCall" =>
                           replay.rig[k].meta = MetaSent(replay.rig[k].call)
  BY DEF Restored, content
<1>1. content \in Seq(AssistantParts) /\ \A k \in DOMAIN content : content[k] \in Range(content)
  BY DEF Followed, Range, content
<1>2. ASSUME NEW k \in DOMAIN content, content[k].kind = "ToolCall"
      PROVE  /\ NoteAfter(content, k) = MetaSent(content[k].call)
             /\ NoteAfter(content, k) # Nil => WellFormedMetadata(NoteAfter(content, k))
  <2> DEFINE Of(j) == /\ sent[j].type = "ToolCall"
                      /\ asm.tools[sent[j].tool].id = content[k].call.id
  <2>1. PICK j \in DOMAIN sent : /\ Of(j) /\ sent[j].meta = NoteAfter(content, k)
                                 /\ \A m \in DOMAIN sent : Of(m) => m = j
    BY <1>2 DEF Followed, content
  <2>2. MetaSent(content[k].call) = sent[CHOOSE i \in DOMAIN sent : Of(i)].meta
    BY DEF MetaSent
  <2>3. Of(j)
    BY <2>1
  <2>4. NoteAfter(content, k) # Nil => WellFormedMetadata(NoteAfter(content, k))
    BY <2>1 DEF Restorable
  <2> HIDE DEF Of
  <2>5. (CHOOSE i \in DOMAIN sent : Of(i)) = j
    BY <2>1, <2>3
  <2> QED BY <2>1, <2>2, <2>4, <2>5
<1>3. ASSUME NEW k \in DOMAIN content, IsNote(content[k])
      PROVE  /\ k - 1 \in DOMAIN content /\ content[k - 1].kind = "ToolCall"
             /\ WellFormedMetadata(content[k].value)
  <2>1. /\ content[k].value # Nil
        /\ k - 1 \in DOMAIN content /\ content[k - 1].kind = "ToolCall"
    BY <1>3 DEF Followed, content
  <2>2. (k - 1) + 1 = k
    BY <1>1
  <2>3. NoteAfter(content, k - 1) = content[k].value
    BY <1>3, <2>2 DEF NoteAfter
  <2> QED BY <1>2, <2>1, <2>3
<1>4. /\ replay.verdict = "Ok"
      /\ \A k \in DOMAIN replay.rig : SetBack(content, replay.rig[k])
  BY <1>1, <1>3, ReplaySetsBack
<1> HIDE DEF replay
<1>5. ASSUME NEW k \in DOMAIN replay.rig, replay.rig[k].type = "ToolCall"
      PROVE  replay.rig[k].meta = MetaSent(replay.rig[k].call)
  <2>1. PICK p \in DOMAIN content :
          /\ content[p].kind = "ToolCall"
          /\ replay.rig[k].call = content[p].call /\ replay.rig[k].meta = NoteAfter(content, p)
    BY <1>4, <1>5 DEF SetBack
  <2> QED BY <1>2, <2>1
<1> QED BY <1>4, <1>5

\* From a provider that sends one call at a time, with metadata that can be
\* replayed, the metadata of each call of a recorded response is put back on
\* that call and on no other, whatever else is sent, in whatever order, and
\* however many items.
THEOREM MetadataComesBack == Spec => [](Restorable(sent) => MetadataRestoredInTurn)
<1>1. Keeping /\ InTurn /\ CallInv /\ [Next]_vars => (Keeping /\ InTurn)'
  BY StepKeeping, StepInTurn
<1>2. InTurn => (Restorable(sent) => MetadataRestoredInTurn)
  BY FollowedIsRestored DEF InTurn, MetadataRestoredInTurn
<1> QED BY <1>1, <1>2, InitKeeping, InitInTurn, CallAlways, PTL DEF Spec
=============================================================================

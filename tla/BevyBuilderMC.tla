---------------------------- MODULE BevyBuilderMC ----------------------------
(***************************************************************************)
(* Instances of BevyBuilder for TLC.  Systems are the numbers 1 to 4,      *)
(* modules "core", "rules" and "extra"; entry "look", clock types "turn"   *)
(* and "tick".                                                             *)
(***************************************************************************)
EXTENDS BevyBuilder, SequencesExt

MCModuleIds == {"core", "rules", "extra"}
MCVersions == {1, 2}
MCCapabilities == {"native_modules", "hosted_modules"}
MCSupported == {"native_modules"}
MCEntries == {"look"}
MCClockTypes == {"turn", "tick"}

Responds(id, trigger) == [id |-> id, trigger |-> trigger, before |-> <<>>, after |-> <<>>]
Needs(id) == [id |-> id, accepts |-> {1}]
Plain(id) ==
  [id |-> id, version |-> 1, apiSupported |-> TRUE, schemasValid |-> TRUE,
   plane |-> "native", capabilities |-> {"native_modules"}, deps |-> <<>>,
   entries |-> <<>>, clocks |-> <<>>, systems |-> <<>>]

\* Registration: "core" owns the entry, a clock type and a system; "rules" owns
\* another of each, or clashes with "core" in one of them; and descriptors that
\* are invalid by themselves.
Core == [Plain("core") EXCEPT !.entries = <<"look">>, !.clocks = <<"turn">>,
                              !.systems = <<Responds(1, "look")>>]
Rules == [Plain("rules") EXCEPT !.clocks = <<"tick">>, !.systems = <<Responds(2, "tick")>>]
Both == [Plain("extra") EXCEPT !.clocks = <<"turn", "tick">>]
RegisterDescriptors ==
  {Core, Rules, Both,
   [Rules EXCEPT !.id = "core"], [Rules EXCEPT !.entries = <<"look">>],
   [Rules EXCEPT !.systems = <<Responds(1, "tick")>>],
   [Core EXCEPT !.apiSupported = FALSE], [Core EXCEPT !.schemasValid = FALSE],
   [Core EXCEPT !.deps = <<Needs("core")>>], [Core EXCEPT !.deps = <<Needs("rules"), Needs("rules")>>],
   [Core EXCEPT !.entries = <<"look", "look">>], [Core EXCEPT !.clocks = <<"turn", "turn">>],
   [Core EXCEPT !.systems = <<Responds(1, "look"), Responds(1, "turn")>>]}

\* Order: each of three modules owns a system of one entry, and the systems
\* declare every set of others to precede, the last one every set to follow.
Ordered(id, system, before, after) ==
  [Plain(id) EXCEPT
     !.deps = SetToSeq({Needs(x) : x \in MCModuleIds \ {id}}),
     !.entries = IF id = "core" THEN <<"look">> ELSE <<>>,
     !.systems = <<[Responds(system, "look") EXCEPT !.before = SetToSeq(before),
                                                    !.after = SetToSeq(after)]>>]
OrderDescriptors ==
  {Ordered("core", 1, b, {}) : b \in SUBSET {2, 3}}
    \cup {Ordered("rules", 2, b, {}) : b \in SUBSET {1, 3}}
    \cup {Ordered("extra", 3, b, a) : b \in SUBSET {1, 2}, a \in SUBSET {1, 2}}

\* Visibility: systems of "rules" and "extra" respond to what "core" owns and are
\* ordered against each other, forwards and backwards; and every way to be
\* turned away at activation.
Host == [Plain("core") EXCEPT !.entries = <<"look">>, !.clocks = <<"turn">>,
                              !.systems = <<Responds(1, "look")>>]
Guest == [Plain("rules") EXCEPT !.deps = <<Needs("core")>>,
                                !.systems = <<[Responds(2, "look") EXCEPT !.before = <<1>>]>>]
Third == [Plain("extra") EXCEPT !.deps = <<Needs("rules"), Needs("core")>>,
            !.systems = <<[Responds(3, "look") EXCEPT !.before = <<2>>, !.after = <<1>>]>>]
VisibleDescriptors ==
  {Host, Guest, Third,
   [Host EXCEPT !.version = 2], [Host EXCEPT !.capabilities = MCCapabilities],
   [Host EXCEPT !.deps = <<Needs("extra")>>],
   [Guest EXCEPT !.plane = "hosted"], [Guest EXCEPT !.plane = "foreign"],
   [Guest EXCEPT !.plane = "outdated"], [Guest EXCEPT !.deps = <<>>],
   [Guest EXCEPT !.systems = <<[Responds(2, "turn") EXCEPT !.before = <<1>>]>>],
   [Guest EXCEPT !.systems = <<[Responds(2, "look") EXCEPT !.after = <<2>>]>>],
   [Guest EXCEPT !.systems = <<[Responds(2, "look") EXCEPT !.after = <<1, 4>>]>>],
   [Third EXCEPT !.deps = <<Needs("core")>>],
   [Third EXCEPT !.systems = <<[Responds(3, "look") EXCEPT !.before = <<1>>]>>],
   [Third EXCEPT !.systems = <<Responds(3, "tick")>>]}

AllDescriptors == RegisterDescriptors \cup OrderDescriptors \cup VisibleDescriptors
=============================================================================

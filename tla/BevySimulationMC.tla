-------------------------- MODULE BevySimulationMC --------------------------
(***************************************************************************)
(* Instances of BevySimulation for TLC.                                    *)
(***************************************************************************)
EXTENDS BevySimulation, TLC

InstanceSymmetry == Permutations(Instances)

\* Clock values: 0 and 1 are accepted everywhere, 2 breaks the schema, 3 can
\* neither be encoded nor passes Clock::validate.
MCValues == 0..3
MCSchemaValues == {0, 1, 3}
MCCodecValues == {0, 1, 2}
MCValidValues == {0, 1, 2}

\* Steps: 1 is accepted, 2 breaks the schema, 3 cannot be decoded.
MCSteps == 1..3
MCSchemaSteps == {1, 3}
MCCodecSteps == {1, 2}

\* No system at all.
NoSystems == {}
NoTriggers == <<>>
NoOrder == <<>>

\* Entry "look": 1 before 3 by the declaration of 1, 4 after 3 by that of 4, 2
\* unordered.  Entry "wait": system 5 alone.
FiveSystems == 1..5
FiveTriggers == [s \in FiveSystems |-> IF s = 5 THEN "wait" ELSE "look"]
FiveBefore == [s \in FiveSystems |-> IF s = 1 THEN {3} ELSE {}]
FiveAfter == [s \in FiveSystems |-> IF s = 4 THEN {3} ELSE {}]

\* Clock type "turn": a chain, 1 before 2 by the declarations of both, 3
\* after 2 by that of 3.
ThreeSystems == 1..3
ThreeTriggers == [s \in ThreeSystems |-> "turn"]
ThreeBefore == [s \in ThreeSystems |-> IF s = 1 THEN {2} ELSE {}]
ThreeAfter == [s \in ThreeSystems |-> IF s = 1 THEN {} ELSE {s - 1}]

\* Entries are executed in worlds without clocks.
ClocksOrEntries == "Execute" \in {last.op, call} => spawned = 0
=============================================================================

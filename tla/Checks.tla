------------------------------- MODULE Checks -------------------------------
(***************************************************************************)
(* A chain of checks that returns early: the verdict of each is "Ok" or    *)
(* an error, and the first that is not "Ok" answers.                       *)
(***************************************************************************)
EXTENDS Naturals, Sequences

Passed(verdicts) == \A i \in DOMAIN verdicts : verdicts[i] = "Ok"
FailsFirst(verdicts, i) ==
  verdicts[i] # "Ok" /\ \A j \in DOMAIN verdicts : j < i => verdicts[j] = "Ok"

FirstError(verdicts) ==
  IF Passed(verdicts) THEN "Ok"
  ELSE verdicts[CHOOSE i \in DOMAIN verdicts : FailsFirst(verdicts, i)]
=============================================================================

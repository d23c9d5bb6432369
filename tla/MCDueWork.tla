------------------------------ MODULE MCDueWork ------------------------------
(* Instances of DueWork for TLC.                                           *)
EXTENDS DueWork

\* A schedule with three occurrences, so that one can come behind a follow-up, one
\* with an occurrence of its own, and one that does not parse.
MCCron   == {"A", "B", "bad"}
MCFires  ==
  [c \in MCCron |-> CASE c = "A" -> {1, 3, 5} [] c = "B" -> {4} [] c = "bad" -> {}]
MCFewFires == [c \in MCCron |-> IF c = "bad" THEN {} ELSE {1}]
MCBroken == {"bad"}
=============================================================================

--------------------------- MODULE MCRunLifecycle ---------------------------
(* Instances of RunLifecycle for TLC.                                      *)
EXTENDS RunLifecycle, TLC

\* A dataset, one of its descendants, and a directory whose name begins like
\* another one's.
Parent == <<"zfs", "tank", "app">>
Child  == <<"zfs", "tank", "app", "db">>
Other  == <<"fs", "tank", "app2">>

MCDest == {Parent, Child, Other}

CONSTANTS t1, t2, t3, s1, s2, s3

\* Three tasks of three sources: two overlapping destinations, one apart.
MCInitDest ==
  {[t \in {t1, t2, t3} |-> CASE t = t1 -> Parent [] t = t2 -> Child [] t = t3 -> Other]}
MCInitSource ==
  {[t \in {t1, t2, t3} |-> CASE t = t1 -> s1 [] t = t2 -> s2 [] t = t3 -> s3]}

\* Two tasks, every configuration, and edits.
AnyDest   == [{t1, t2} -> MCDest]
AnySource == [{t1, t2} -> {s1, s2}]

RunSymmetry == Permutations(Run)
=============================================================================

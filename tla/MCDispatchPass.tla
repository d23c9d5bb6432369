--------------------------- MODULE MCDispatchPass ---------------------------
(* Instances of DispatchPass for TLC.                                      *)
EXTENDS DispatchPass

Parent == <<"zfs", "tank", "app">>
Left   == <<"zfs", "tank", "app", "db">>
Right  == <<"zfs", "tank", "app", "www">>
Apart  == <<"fs", "tank">>

MCDest   == {Parent, Left, Right, Apart}
MCSource == {"s1", "s2", "s3"}

\* One task over the destinations of two others, which are apart.
Over   == {"over", "left", "right"}
OverDest ==
  [t \in Over |-> CASE t = "over" -> Parent [] t = "left" -> Left [] t = "right" -> Right]
OverSource ==
  [t \in Over |-> CASE t = "over" -> "s1" [] t = "left" -> "s2" [] t = "right" -> "s3"]

\* The same with the third task on the source of the second, and its destination
\* outside the roots.
MixedDest   == [OverDest EXCEPT !["right"] = Apart]
MixedSource == [OverSource EXCEPT !["right"] = "s2"]
=============================================================================

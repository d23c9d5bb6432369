------------------------------ MODULE DestKeys ------------------------------
(***************************************************************************)
(* Destination keys (services/runner.py, _destination_key/_conflicts).     *)
(*                                                                         *)
(* A run claims the destination it writes as the tuple of its path or      *)
(* dataset components, led by the namespace ("fs" or "zfs").  Two keys     *)
(* conflict when one contains the other, in either direction: exclusion is *)
(* by containment, not identity.                                           *)
(***************************************************************************)
EXTENDS Integers, Sequences

Shorter(m, n) == IF m <= n THEN m ELSE n

\* left[:shared] == right[:shared]
Conflicts(left, right) ==
  LET shared == Shorter(Len(left), Len(right))
  IN  \A i \in 1..shared : left[i] = right[i]

\* The containment the exclusion is about: everything below `inner` is also
\* below `outer`.
Covers(outer, inner) ==
  /\ Len(outer) <= Len(inner)
  /\ \A i \in 1..Len(outer) : outer[i] = inner[i]
=============================================================================

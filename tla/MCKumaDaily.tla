---------------------------- MODULE MCKumaDaily ----------------------------
(***************************************************************************)
(* The synchronisation with Uptime Kuma under daily schedules, for TLC.    *)
(***************************************************************************)
EXTENDS MCKuma

\* Daily schedules with a cycle of four: the first gap of one is stretched, the
\* first occurrence of the other repeated, by a change of the clocks.
DailyFires == [spring |-> {5, 9, 13, 17}, fall |-> {4, 5, 9, 13, 17}]
DailyNominal ==
  LET utc == {4, 8, 12, 16, 20, 24} IN [spring |-> utc, fall |-> utc]

\* They are what the promises about time need.
ASSUME DailyAssumption == Even /\ Roomy /\ MarginCovers
=============================================================================

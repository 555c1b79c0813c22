-------------------------- MODULE MCSessionAlarms --------------------------
(* Model checking of SessionAlarms: two sessions, the alarm that deletes them, *)
(* and one alarm that recurs.                                                  *)
EXTENDS SessionAlarms, TLC

CONSTANTS s1, s2, delete, r1

MCQuicAlarms == {s1, s2, delete}
MCRecurringAlarms == {r1}
Symmetry == Permutations({s1, s2})
=============================================================================

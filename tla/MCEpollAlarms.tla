--------------------------- MODULE MCEpollAlarms ---------------------------
(* Model checking of EpollAlarms: two QUIC alarms, one that recurs. *)
EXTENDS EpollAlarms

CONSTANTS q1, q2, r1

MCQuicAlarms == {q1, q2}
MCRecurringAlarms == {r1}
=============================================================================

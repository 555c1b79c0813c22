---------------------------- MODULE AlarmService ----------------------------
(***************************************************************************)
(* What the alarms of an EpollServer promise to their owners (the comments *)
(* of EpollAlarmCallbackInterface, epoll_server.h, and of QuicAlarm as     *)
(* QuicEpollAlarm uses it), without the map, the iterator, the tokens and  *)
(* the sets that keep the promise.                                         *)
(*                                                                         *)
(* An alarm fires when its deadline has come, never earlier, never when it *)
(* was cancelled, one at a time; and the owners' clock does not move on,   *)
(* nor does anything else run, while an alarm that a round found due is    *)
(* neither fired nor cancelled.                                            *)
(***************************************************************************)
EXTENDS Naturals

CONSTANTS Alarms, NoAlarm

VARIABLES
  time,       \* what owners take for the time
  deadline,   \* per alarm, 0 when it is not set
  on_stack,   \* the alarm that is firing, or NoAlarm
  pending     \* alarms that a round found due

serviceVars == <<time, deadline, on_stack, pending>>

Init ==
  /\ time \in Nat \ {0}
  /\ deadline = [cb \in Alarms |-> 0]
  /\ on_stack = NoAlarm
  /\ pending = {}

\* At most the deadline of cb changes.
OnlyDeadlineOf(cb) ==
  /\ deadline'[cb] \in Nat
  /\ deadline' = [deadline EXCEPT ![cb] = deadline'[cb]]

\* An owner sets or cancels an alarm: from an alarm, or when none is pending.
SetOrCancel(cb) ==
  /\ on_stack # NoAlarm \/ pending = {}
  /\ OnlyDeadlineOf(cb)
  /\ pending' = pending \ {cb}
  /\ UNCHANGED <<time, on_stack>>

\* A round looks which alarms are due.
FindDue ==
  /\ on_stack = NoAlarm
  /\ pending = {}
  /\ pending' = {cb \in Alarms : deadline[cb] \in 1..time}
  /\ UNCHANGED <<time, deadline, on_stack>>

Fire(cb) ==
  /\ on_stack = NoAlarm
  /\ deadline[cb] \in 1..time
  /\ on_stack' = cb
  /\ deadline' = [deadline EXCEPT ![cb] = 0]
  /\ pending' = pending \ {cb}
  /\ UNCHANGED time

\* An alarm that fired may ask for another time, unless it was set meanwhile.
Return ==
  /\ on_stack # NoAlarm
  /\ on_stack' = NoAlarm
  /\ IF deadline[on_stack] = 0 THEN OnlyDeadlineOf(on_stack) ELSE UNCHANGED deadline
  /\ UNCHANGED <<time, pending>>

TimePasses ==
  /\ on_stack = NoAlarm
  /\ pending = {}
  /\ time' \in Nat
  /\ time' > time
  /\ UNCHANGED <<deadline, on_stack, pending>>

Next ==
  \/ \E cb \in Alarms : SetOrCancel(cb) \/ Fire(cb)
  \/ FindDue
  \/ Return
  \/ TimePasses

Spec == Init /\ [][Next]_serviceVars
=============================================================================

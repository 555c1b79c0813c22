---------------------------- MODULE EpollAlarms ----------------------------
(***************************************************************************)
(* The alarms of EpollServer (net/tools/epoll_server/epoll_server.cc) and  *)
(* the QuicEpollAlarm that wraps them for QUIC                             *)
(* (net/tools/quic/quic_epoll_connection_helper.cc).                       *)
(*                                                                         *)
(* alarm_map_ is a multimap from times to callbacks that the alarm loop    *)
(* traverses with an iterator while the callbacks it calls insert and      *)
(* erase entries.  It is a sequence here, and the iterator i is the        *)
(* position `cursor', which moves with its entry.  What runs inside a      *)
(* callback is external: any calls of Set and Cancel on any alarms.        *)
(***************************************************************************)
EXTENDS Integers, Sequences, FiniteSets, SequencesExt

CONSTANTS
  QuicAlarms,        \* QuicEpollAlarms: OnAlarm returns 0, Fire registers
  RecurringAlarms,   \* other EpollAlarms: OnAlarm returns the next time
  NoAlarm,           \* no callback is running
  timeout_in_us,     \* how long a round may sleep, or a negative number: for ever
  UsPerMs,           \* what epoll_wait counts in: 1000
  MaxTime            \* bound: of the clock and of deadlines

ASSUME AlarmsAssumption ==
  /\ QuicAlarms \cap RecurringAlarms = {}
  /\ NoAlarm \notin QuicAlarms \cup RecurringAlarms
  /\ timeout_in_us \in Int
  /\ UsPerMs \in Nat \ {0}
  /\ MaxTime \in Nat \ {0}

Alarms == QuicAlarms \cup RecurringAlarms

VARIABLES
  clock,          \* NowInUsec()
  recorded_now,   \* recorded_now_in_us_, 0 outside of a round
  alarm_map,      \* entries [time, cb] in the order of the multimap
  all_alarms,
  skipped,        \* alarms_reregistered_and_should_be_skipped_
  registered,     \* EpollAlarm::registered_, one per alarm
  deadline,       \* of QuicAlarm: 0 when the alarm is not set.  For a
                  \* recurring alarm: the time it was last registered for
  phase,          \* what the thread is in: see Phases
  epoll_timeout,  \* of the last epoll_wait, in ms; -1 is for ever
  with_alarms,    \* was alarm_map empty when this round began?
  cursor,         \* the iterator i of the alarm loop; 0 outside of it
  running,        \* the alarm whose OnAlarm is on the stack, or NoAlarm
  due,            \* auxiliary: alarms due when the loop began, still to run
  set_in_loop,    \* auxiliary: alarms registered since the loop began
  rerun_due       \* auxiliary: alarms that returned, in this loop, a time
                  \* that had come

Phases == {"outside",     \* WaitForEventsAndExecuteCallbacks is not running
           "events",      \* callbacks of file descriptors
           "loop",        \* CallAndReregisterAlarmEvents
           "on_alarm"}    \* in it, a callback

roundVars == <<phase, with_alarms, recorded_now, epoll_timeout>>
vars == <<clock, roundVars, alarm_map, all_alarms, skipped, registered, deadline,
          cursor, running, due, set_in_loop, rerun_due>>

Times == 1..MaxTime
InLoop == phase \in {"loop", "on_alarm"}

-----------------------------------------------------------------------------
(* The multimap and its iterators *)

\* alarm_map_.insert: after the entries of the same time.
InsertionPoint(map, time) ==
  1 + Cardinality({p \in DOMAIN map : map[p].time <= time})

\* RegisterAlarm(time, cb), with the iterator at position c and the alarms all.
RegisterAlarm(map, c, all, time, cb) ==
  /\ cb \notin all   \* else "Alarm already exists" is fatal
  /\ LET p == InsertionPoint(map, time) IN
       /\ alarm_map' = InsertAt(map, p, [time |-> time, cb |-> cb])
       /\ cursor' = IF p <= c THEN c + 1 ELSE c
  /\ all_alarms' = all \cup {cb}
  /\ registered' = [registered EXCEPT ![cb] = TRUE]
  /\ set_in_loop' = IF InLoop THEN set_in_loop \cup {cb} ELSE set_in_loop

\* The entry the token of a registered alarm points to: an alarm that is on
\* the stack and registered again has a second entry, under the iterator.
Token_OfCallback(cb) ==
  CHOOSE p \in DOMAIN alarm_map :
    /\ alarm_map[p].cb = cb
    /\ \A q \in DOMAIN alarm_map : alarm_map[q].cb = cb => p <= q

Token(cb) ==
  CHOOSE p \in DOMAIN alarm_map :
    alarm_map[p].cb = cb /\ (running = cb => p # cursor)

\* UnregisterIfRegistered, with UnregisterAlarm.
UnregisterIfRegistered(cb) ==
  IF registered[cb]
  THEN LET p == Token(cb) IN
         /\ alarm_map' = RemoveAt(alarm_map, p)
         /\ cursor' = IF p < cursor THEN cursor - 1 ELSE cursor
         /\ all_alarms' = all_alarms \ {cb}
         /\ registered' = [registered EXCEPT ![cb] = FALSE]
  ELSE UNCHANGED <<alarm_map, cursor, all_alarms, registered>>

-----------------------------------------------------------------------------
(* The calls of clients: from outside, from an event or from an alarm *)

ClientRuns == phase # "loop"

\* QuicAlarm::Set, on an alarm that is not set.
Set(cb, time) ==
  /\ ClientRuns
  /\ deadline[cb] = 0
  /\ cb \in RecurringAlarms => running # cb   \* its OnAlarm returns a time
  /\ deadline' = [deadline EXCEPT ![cb] = time]
  /\ RegisterAlarm(alarm_map, cursor, all_alarms, time, cb)
  /\ UNCHANGED <<clock, roundVars, skipped, running, due, rerun_due>>

\* Mutant: only the QuicAlarm forgets its deadline.
Cancel_KeepsRegistration(cb) ==
  /\ ClientRuns
  /\ deadline' = [deadline EXCEPT ![cb] = 0]
  /\ due' = due \ {cb}
  /\ UNCHANGED <<clock, roundVars, alarm_map, cursor, all_alarms, registered, skipped, running,
                 set_in_loop, rerun_due>>

\* QuicAlarm::Cancel, also of an alarm that is not set.
Cancel(cb) ==
  /\ ClientRuns
  /\ deadline' = [deadline EXCEPT ![cb] = 0]
  /\ UnregisterIfRegistered(cb)
  /\ due' = due \ {cb}
  /\ UNCHANGED <<clock, roundVars, skipped, running, set_in_loop, rerun_due>>

-----------------------------------------------------------------------------
(* WaitForEventsAndExecuteCallbacks *)

\* The time to sleep: to the first alarm or for timeout_in_us.
WaitTime ==
  IF alarm_map = << >>
  THEN timeout_in_us
  ELSE LET alarm_timeout == alarm_map[1].time - clock IN
         IF alarm_timeout < timeout_in_us \/ timeout_in_us < 0
         THEN IF alarm_timeout > 0 THEN alarm_timeout ELSE 0
         ELSE timeout_in_us

\* The argument of epoll_wait, in ms, when the ready list is empty.
EpollTimeout_Truncates(wait) ==
  IF wait < 0 THEN -1 ELSE wait \div UsPerMs

EpollTimeout(wait) ==
  CASE wait = 0 -> 0
    [] wait < 0 -> -1
    [] wait > 0 /\ wait < UsPerMs -> 1
    [] wait >= UsPerMs -> wait \div UsPerMs

\* Up to the callbacks of file descriptors.  The wait may end before its timeout,
\* with an event, or late.
WaitForEvents ==
  /\ phase = "outside"
  /\ phase' = "events"
  /\ epoll_timeout' = EpollTimeout(WaitTime)
  /\ with_alarms' = (alarm_map # << >>)
  /\ \E now \in clock..MaxTime :
       /\ clock' = now
       /\ recorded_now' = now
  /\ UNCHANGED <<alarm_map, all_alarms, skipped, registered, deadline, cursor,
                 running, due, set_in_loop, rerun_due>>

\* With no alarms at the start of the round the alarm loop is not entered, even
\* if an event has set one.
ReturnWithoutAlarms ==
  /\ phase = "events"
  /\ ~ with_alarms
  /\ phase' = "outside"
  /\ recorded_now' = 0
  /\ UNCHANGED <<clock, with_alarms, epoll_timeout, alarm_map, all_alarms, skipped,
                 registered, deadline, cursor, running, due, set_in_loop, rerun_due>>

CallAlarms ==
  /\ phase = "events"
  /\ with_alarms
  /\ phase' = "loop"
  /\ cursor' = 1
  /\ due' = {cb \in Alarms : deadline[cb] # 0 /\ deadline[cb] <= recorded_now}
  /\ set_in_loop' = {}
  /\ UNCHANGED <<clock, with_alarms, recorded_now, epoll_timeout, alarm_map, all_alarms,
                 skipped, registered, deadline, running, rerun_due>>

AtDueEntry_Strict ==
  /\ phase = "loop"
  /\ cursor \in DOMAIN alarm_map
  /\ alarm_map[cursor].time < recorded_now

AtDueEntry ==
  /\ phase = "loop"
  /\ cursor \in DOMAIN alarm_map
  /\ alarm_map[cursor].time <= recorded_now

SkipAlarm ==
  /\ AtDueEntry
  /\ alarm_map[cursor].cb \in skipped
  /\ cursor' = cursor + 1
  /\ UNCHANGED <<clock, roundVars, alarm_map, all_alarms, skipped, registered,
                 deadline, running, due, set_in_loop, rerun_due>>

\* all_alarms_.erase(cb), then OnAlarm: EpollAlarm::OnAlarm and QuicAlarm::Fire
\* up to the delegate.  The entry stays in alarm_map_.
RunAlarm ==
  /\ AtDueEntry
  /\ LET cb == alarm_map[cursor].cb IN
       /\ cb \notin skipped
       /\ running' = cb
       /\ all_alarms' = all_alarms \ {cb}
       /\ registered' = [registered EXCEPT ![cb] = FALSE]
       /\ deadline' = [deadline EXCEPT ![cb] = 0]
       /\ due' = due \ {cb}
  /\ phase' = "on_alarm"
  /\ UNCHANGED <<clock, with_alarms, recorded_now, epoll_timeout, alarm_map, skipped, cursor,
                 set_in_loop, rerun_due>>

\* Back from OnAlarm: the entry under the iterator goes, the iterator moves to
\* the next one.
LeavesOnAlarm ==
  /\ phase = "on_alarm"
  /\ phase' = "loop"
  /\ running' = NoAlarm
  /\ UNCHANGED <<clock, with_alarms, recorded_now, epoll_timeout, due>>

\* Fire registers the alarm again, before the entry goes, when the delegate
\* returned a time and did not set the alarm itself.
QuicAlarmReturns(time) ==
  /\ running \in QuicAlarms
  /\ LeavesOnAlarm
  /\ IF time # 0 /\ deadline[running] = 0
     THEN /\ deadline' = [deadline EXCEPT ![running] = time]
          /\ LET p == InsertionPoint(alarm_map, time) IN
               IF p <= cursor
               THEN /\ alarm_map' = RemoveAt(InsertAt(alarm_map, p,
                                      [time |-> time, cb |-> running]), cursor + 1)
                    /\ cursor' = cursor + 1
               ELSE /\ alarm_map' = RemoveAt(InsertAt(alarm_map, p,
                                      [time |-> time, cb |-> running]), cursor)
                    /\ cursor' = cursor
          /\ all_alarms' = all_alarms \cup {running}
          /\ registered' = [registered EXCEPT ![running] = TRUE]
          /\ set_in_loop' = set_in_loop \cup {running}
     ELSE /\ alarm_map' = RemoveAt(alarm_map, cursor)
          /\ UNCHANGED <<cursor, deadline, all_alarms, registered, set_in_loop>>
  /\ UNCHANGED <<skipped, rerun_due>>

\* Does OnAlarm ask for another call?
IsNewTimeout_OrZero(time) == time >= 0

IsNewTimeout(time) == time > 0

\* What OnAlarm's new time adds to alarms_reregistered_and_should_be_skipped_.
MustWait_Strict(cb, time) == IF time < recorded_now THEN {cb} ELSE {}

MustWait(cb, time) == IF time <= recorded_now THEN {cb} ELSE {}

\* The epoll server registers the alarm again, after the entry has gone; for a
\* time that has come it must not run again in this loop.
RecurringAlarmReturns(time) ==
  /\ running \in RecurringAlarms
  /\ LeavesOnAlarm
  /\ IF IsNewTimeout(time)
     THEN /\ RegisterAlarm(RemoveAt(alarm_map, cursor), cursor, all_alarms, time, running)
          /\ deadline' = [deadline EXCEPT ![running] = time]
          /\ skipped' = skipped \cup MustWait(running, time)
          /\ rerun_due' = IF time <= recorded_now THEN rerun_due \cup {running}
                                                 ELSE rerun_due
     ELSE /\ alarm_map' = RemoveAt(alarm_map, cursor)
          /\ UNCHANGED <<cursor, deadline, all_alarms, registered, set_in_loop, skipped,
                         rerun_due>>

ReturnAfterAlarms ==
  /\ phase = "loop"
  /\ ~ AtDueEntry
  /\ phase' = "outside"
  /\ recorded_now' = 0
  /\ skipped' = {}
  /\ cursor' = 0
  /\ rerun_due' = {}
  /\ UNCHANGED <<clock, with_alarms, epoll_timeout, alarm_map, all_alarms, registered,
                 deadline, running, due, set_in_loop>>

-----------------------------------------------------------------------------
Init ==
  /\ clock = 1
  /\ recorded_now = 0
  /\ alarm_map = << >>
  /\ all_alarms = {}
  /\ skipped = {}
  /\ registered = [cb \in Alarms |-> FALSE]
  /\ deadline = [cb \in Alarms |-> 0]
  /\ phase = "outside"
  /\ epoll_timeout = -1
  /\ with_alarms = FALSE
  /\ cursor = 0
  /\ running = NoAlarm
  /\ due = {}
  /\ set_in_loop = {}
  /\ rerun_due = {}

Next ==
  \/ \E cb \in Alarms, time \in Times : Set(cb, time)
  \/ \E cb \in Alarms : Cancel(cb)
  \/ WaitForEvents
  \/ ReturnWithoutAlarms
  \/ CallAlarms
  \/ SkipAlarm
  \/ RunAlarm
  \/ \E time \in 0..MaxTime : QuicAlarmReturns(time)
  \/ \E time \in 0..MaxTime : RecurringAlarmReturns(time)
  \/ ReturnAfterAlarms

Spec == Init /\ [][Next]_vars

-----------------------------------------------------------------------------
(* Properties *)

\* The type invariant of the alarms.
TypeOK ==
  /\ clock \in Times
  /\ recorded_now \in 0..MaxTime
  /\ alarm_map \in Seq([time : Times, cb : Alarms])
  /\ all_alarms \subseteq Alarms
  /\ skipped \subseteq Alarms
  /\ registered \in [Alarms -> BOOLEAN]
  /\ deadline \in [Alarms -> 0..MaxTime]
  /\ phase \in Phases
  /\ epoll_timeout \in Nat \cup {-1}
  /\ with_alarms \in BOOLEAN
  /\ cursor \in Nat
  /\ running \in Alarms \cup {NoAlarm}
  /\ due \subseteq Alarms
  /\ set_in_loop \subseteq Alarms
  /\ rerun_due \subseteq Alarms

\* The entries that stand for registrations: all but the one being executed.
Registrations == {p \in DOMAIN alarm_map : phase = "on_alarm" => p # cursor}

\* The four records of an alarm agree: QuicAlarm's deadline, registered_ of its
\* EpollAlarm, all_alarms_, and one entry in alarm_map_, of that deadline.  So a
\* set alarm is never lost, a cancelled one never fires, and Token is valid.
RecordsAgree ==
  \A cb \in Alarms :
    LET entries == {p \in Registrations : alarm_map[p].cb = cb} IN
      /\ registered[cb] <=> deadline[cb] # 0
      /\ registered[cb] <=> cb \in all_alarms
      /\ registered[cb] <=> entries # {}
      /\ \A p \in entries : alarm_map[p].time = deadline[cb]
      /\ \A p, q \in entries : p = q

\* The iterator of the alarm loop outlives the callback: whatever OnAlarm
\* registered and cancelled, it is still at the entry that was run, and that
\* entry was due.
IteratorStaysValid ==
  phase = "on_alarm" =>
    /\ cursor \in DOMAIN alarm_map
    /\ alarm_map[cursor].cb = running
    /\ alarm_map[cursor].time <= recorded_now

\* Every alarm that is due when the loop begins is run by it, unless another
\* callback cancels it first; the loop misses none as entries come and go.
DueAlarmsAreRun == phase \in {"outside", "events"} => due = {}

\* A round sleeps no millisecond longer than to the first alarm, however the time
\* is rounded, and it sleeps at all unless that alarm is due: a server whose next
\* alarm is less than a millisecond away does not spin.
SleepsUntilFirstAlarm ==
  [][phase = "outside" /\ phase' = "events" /\ alarm_map # << >> =>
       LET first == alarm_map[1].time IN
         IF first <= clock
         THEN epoll_timeout' = 0
         ELSE /\ epoll_timeout' > 0 \/ timeout_in_us = 0
              /\ clock + epoll_timeout' * UsPerMs < first + UsPerMs]_vars

\* "This ensures that we do not go in an infinite loop" (the comment on
\* alarms_reregistered_and_should_be_skipped_): an alarm whose OnAlarm returned
\* a time that had come is not called again in the same loop, even if it was
\* cancelled and set in between.
RecurringRunOncePerLoop ==
  [][running' # running => running' \notin rerun_due]_vars

\* "Execute the OnAlarm() only if we did not register it in this loop itself"
\* (the comment in CallAndReregisterAlarmEvents).
NotRegisteredInThisLoop ==
  [][running' # running /\ running' # NoAlarm => running' \notin set_in_loop]_vars
=============================================================================

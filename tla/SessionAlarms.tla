--------------------------- MODULE SessionAlarms ---------------------------
(***************************************************************************)
(* Who owns the alarms of EpollAlarms, and for how long.  An alarm of a    *)
(* session belongs to it and is destroyed with it; sessions are destroyed  *)
(* from an alarm of QuicDispatcher, delete_sessions_alarm_, that is, from  *)
(* inside the alarm loop, whose iterator, list and sets hold plain         *)
(* pointers to alarms.  And QuicServer declares dispatcher_ before         *)
(* epoll_server_: at the end the epoll server goes first, and the alarms   *)
(* of the dispatcher outlive it.                                           *)
(*                                                                         *)
(* A session has one alarm here, which stands for it.                      *)
(***************************************************************************)
EXTENDS EpollAlarms

CONSTANT DeleteAlarm   \* delete_sessions_alarm_

SessionsOfAlarms == QuicAlarms \ {DeleteAlarm}

ASSUME SessionAlarmsAssumption == DeleteAlarm \in QuicAlarms

VARIABLES
  session,   \* per session: "none" (its memory is free), "live" (in
             \* session_map_) or "closed" (in closed_session_list_)
  server     \* "running", or "gone" once ~EpollServer has run

sessionVars == <<session, server>>
allVars == <<vars, sessionVars>>

closed_session_list_ == {cb \in SessionsOfAlarms : session[cb] = "closed"}

-----------------------------------------------------------------------------
(* Sessions *)

\* Any code of the dispatcher or of a session, but not DeleteSessions.
SessionsRun ==
  /\ server = "running"
  /\ ClientRuns
  /\ running # DeleteAlarm

\* A new session, which may get the memory of one that was deleted.
CreateQuicSession(cb) ==
  /\ SessionsRun
  /\ session[cb] = "none"
  /\ session' = [session EXCEPT ![cb] = "live"]
  /\ UNCHANGED <<vars, server>>

\* A live session sets and cancels its alarm; a closed one only cancels it.
SetAlarm(cb, time) ==
  /\ SessionsRun
  /\ cb \in RecurringAlarms \/ (cb \in SessionsOfAlarms /\ session[cb] = "live")
  /\ Set(cb, time)
  /\ UNCHANGED sessionVars

CancelAlarm(cb) ==
  /\ SessionsRun
  /\ cb \in RecurringAlarms \/ (cb \in SessionsOfAlarms /\ session[cb] # "none")
  /\ Cancel(cb)
  /\ UNCHANGED sessionVars

\* QuicEpollClock::Now, once for a whole round.
ApproximateNow == IF recorded_now # 0 THEN recorded_now ELSE clock

\* delete_sessions_alarm_->Cancel() and ->Set(ApproximateNow()).
SetDeleteAlarm ==
  LET map == IF registered[DeleteAlarm]
             THEN RemoveAt(alarm_map, Token(DeleteAlarm)) ELSE alarm_map
      c == IF registered[DeleteAlarm] /\ Token(DeleteAlarm) < cursor
           THEN cursor - 1 ELSE cursor IN
    /\ RegisterAlarm(map, c, all_alarms \ {DeleteAlarm}, ApproximateNow, DeleteAlarm)
    /\ deadline' = [deadline EXCEPT ![DeleteAlarm] = ApproximateNow]
    /\ due' = due \ {DeleteAlarm}

KeepAlarms == UNCHANGED <<alarm_map, cursor, all_alarms, registered, set_in_loop, deadline, due>>

\* Mutant: the session is deleted where it closes.
OnConnectionClosed_DeletesAtOnce(cb) ==
  /\ SessionsRun
  /\ session[cb] = "live"
  /\ session' = [session EXCEPT ![cb] = "none"]
  /\ deadline' = [deadline EXCEPT ![cb] = 0]
  /\ UnregisterIfRegistered(cb)
  /\ due' = due \ {cb}
  /\ UNCHANGED <<clock, roundVars, skipped, running, set_in_loop, rerun_due, server>>

\* Mutant: the alarm is set for every session but the first.
OnConnectionClosed_NotForTheFirst(cb) ==
  /\ SessionsRun
  /\ session[cb] = "live"
  /\ session' = [session EXCEPT ![cb] = "closed"]
  /\ IF closed_session_list_ # {} THEN SetDeleteAlarm ELSE KeepAlarms
  /\ UNCHANGED <<clock, roundVars, skipped, running, rerun_due, server>>

\* QuicDispatcher::OnConnectionClosed: from an event, from the session's own
\* alarm or from any other.
OnConnectionClosed(cb) ==
  /\ SessionsRun
  /\ session[cb] = "live"
  /\ session' = [session EXCEPT ![cb] = "closed"]
  /\ IF closed_session_list_ = {} THEN SetDeleteAlarm ELSE KeepAlarms
  /\ UNCHANGED <<clock, roundVars, skipped, running, rerun_due, server>>

-----------------------------------------------------------------------------
(* DeleteSessions, inside OnAlarm of the delete alarm *)

\* ~QuicEpollAlarm, with ~EpollAlarm.
DestroyAlarm(cb) ==
  /\ UnregisterIfRegistered(cb)
  /\ deadline' = [deadline EXCEPT ![cb] = 0]
  /\ due' = due \ {cb}

DeleteSession(cb) ==
  /\ running = DeleteAlarm
  /\ session[cb] = "closed"
  /\ session' = [session EXCEPT ![cb] = "none"]
  /\ DestroyAlarm(cb)
  /\ UNCHANGED <<clock, roundVars, skipped, running, set_in_loop, rerun_due, server>>

\* "Let the dispatcher register the alarm at appropriate time."
OnAlarmReturns(time) ==
  /\ running = DeleteAlarm => closed_session_list_ = {} /\ time = 0
  /\ QuicAlarmReturns(time)
  /\ UNCHANGED sessionVars

-----------------------------------------------------------------------------
(* The end of a QuicServer: ~EpollServer, then ~QuicDispatcher *)

\* Mutant: OnShutdown only forgets the server.
CleanupTimeToAlarmCBMap_KeepsRegistered ==
  /\ server = "running"
  /\ phase = "outside"
  /\ server' = "gone"
  /\ alarm_map' = << >>
  /\ all_alarms' = {}
  /\ UNCHANGED <<clock, roundVars, registered, skipped, deadline, cursor, running, due,
                 set_in_loop, rerun_due, session>>

\* CleanupTimeToAlarmCBMap takes the entries one by one, with OnShutdown, which
\* in an EpollAlarm disturbs no other entry; then the server's sets go.
CleanupTimeToAlarmCBMap ==
  /\ server = "running"
  /\ phase = "outside"
  /\ server' = "gone"
  /\ registered' = [cb \in Alarms |->
       registered[cb] /\ \A p \in DOMAIN alarm_map : alarm_map[p].cb # cb]
  /\ alarm_map' = << >>
  /\ all_alarms' = {}
  /\ UNCHANGED <<clock, roundVars, skipped, deadline, cursor, running, due, set_in_loop,
                 rerun_due, session>>

\* ~QuicDispatcher deletes the sessions of both lists, with their alarms, whose
\* destructor finds no server to unregister from.
DestroySession(cb) ==
  /\ server = "gone"
  /\ session[cb] # "none"
  /\ session' = [session EXCEPT ![cb] = "none"]
  /\ DestroyAlarm(cb)
  /\ UNCHANGED <<clock, roundVars, skipped, running, set_in_loop, rerun_due, server>>

-----------------------------------------------------------------------------
SessionInit ==
  /\ Init
  /\ session = [cb \in SessionsOfAlarms |-> "none"]
  /\ server = "running"

\* The loop of the epoll server, as it is.
EpollServerRuns ==
  /\ server = "running"
  /\ \/ WaitForEvents
     \/ ReturnWithoutAlarms
     \/ CallAlarms
     \/ SkipAlarm
     \/ RunAlarm
     \/ \E time \in 0..MaxTime : RecurringAlarmReturns(time)
     \/ ReturnAfterAlarms
  /\ UNCHANGED sessionVars

SessionNext ==
  \/ \E cb \in SessionsOfAlarms :
       \/ CreateQuicSession(cb)
       \/ OnConnectionClosed(cb)
       \/ DeleteSession(cb)
       \/ DestroySession(cb)
  \/ \E cb \in Alarms, time \in Times : SetAlarm(cb, time)
  \/ \E cb \in Alarms : CancelAlarm(cb)
  \/ \E time \in 0..MaxTime : OnAlarmReturns(time)
  \/ EpollServerRuns
  \/ CleanupTimeToAlarmCBMap

SessionSpec == SessionInit /\ [][SessionNext]_allVars

-----------------------------------------------------------------------------
(* Properties *)

\* The type invariant of the alarms and their sessions.
SessionTypeOK ==
  /\ TypeOK
  /\ session \in [SessionsOfAlarms -> {"none", "live", "closed"}]
  /\ server \in {"running", "gone"}

\* Deleted means forgotten: when a session's memory is free no entry of
\* alarm_map_, not all_alarms_ and no frame on the stack refers to its alarm,
\* although sessions close from their own alarms and are deleted from another
\* one, in the middle of the loop.  (The skip set needs no such care: the alarms
\* of sessions set themselves and return 0, so they are never in it.)
FreedAlarmsAreForgotten ==
  \A cb \in SessionsOfAlarms :
    session[cb] = "none" =>
      /\ running # cb
      /\ \A p \in DOMAIN alarm_map : alarm_map[p].cb # cb
      /\ cb \notin all_alarms

\* Closed sessions are deleted: as long as there are some, the delete alarm is
\* set, for a time that has come, or is running; otherwise it is not set.
ClosedSessionsAreDeleted ==
  server = "running" =>
    IF closed_session_list_ # {}
    THEN running = DeleteAlarm \/ deadline[DeleteAlarm] \in 1..clock
    ELSE deadline[DeleteAlarm] = 0

\* The records agree as in EpollAlarms while the epoll server is there.  When it
\* has gone no alarm believes that it is registered, so that the destructors and
\* Cancel, which follow, never turn to it.
RecordsOutliveServer ==
  IF server = "running"
  THEN RecordsAgree
  ELSE \A cb \in Alarms : ~ registered[cb]

\* What an EpollServer promises to the owners of alarms: alarms fire on time and
\* not when cancelled, one after another, and neither the clock nor an event
\* overtakes one that a round found due.
Service == INSTANCE AlarmService
             WITH time <- ApproximateNow, on_stack <- running, pending <- due

ImplementsAlarmService == Service!Spec
=============================================================================

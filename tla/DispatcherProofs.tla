-------------------------- MODULE DispatcherProofs --------------------------
(***************************************************************************)
(* Proofs about QuicDispatcher, for every set of connection ids and        *)
(* addresses, every period and every maximum: it uses the time wait list   *)
(* manager as TwSpec says, its pointers stay valid, no blocked writer is   *)
(* forgotten, and its ids follow the abstract lifecycle.                   *)
(***************************************************************************)
EXTENDS Dispatcher, TimeWaitListProofs, FiniteSetTheorems

\* The sessions of a session map.
Live(sm) == {sm[id] : id \in ConnectionIds} \ {NoSession}

\* A list of blocked writers, without repetitions, all of them reachable.
WriterList(list, live) ==
  /\ list \in Seq(BlockedWriters)
  /\ IsInjective(list)
  /\ ToSet(list) \subseteq live \cup {TimeWait}

\* The sessions of sm have one owner each.
SessionMap(sm) ==
  /\ sm \in [ConnectionIds -> Sessions \cup {NoSession}]
  /\ \A id1, id2 \in ConnectionIds :
       sm[id1] = sm[id2] /\ sm[id1] # NoSession => id1 = id2
  /\ Live(sm) \cap ToSet(closed_session_list) = {}
  /\ \A id \in ConnectionIds : sm[id] # NoSession => ~ IsConnectionIdInTimeWait(id)

\* What holds of the list that session s finds when it is given a packet, an
\* alarm or a chance to write: all who were refused are on it, except s itself
\* when OnCanWrite has just taken it off.
Given(s, list, live) ==
  /\ WriterList(list, live)
  /\ s \in live
  /\ unsent \subseteq ToSet(list) \cup {s}
  /\ pending_packets_queue # << >> => TimeWait \in ToSet(list)
  /\ phase = "idle" /\ ~ write_blocked => list = << >>

\* The writers: those on the list can be called, and those refused are on it.
WritersInv ==
  /\ write_blocked \in BOOLEAN
  /\ unsent \subseteq Sessions
  /\ WriterList(write_blocked_list, LiveSessions)
  /\ RefusedWritersAreQueued

\* The sessions and their owners.
SessionsInv ==
  /\ SessionMap(session_map)
  /\ closed_session_list \in Seq(Sessions)
  /\ IsInjective(closed_session_list)
  /\ delete_sessions_alarm \in BOOLEAN
  /\ streams \subseteq Sessions

\* The responses.
QueueInv ==
  /\ pending_packets_queue \in Seq(Nat)
  /\ responses_built \in Nat
  /\ last_response_sent \in Nat
  /\ ResponsesInOrder

\* The inductive invariant.
DispatcherInv ==
  /\ TwInv
  /\ WritersInv
  /\ SessionsInv
  /\ QueueInv
  /\ phase \in Phases

\* The abstract lifecycle's view of a session map and a list: where id is in
\* its life, and since when it waits.
LifeOf(sm, list, id) ==
  IF sm[id] # NoSession THEN "live" ELSE IF id \in Ids(list) THEN "waiting" ELSE "free"

Since(list, id) == IF id \in Ids(list) THEN list[Find(list, id)].time_added ELSE 0

\* What a step of the dispatcher does to its ids.
SessionOpens(id) ==
  /\ session_map[id] = NoSession /\ id \notin Ids(connection_id_map)
  /\ \E s \in Sessions : session_map' = [session_map EXCEPT ![id] = s]
  /\ UNCHANGED <<now, connection_id_map>>

IdRetires(id) ==
  /\ id \notin Ids(connection_id_map)
  /\ session_map' = [session_map EXCEPT ![id] = NoSession]
  /\ \E close_packet \in BOOLEAN :
       LET added == Added(connection_id_map, id, close_packet)
       IN  connection_id_map' \in {added, Counted(added, id)}
  /\ UNCHANGED now

PacketIsCounted(id) ==
  /\ id \in Ids(connection_id_map)
  /\ connection_id_map' = Counted(connection_id_map, id)
  /\ UNCHANGED <<now, session_map>>

-----------------------------------------------------------------------------
(* The manager inside the dispatcher *)

\* Whatever the dispatcher does to the time wait list is one call of the
\* manager's interface.
LEMMA DispatcherTwStep == [Next]_vars => [TwNext]_twVars
<1> SUFFICES ASSUME [Next]_vars PROVE [TwNext]_twVars
  OBVIOUS
<1> USE DEF twVars
<1>1. ASSUME NEW s, NEW id \in ConnectionIds, NEW sm, NEW list, NEW close_packet \in BOOLEAN,
             ConnectionCloses(s, id, sm, list, close_packet)
      PROVE  [TwNext]_twVars
  <2>1. CASE s \in streams
    BY <1>1, <2>1 DEF ConnectionCloses
  <2>2. CASE s \notin streams
    <3>1. /\ connection_id_map' = Added(connection_id_map, id, close_packet)
          /\ UNCHANGED <<now, connection_id_clean_up_alarm>>
      BY <1>1, <2>2 DEF ConnectionCloses, OnConnectionClosed
    <3>2. AddConnectionIdToTimeWait(id, close_packet)
      BY <3>1 DEF AddConnectionIdToTimeWait
    <3>3. QED
      BY <3>2 DEF TwNext
  <2>3. QED
    BY <2>1, <2>2
<1>2. ASSUME NEW s, NEW id \in ConnectionIds, NEW sm, NEW list,
             ConnectionActs(s, id, sm, list)
      PROVE  [TwNext]_twVars
  BY <1>1, <1>2 DEF ConnectionActs
<1>3. ASSUME NEW id \in ConnectionIds, ProcessPacket(id) PROVE [TwNext]_twVars
  <2>1. CASE DispatchToSession(id)
    BY <1>2, <2>1 DEF DispatchToSession
  <2>2. CASE DispatchOpensStream(id)
    BY <2>2 DEF DispatchOpensStream
  <2>3. CASE StreamCloses(id)
    BY <2>3 DEF StreamCloses
  <2>4. CASE DispatchToTimeWait(id)
    <3>1. CountPacket(id)
      BY <2>4 DEF DispatchToTimeWait, TimeWaitProcessPacket, CountPacket
    <3>2. QED
      BY <3>1 DEF TwNext
  <2>5. CASE RejectUnknownId(id)
    <3>1. CASE TimeWaitProcessPacket(Added(connection_id_map, id, FALSE), id)
      <4>1. AddAndCountPacket(id)
        BY <2>5, <3>1 DEF RejectUnknownId, TimeWaitProcessPacket, AddAndCountPacket
      <4>2. QED
        BY <4>1 DEF TwNext
    <3>2. CASE connection_id_map' = Added(connection_id_map, id, FALSE)
               /\ UNCHANGED <<now, connection_id_clean_up_alarm>>
      <4>1. AddConnectionIdToTimeWait(id, FALSE)
        BY <3>2 DEF AddConnectionIdToTimeWait
      <4>2. QED
        BY <4>1 DEF TwNext
    <3>3. QED
      BY <2>5, <3>1, <3>2 DEF RejectUnknownId
  <2>6. CASE CreateSession(id)
    BY <1>2, <2>6 DEF CreateSession
  <2>7. QED
    BY <1>3, <2>1, <2>2, <2>3, <2>4, <2>5, <2>6 DEF ProcessPacket
<1>4. ASSUME NEW id \in ConnectionIds, ConnectionAlarm(id) PROVE [TwNext]_twVars
  BY <1>2, <1>4 DEF ConnectionAlarm
<1>5. ASSUME NEW id \in ConnectionIds, ResumeConnection(id) PROVE [TwNext]_twVars
  BY <1>1, <1>5 DEF ResumeConnection
<1>6. ASSUME NEW id \in ConnectionIds, ShutdownClosesSession(id) PROVE [TwNext]_twVars
  BY <1>1, <1>6 DEF ShutdownClosesSession
<1>7. CASE CleanUpAlarm \/ TimePasses
  BY <1>7 DEF CleanUpAlarm, TimePasses, TwNext
<1>8. CASE \/ DeleteSessions \/ OnCanWrite \/ ResumeTimeWait \/ OnCanWriteReturns
           \/ Shutdown \/ ShutdownReturns
  BY <1>8 DEF DeleteSessions, OnCanWrite, ResumeTimeWait, OnCanWriteReturns,
              Shutdown, ShutdownReturns
<1>9. CASE UNCHANGED vars
  BY <1>9 DEF vars
<1>10. QED
  BY <1>3, <1>4, <1>5, <1>6, <1>7, <1>8, <1>9 DEF Next

\* The dispatcher implements the manager's specification: all that is proved of
\* the manager on its own holds inside the dispatcher.
THEOREM DispatcherUsesManager == Spec => TwSpec
<1>1. Init => TwInit
  BY DEF Init
<1>2. [Next]_vars => [TwNext]_twVars
  BY DispatcherTwStep
<1>3. QED
  BY <1>1, <1>2, PTL DEF Spec, TwSpec

-----------------------------------------------------------------------------
(* Lists without repetitions *)

\* A new element at the end.
LEMMA AppendedList ==
  ASSUME NEW S, NEW list \in Seq(S), IsInjective(list), NEW e \in S,
         e \notin ToSet(list)
  PROVE  /\ Append(list, e) \in Seq(S)
         /\ IsInjective(Append(list, e))
         /\ ToSet(Append(list, e)) = ToSet(list) \cup {e}
<1> DEFINE longer == Append(list, e)
<1>1. /\ longer \in Seq(S)
      /\ Len(longer) = Len(list) + 1
      /\ Len(list) \in Nat
      /\ \A i \in 1..Len(list) : longer[i] = list[i]
      /\ longer[Len(list) + 1] = e
  BY AppendProperties
<1> HIDE DEF longer
<1>2. DOMAIN longer = 1..(Len(list) + 1) /\ DOMAIN list = 1..Len(list)
  BY <1>1
<1>3. /\ DOMAIN longer = DOMAIN list \cup {Len(list) + 1}
      /\ \A i \in DOMAIN list : longer[i] = list[i]
      /\ longer[Len(list) + 1] = e
  BY <1>1, <1>2
<1>4. IsInjective(longer)
  BY <1>3 DEF IsInjective, ToSet
<1>5. ToSet(longer) = ToSet(list) \cup {e}
  BY <1>3 DEF ToSet
<1>6. QED
  BY <1>1, <1>4, <1>5 DEF longer

\* The list without its head.
LEMMA TailList ==
  ASSUME NEW S, NEW list \in Seq(S), IsInjective(list), list # << >>
  PROVE  /\ Tail(list) \in Seq(S)
         /\ IsInjective(Tail(list))
         /\ ToSet(Tail(list)) = ToSet(list) \ {Head(list)}
         /\ Head(list) \in ToSet(list)
<1> DEFINE rest == Tail(list)
<1>1. /\ rest \in Seq(S)
      /\ Len(rest) = Len(list) - 1
      /\ \A i \in 1..Len(rest) : rest[i] = list[i + 1]
  BY HeadTailProperties
<1>2. Len(list) \in Nat \ {0} /\ DOMAIN list = 1..Len(list) /\ Head(list) = list[1]
  BY EmptySeq
<1> HIDE DEF rest
<1>3. /\ DOMAIN rest = 1..(Len(list) - 1)
      /\ 1 \in DOMAIN list
      /\ \A i \in DOMAIN rest : i + 1 \in DOMAIN list /\ i + 1 # 1 /\ rest[i] = list[i + 1]
      /\ \A j \in DOMAIN list : j # 1 => j - 1 \in DOMAIN rest /\ rest[j - 1] = list[j]
  BY <1>1, <1>2
<1>4. IsInjective(rest)
  <2>1. SUFFICES ASSUME NEW i \in DOMAIN rest, NEW j \in DOMAIN rest, rest[i] = rest[j]
                 PROVE  i = j
    BY DEF IsInjective
  <2>2. i + 1 = j + 1
    BY <1>3, <2>1 DEF IsInjective
  <2>3. QED
    BY <1>3, <2>2
<1>5. ToSet(rest) = ToSet(list) \ {Head(list)}
  <2>1. ASSUME NEW x \in ToSet(rest) PROVE x \in ToSet(list) \ {Head(list)}
    BY <1>2, <1>3 DEF ToSet, IsInjective
  <2>2. ASSUME NEW x \in ToSet(list) \ {Head(list)} PROVE x \in ToSet(rest)
    <3>1. PICK j \in DOMAIN list : x = list[j]
      BY DEF ToSet
    <3>2. j # 1
      BY <1>2, <3>1
    <3>3. QED
      BY <1>3, <3>1, <3>2 DEF ToSet
  <2>3. QED
    BY <2>1, <2>2
<1>6. Head(list) \in ToSet(list)
  BY <1>2, <1>3 DEF ToSet
<1>7. QED
  BY <1>1, <1>4, <1>5, <1>6 DEF rest

\* write_blocked_list_.erase takes one writer off the list.
LEMMA ErasedList ==
  ASSUME NEW S, NEW list \in Seq(S), IsInjective(list), NEW w
  PROVE  /\ Erased(list, w) \in Seq(S)
         /\ IsInjective(Erased(list, w))
         /\ ToSet(Erased(list, w)) = ToSet(list) \ {w}
         /\ list = << >> => Erased(list, w) = << >>
<1>1. CASE w \notin ToSet(list)
  BY <1>1 DEF Erased
<1>2. CASE w \in ToSet(list)
  <2> DEFINE k == CHOOSE k \in DOMAIN list : list[k] = w
             part == RemoveAt(list, k)
  <2>1. k \in DOMAIN list /\ list[k] = w
    BY <1>2 DEF ToSet
  <2>2. Erased(list, w) = part
    BY <1>2 DEF Erased
  <2> HIDE DEF k
  <2>3. /\ part \in Seq(S)
        /\ Len(part) = Len(list) - 1
        /\ \A i \in 1..(Len(list) - 1) :
             part[i] = IF i < k THEN list[i] ELSE list[i + 1]
    BY <2>1, RemoveAtElements
  <2> HIDE DEF part
  <2>4. /\ DOMAIN list = 1..Len(list) /\ Len(list) \in Nat
        /\ DOMAIN part = 1..(Len(list) - 1)
    BY <2>3
  <2> DEFINE was(i) == IF i < k THEN i ELSE i + 1
             is(j) == IF j < k THEN j ELSE j - 1
  <2>5. \A i \in DOMAIN part :
          was(i) \in DOMAIN list /\ was(i) # k /\ part[i] = list[was(i)]
    BY <2>1, <2>3, <2>4
  <2>6. \A i, j \in DOMAIN part : was(i) = was(j) => i = j
    BY <2>1, <2>4
  <2>7. \A j \in DOMAIN list : j # k => is(j) \in DOMAIN part /\ was(is(j)) = j
    BY <2>1, <2>4
  <2> HIDE DEF was, is
  <2>8. IsInjective(part)
    BY <2>5, <2>6 DEF IsInjective
  <2>9. ToSet(part) = ToSet(list) \ {w}
    <3>1. ASSUME NEW x \in ToSet(part) PROVE x \in ToSet(list) \ {w}
      BY <2>1, <2>5 DEF ToSet, IsInjective
    <3>2. ASSUME NEW x \in ToSet(list) \ {w} PROVE x \in ToSet(part)
      <4>1. PICK j \in DOMAIN list : x = list[j]
        BY DEF ToSet
      <4>2. j # k
        BY <2>1, <4>1
      <4>3. is(j) \in DOMAIN part /\ part[is(j)] = x
        BY <2>5, <2>7, <4>1, <4>2
      <4>4. QED
        BY <4>3 DEF ToSet
    <3>3. QED
      BY <3>1, <3>2
  <2>10. list # << >>
    BY <2>1
  <2>11. QED
    BY <2>2, <2>3, <2>8, <2>9, <2>10
<1>3. QED
  BY <1>1, <1>2

\* OnWriteBlocked adds a writer that is blocked, once.
LEMMA BlockedList ==
  ASSUME NEW live, NEW list, WriterList(list, live), NEW blocked,
         NEW w \in live \cup {TimeWait}, w \in BlockedWriters
  PROVE  /\ WriterList(OnWriteBlocked(blocked, list, w), live)
         /\ ToSet(OnWriteBlocked(blocked, list, w)) =
              IF blocked THEN ToSet(list) \cup {w} ELSE ToSet(list)
         /\ ~ blocked => OnWriteBlocked(blocked, list, w) = list
<1>1. CASE blocked /\ w \notin ToSet(list)
  <2>1. /\ Append(list, w) \in Seq(BlockedWriters)
        /\ IsInjective(Append(list, w))
        /\ ToSet(Append(list, w)) = ToSet(list) \cup {w}
    BY <1>1, AppendedList DEF WriterList
  <2>2. QED
    BY <1>1, <2>1 DEF WriterList, OnWriteBlocked
<1>2. CASE ~ (blocked /\ w \notin ToSet(list))
  BY <1>2 DEF OnWriteBlocked
<1>3. QED
  BY <1>1, <1>2

-----------------------------------------------------------------------------
(* Writes *)

\* Between handlers a writer that is not blocked has an empty list, and every
\* live session finds the list in order.
LEMMA GivenToLive ==
  ASSUME DispatcherInv, NEW sm, Live(session_map) \subseteq Live(sm), NEW s \in Live(sm)
  PROVE  Given(s, write_blocked_list, Live(sm))
BY DEF DispatcherInv, WritersInv, WriterList, RefusedWritersAreQueued, LiveSessions, Live, Given

\* OnCanWrite takes the first writer off the list before it resumes it.
LEMMA GivenWhenResumed ==
  ASSUME DispatcherInv, write_blocked_list # << >>, phase = "can_write",
         Head(write_blocked_list) \in LiveSessions
  PROVE  /\ Given(Head(write_blocked_list), Tail(write_blocked_list), LiveSessions)
         /\ Head(write_blocked_list) \notin ToSet(Tail(write_blocked_list))
<1> DEFINE s == Head(write_blocked_list)
           rest == Tail(write_blocked_list)
<1>1. /\ rest \in Seq(BlockedWriters)
      /\ IsInjective(rest)
      /\ ToSet(rest) = ToSet(write_blocked_list) \ {s}
      /\ s \in ToSet(write_blocked_list)
  BY TailList DEF DispatcherInv, WritersInv, WriterList
<1> HIDE DEF rest
<1>2. s # TimeWait
  BY DispatcherAssumption DEF DispatcherInv, SessionsInv, SessionMap, LiveSessions
<1>3. QED
  BY <1>1, <1>2
  DEF DispatcherInv, WritersInv, WriterList, RefusedWritersAreQueued, Given, rest

\* A connection that writes stays reachable, and is on the list if it is
\* refused.
LEMMA ConnectionWritesInv ==
  ASSUME NEW sm, SessionMap(sm), NEW s, NEW list, Given(s, list, Live(sm)),
         unsent \subseteq Sessions,
         ConnectionWrites(s, list),
         session_map' = sm,
         UNCHANGED <<pending_packets_queue, phase>>
  PROVE  WritersInv'
<1>1. PICK outcome \in WriteOutcomes :
        /\ WriteOutcome(outcome)
        /\ write_blocked' = (outcome = "blocked")
        /\ write_blocked_list' = OnWriteBlocked(write_blocked', list, s)
        /\ unsent' = IF outcome = "blocked" THEN unsent \cup {s} ELSE unsent \ {s}
  BY DEF ConnectionWrites
<1>2. s \in Sessions /\ s \in BlockedWriters /\ s \in Live(sm)
  BY DEF Given, SessionMap, Live, BlockedWriters
<1>3. /\ WriterList(write_blocked_list', Live(sm))
      /\ ToSet(write_blocked_list') =
           IF write_blocked' THEN ToSet(list) \cup {s} ELSE ToSet(list)
      /\ ~ write_blocked' => write_blocked_list' = list
  <2>1. WriterList(list, Live(sm))
    BY DEF Given
  <2>2. \A blocked \in BOOLEAN :
          /\ WriterList(OnWriteBlocked(blocked, list, s), Live(sm))
          /\ ToSet(OnWriteBlocked(blocked, list, s)) =
               IF blocked THEN ToSet(list) \cup {s} ELSE ToSet(list)
          /\ ~ blocked => OnWriteBlocked(blocked, list, s) = list
    BY <1>2, <2>1, BlockedList
  <2>3. write_blocked' \in BOOLEAN
    BY <1>1
  <2>4. QED
    BY <1>1, <2>2, <2>3
<1>4. LiveSessions' = Live(sm)
  BY DEF LiveSessions, Live
<1>5. write_blocked' \in BOOLEAN /\ unsent' \subseteq Sessions
  BY <1>1, <1>2
<1>6. CASE outcome = "blocked"
  BY <1>1, <1>2, <1>3, <1>4, <1>5, <1>6
  DEF WritersInv, RefusedWritersAreQueued, Given
<1>7. CASE outcome # "blocked"
  <2>1. ~ write_blocked /\ ~ write_blocked'
    BY <1>1, <1>7 DEF WriteOutcome
  <2>2. RefusedWritersAreQueued'
    BY <1>1, <1>3, <1>7, <2>1 DEF RefusedWritersAreQueued, Given
  <2>3. QED
    BY <1>3, <1>4, <1>5, <2>2 DEF WritersInv
<1>8. QED
  BY <1>6, <1>7

-----------------------------------------------------------------------------
(* Sessions *)

\* The ids on the list after AddConnectionIdToTimeWait were there before, but
\* for the one that is added.
LEMMA AddedIds ==
  ASSUME TwInv, NEW id \in ConnectionIds, NEW close_packet \in BOOLEAN
  PROVE  Ids(Added(connection_id_map, id, close_packet)) \subseteq
           Ids(connection_id_map) \cup {id}
<1>1. /\ connection_id_map \in Seq(Entry) /\ Ordered(connection_id_map) /\ now \in Nat
      /\ MaxConnections > 0 => Len(connection_id_map) <= MaxConnections
      /\ \A k \in DOMAIN connection_id_map : connection_id_map[k].time_added <= now
  BY DEF TwInv, TwTypeOK, OldestFirst, Ordered, WithinMaximum, InThePast
<1>2. \A i \in DOMAIN Added(connection_id_map, id, close_packet) :
        \/ Added(connection_id_map, id, close_packet)[i].id = id
        \/ \E k \in DOMAIN connection_id_map :
             Added(connection_id_map, id, close_packet)[i] = connection_id_map[k]
  BY <1>1, AddedList
<1>3. QED
  BY <1>2 DEF Ids

\* OnConnectionClosed moves a session from the map to the list of the closed
\* ones, its id to time wait, and takes its connection off the write blocked
\* list.
LEMMA ConnectionClosedInv ==
  ASSUME DispatcherInv, NEW sm, SessionMap(sm),
         NEW id \in ConnectionIds, NEW s \in Sessions, sm[id] = s,
         NEW list, WriterList(list, Live(sm)),
         unsent \subseteq ToSet(list) \cup {s},
         pending_packets_queue # << >> => TimeWait \in ToSet(list),
         phase = "idle" /\ ~ write_blocked' => list = << >>,
         write_blocked' \in BOOLEAN,
         NEW close_packet \in BOOLEAN,
         OnConnectionClosed(s, id, sm, list, close_packet),
         UNCHANGED <<now, connection_id_clean_up_alarm, queueVars, streams, phase>>
  PROVE  DispatcherInv'
<1>1. /\ closed_session_list' = Append(closed_session_list, s)
      /\ delete_sessions_alarm' =
           IF closed_session_list = << >> THEN TRUE ELSE delete_sessions_alarm
      /\ write_blocked_list' = Erased(list, s)
      /\ connection_id_map' = Added(connection_id_map, id, close_packet)
      /\ session_map' = [sm EXCEPT ![id] = NoSession]
      /\ unsent' = unsent \ {s}
  BY DEF OnConnectionClosed
<1>2. TwInv'
  <2>1. AddConnectionIdToTimeWait(id, close_packet)
    BY <1>1 DEF AddConnectionIdToTimeWait
  <2>2. QED
    BY <2>1, AddInv DEF DispatcherInv
<1>3. s \in Live(sm) /\ s # NoSession /\ s # TimeWait
  BY DispatcherAssumption DEF Live
<1>4. /\ session_map' \in [ConnectionIds -> Sessions \cup {NoSession}]
      /\ session_map'[id] = NoSession
      /\ \A i \in ConnectionIds : i # id => session_map'[i] = sm[i]
  BY <1>1 DEF SessionMap
<1>5. Live(session_map') = Live(sm) \ {s}
  <2>1. ASSUME NEW x \in Live(session_map') PROVE x \in Live(sm) \ {s}
    BY <1>4 DEF Live, SessionMap
  <2>2. ASSUME NEW x \in Live(sm) \ {s} PROVE x \in Live(session_map')
    BY <1>4 DEF Live
  <2>3. QED
    BY <2>1, <2>2
<1>6. s \notin ToSet(closed_session_list)
  BY <1>3 DEF SessionMap
<1>7. SessionsInv'
  <2>1. /\ closed_session_list' \in Seq(Sessions)
        /\ IsInjective(closed_session_list')
        /\ ToSet(closed_session_list') = ToSet(closed_session_list) \cup {s}
    BY <1>1, <1>6, AppendedList DEF DispatcherInv, SessionsInv
  <2>2. delete_sessions_alarm' \in BOOLEAN /\ streams' \subseteq Sessions
    BY <1>1 DEF DispatcherInv, SessionsInv
  <2>3. \A id1, id2 \in ConnectionIds :
          session_map'[id1] = session_map'[id2] /\ session_map'[id1] # NoSession => id1 = id2
    BY <1>4 DEF SessionMap
  <2>4. Live(session_map') \cap ToSet(closed_session_list') = {}
    BY <1>5, <2>1 DEF SessionMap
  <2>5. \A i \in ConnectionIds :
          session_map'[i] # NoSession => ~ IsConnectionIdInTimeWait(i)'
    <3>1. Ids(connection_id_map') \subseteq Ids(connection_id_map) \cup {id}
      BY <1>1, AddedIds DEF DispatcherInv
    <3>2. QED
      BY <1>4, <3>1 DEF SessionMap, IsConnectionIdInTimeWait
  <2>6. SessionMap(session_map)'
    BY <1>4, <2>3, <2>4, <2>5 DEF SessionMap, Live
  <2>7. QED
    BY <2>1, <2>2, <2>6 DEF SessionsInv
<1>8. WritersInv'
  <2>1. /\ write_blocked_list' \in Seq(BlockedWriters)
        /\ IsInjective(write_blocked_list')
        /\ ToSet(write_blocked_list') = ToSet(list) \ {s}
        /\ list = << >> => write_blocked_list' = << >>
    BY <1>1, ErasedList DEF WriterList
  <2>2. WriterList(write_blocked_list', LiveSessions')
    BY <1>5, <2>1 DEF WriterList, LiveSessions, Live
  <2>3. unsent' \subseteq Sessions
    BY <1>1 DEF DispatcherInv, WritersInv
  <2>4. RefusedWritersAreQueued'
    BY <1>1, <1>3, <2>1 DEF RefusedWritersAreQueued, queueVars
  <2>5. QED
    BY <2>2, <2>3, <2>4 DEF WritersInv
<1>9. QueueInv'
  BY DEF DispatcherInv, QueueInv, ResponsesInOrder, queueVars
<1>10. QED
  BY <1>2, <1>7, <1>8, <1>9 DEF DispatcherInv

\* A connection closes, having sent its close packet, or been refused it, or
\* without one; or its open stream ends the process.
LEMMA ConnectionClosesInv ==
  ASSUME DispatcherInv, NEW sm, SessionMap(sm),
         NEW id \in ConnectionIds, NEW s \in Sessions, sm[id] = s,
         NEW list, Given(s, list, Live(sm)), NEW close_packet \in BOOLEAN,
         ConnectionCloses(s, id, sm, list, close_packet)
  PROVE  DispatcherInv'
<1>1. CASE s \in streams
  <2>1. phase' = "exited" /\ UNCHANGED <<twVars, writerVars, queueVars, sessionVars>>
    BY <1>1 DEF ConnectionCloses
  <2>2. TwInv'
    BY <2>1 DEF twVars, DispatcherInv, TwInv, TwTypeOK, OldestFirst, InThePast,
                AlarmCoversEveryRecord, WithinMaximum
  <2>3. WritersInv'
    BY <2>1 DEF DispatcherInv, WritersInv, RefusedWritersAreQueued, LiveSessions,
                writerVars, queueVars, sessionVars
  <2>4. SessionsInv'
    BY <2>1 DEF DispatcherInv, SessionsInv, SessionMap, IsConnectionIdInTimeWait,
                sessionVars, twVars
  <2>5. QueueInv' /\ phase' \in Phases
    BY <2>1 DEF DispatcherInv, QueueInv, ResponsesInOrder, queueVars, Phases
  <2>6. QED
    BY <2>2, <2>3, <2>4, <2>5 DEF DispatcherInv
<1>2. CASE s \notin streams /\ close_packet
  <2>1. PICK outcome \in WriteOutcomes :
          /\ WriteOutcome(outcome)
          /\ write_blocked' = (outcome = "blocked")
          /\ OnConnectionClosed(s, id, sm, OnWriteBlocked(write_blocked', list, s), TRUE)
    BY <1>2 DEF ConnectionCloses
  <2>2. UNCHANGED <<now, connection_id_clean_up_alarm, queueVars, streams, phase>>
    BY <1>2 DEF ConnectionCloses
  <2>3. WriterList(list, Live(sm)) /\ s \in Live(sm) /\ s \in BlockedWriters
    BY DEF Given, BlockedWriters
  <2>4. \A blocked \in BOOLEAN :
          /\ WriterList(OnWriteBlocked(blocked, list, s), Live(sm))
          /\ ToSet(OnWriteBlocked(blocked, list, s)) =
               IF blocked THEN ToSet(list) \cup {s} ELSE ToSet(list)
          /\ ~ blocked => OnWriteBlocked(blocked, list, s) = list
    BY <2>3, BlockedList
  <2>5. write_blocked' \in BOOLEAN /\ (~ write_blocked' => ~ write_blocked)
    BY <2>1 DEF WriteOutcomes, WriteOutcome
  <2> DEFINE longer == OnWriteBlocked(write_blocked', list, s)
  <2>6. /\ WriterList(longer, Live(sm))
        /\ ToSet(list) \subseteq ToSet(longer)
        /\ ~ write_blocked' => longer = list
    BY <2>4, <2>5
  <2>7. OnConnectionClosed(s, id, sm, longer, TRUE)
    BY <2>1
  <2> HIDE DEF longer
  <2>8. /\ unsent \subseteq ToSet(longer) \cup {s}
        /\ pending_packets_queue # << >> => TimeWait \in ToSet(longer)
        /\ phase = "idle" /\ ~ write_blocked' => longer = << >>
    BY <2>5, <2>6 DEF Given
  <2>9. QED
    BY <2>2, <2>5, <2>6, <2>7, <2>8, ConnectionClosedInv
<1>3. CASE s \notin streams /\ ~ close_packet
  <2>1. /\ OnConnectionClosed(s, id, sm, list, FALSE)
        /\ UNCHANGED write_blocked
        /\ UNCHANGED <<now, connection_id_clean_up_alarm, queueVars, streams, phase>>
    BY <1>3 DEF ConnectionCloses
  <2>2. write_blocked' \in BOOLEAN
    BY <2>1 DEF DispatcherInv, WritersInv
  <2>3. QED
    BY <2>1, <2>2, ConnectionClosedInv DEF Given
<1>4. QED
  BY <1>1, <1>2, <1>3

\* A connection that is given a packet or an alarm does nothing, writes or
\* closes.
LEMMA ConnectionActsInv ==
  ASSUME DispatcherInv, NEW sm, SessionMap(sm),
         Live(session_map) \subseteq Live(sm),
         NEW id \in ConnectionIds, NEW s \in Sessions, sm[id] = s,
         ConnectionActs(s, id, sm, write_blocked_list)
  PROVE  DispatcherInv'
<1>1. s \in Live(sm)
  BY DispatcherAssumption DEF Live
<1>2. Given(s, write_blocked_list, Live(sm))
  BY <1>1, GivenToLive
<1>3. ASSUME session_map' = sm,
             UNCHANGED <<twVars, queueVars, streams, closed_session_list,
                         delete_sessions_alarm, phase>>
      PROVE  TwInv' /\ SessionsInv' /\ QueueInv' /\ phase' \in Phases
  <2>1. TwInv'
    BY <1>3 DEF twVars, DispatcherInv, TwInv, TwTypeOK, OldestFirst, InThePast,
                AlarmCoversEveryRecord, WithinMaximum
  <2>2. SessionsInv'
    BY <1>3 DEF DispatcherInv, SessionsInv, SessionMap, Live, IsConnectionIdInTimeWait, twVars
  <2>3. QueueInv' /\ phase' \in Phases
    BY <1>3 DEF DispatcherInv, QueueInv, ResponsesInOrder, queueVars
  <2>4. QED
    BY <2>1, <2>2, <2>3
<1>4. CASE /\ session_map' = sm
           /\ write_blocked_list' = write_blocked_list
           /\ UNCHANGED <<twVars, write_blocked, unsent, queueVars, streams,
                          closed_session_list, delete_sessions_alarm, phase>>
  <2>1. WritersInv'
    <3>1. LiveSessions \subseteq LiveSessions'
      BY <1>4 DEF LiveSessions, Live
    <3>2. QED
      BY <1>4, <3>1
      DEF DispatcherInv, WritersInv, WriterList, RefusedWritersAreQueued, queueVars
  <2>2. QED
    BY <1>3, <1>4, <2>1 DEF DispatcherInv
<1>5. CASE /\ ConnectionWrites(s, write_blocked_list)
           /\ session_map' = sm
           /\ UNCHANGED <<twVars, queueVars, streams,
                          closed_session_list, delete_sessions_alarm, phase>>
  <2>1. unsent \subseteq Sessions
    BY DEF DispatcherInv, WritersInv
  <2>2. WritersInv'
    BY <1>2, <1>5, <2>1, ConnectionWritesInv DEF queueVars
  <2>3. QED
    BY <1>3, <1>5, <2>2 DEF DispatcherInv
<1>6. CASE \E close_packet \in BOOLEAN :
             ConnectionCloses(s, id, sm, write_blocked_list, close_packet)
  BY <1>2, <1>6, ConnectionClosesInv
<1>7. QED
  BY <1>4, <1>5, <1>6 DEF ConnectionActs

-----------------------------------------------------------------------------
(* The handlers *)

\* A session of the map is at an address.
LEMMA SessionOfId ==
  ASSUME DispatcherInv, NEW id \in ConnectionIds, session_map[id] # NoSession
  PROVE  /\ session_map[id] \in Sessions
         /\ session_map[id] \in Live(session_map)
         /\ SessionMap(session_map)
BY DEF DispatcherInv, SessionsInv, SessionMap, Live

\* Packets and alarms of a connection that is in the map.
LEMMA DispatchToSessionInv ==
  ASSUME DispatcherInv, NEW id \in ConnectionIds,
         DispatchToSession(id) \/ ConnectionAlarm(id)
  PROVE  DispatcherInv'
<1>1. /\ session_map[id] # NoSession
      /\ ConnectionActs(session_map[id], id, session_map, write_blocked_list)
  BY DEF DispatchToSession, ConnectionAlarm
<1>2. QED
  BY <1>1, SessionOfId, ConnectionActsInv

\* A stream is opened, and its session writes.
LEMMA DispatchOpensStreamInv ==
  ASSUME DispatcherInv, NEW id \in ConnectionIds, DispatchOpensStream(id)
  PROVE  DispatcherInv'
<1> DEFINE s == session_map[id]
<1>1. /\ s # NoSession
      /\ streams' = streams \cup {s}
      /\ ConnectionWrites(s, write_blocked_list)
      /\ UNCHANGED <<twVars, queueVars, session_map, closed_session_list,
                     delete_sessions_alarm, phase>>
  BY DEF DispatchOpensStream
<1>2. s \in Sessions /\ s \in Live(session_map) /\ SessionMap(session_map)
  BY <1>1, SessionOfId
<1> HIDE DEF s
<1>3. Given(s, write_blocked_list, Live(session_map)) /\ unsent \subseteq Sessions
  BY <1>2, GivenToLive DEF DispatcherInv, WritersInv
<1>4. WritersInv'
  BY <1>1, <1>2, <1>3, ConnectionWritesInv DEF queueVars
<1>5. SessionsInv'
  BY <1>1, <1>2 DEF DispatcherInv, SessionsInv, SessionMap, Live, IsConnectionIdInTimeWait, twVars
<1>6. TwInv'
  BY <1>1 DEF twVars, DispatcherInv, TwInv, TwTypeOK, OldestFirst, InThePast,
              AlarmCoversEveryRecord, WithinMaximum
<1>7. QueueInv' /\ phase' \in Phases
  BY <1>1 DEF DispatcherInv, QueueInv, ResponsesInOrder, queueVars
<1>8. QED
  BY <1>4, <1>5, <1>6, <1>7 DEF DispatcherInv

\* A new session gets an address that nothing else has, and an id that is not
\* in time wait.
LEMMA CreateSessionInv ==
  ASSUME DispatcherInv, NEW id \in ConnectionIds, CreateSession(id)
  PROVE  DispatcherInv'
<1>1. PICK s \in Sessions \ Allocated :
        ConnectionActs(s, id, [session_map EXCEPT ![id] = s], write_blocked_list)
  BY DEF CreateSession
<1>2. session_map[id] = NoSession /\ ~ IsConnectionIdInTimeWait(id)
  BY DEF CreateSession
<1> DEFINE sm == [session_map EXCEPT ![id] = s]
<1>3. SessionMap(session_map)
  BY DEF DispatcherInv, SessionsInv
<1>4. s \notin Live(session_map) /\ s \notin ToSet(closed_session_list) /\ s \in Sessions
  BY <1>1 DEF Allocated, LiveSessions, Live
<1>5. /\ sm \in [ConnectionIds -> Sessions \cup {NoSession}]
      /\ sm[id] = s
      /\ \A i \in ConnectionIds : i # id => sm[i] = session_map[i]
  BY <1>3, <1>4 DEF SessionMap
<1> HIDE DEF sm
<1>6. Live(sm) = Live(session_map) \cup {s}
  <2>1. ASSUME NEW x \in Live(sm) PROVE x \in Live(session_map) \cup {s}
    BY <1>5 DEF Live
  <2>2. ASSUME NEW x \in Live(session_map) \cup {s} PROVE x \in Live(sm)
    BY <1>2, <1>4, <1>5, DispatcherAssumption DEF Live
  <2>3. QED
    BY <2>1, <2>2
<1>7. \A id1, id2 \in ConnectionIds :
        sm[id1] = sm[id2] /\ sm[id1] # NoSession => id1 = id2
  <2>1. SUFFICES ASSUME NEW id1 \in ConnectionIds, NEW id2 \in ConnectionIds,
                        sm[id1] = sm[id2], sm[id1] # NoSession
                 PROVE  id1 = id2
    OBVIOUS
  <2>2. \A i \in ConnectionIds : i # id /\ sm[i] # NoSession => sm[i] # s
    BY <1>4, <1>5 DEF Live
  <2>3. CASE id1 = id \/ id2 = id
    BY <1>5, <2>1, <2>2, <2>3
  <2>4. CASE id1 # id /\ id2 # id
    BY <1>3, <1>5, <2>1, <2>4 DEF SessionMap
  <2>5. QED
    BY <2>3, <2>4
<1>8. \A i \in ConnectionIds : sm[i] # NoSession => ~ IsConnectionIdInTimeWait(i)
  BY <1>2, <1>3, <1>5 DEF SessionMap
<1>9. SessionMap(sm)
  BY <1>3, <1>4, <1>5, <1>6, <1>7, <1>8 DEF SessionMap
<1>10. ConnectionActs(s, id, sm, write_blocked_list)
  BY <1>1 DEF sm
<1>11. QED
  BY <1>4, <1>5, <1>6, <1>9, <1>10, ConnectionActsInv

\* A response goes out only when no other is pending, or joins the queue.
LEMMA SendOrQueueInv ==
  ASSUME DispatcherInv, phase = "idle", SendOrQueuePacket,
         LiveSessions' = LiveSessions, phase' = phase
  PROVE  WritersInv' /\ QueueInv'
<1>1. PICK outcome \in WriteOutcomes :
        /\ WriteOutcome(outcome)
        /\ responses_built' = responses_built + 1
        /\ write_blocked' = (outcome = "blocked")
        /\ write_blocked_list' = OnWriteBlocked(write_blocked', write_blocked_list, TimeWait)
        /\ IF outcome = "blocked"
           THEN /\ pending_packets_queue' = Append(pending_packets_queue, responses_built')
                /\ UNCHANGED last_response_sent
           ELSE /\ last_response_sent' = responses_built'
                /\ UNCHANGED pending_packets_queue
        /\ UNCHANGED unsent
  BY DEF SendOrQueuePacket
<1>2. WriterList(write_blocked_list, LiveSessions) /\ TimeWait \in BlockedWriters
  BY DEF DispatcherInv, WritersInv, BlockedWriters
<1>3. \A blocked \in BOOLEAN :
        /\ WriterList(OnWriteBlocked(blocked, write_blocked_list, TimeWait), LiveSessions)
        /\ ToSet(OnWriteBlocked(blocked, write_blocked_list, TimeWait)) =
             IF blocked THEN ToSet(write_blocked_list) \cup {TimeWait}
             ELSE ToSet(write_blocked_list)
        /\ ~ blocked => OnWriteBlocked(blocked, write_blocked_list, TimeWait) =
                          write_blocked_list
  BY <1>2, BlockedList
<1>4. write_blocked' \in BOOLEAN
  BY <1>1
<1>5. /\ WriterList(write_blocked_list', LiveSessions)
      /\ ToSet(write_blocked_list') =
           IF write_blocked' THEN ToSet(write_blocked_list) \cup {TimeWait}
           ELSE ToSet(write_blocked_list)
      /\ ~ write_blocked' => write_blocked_list' = write_blocked_list
  BY <1>1, <1>3, <1>4
<1>6. /\ pending_packets_queue \in Seq(Nat) /\ Len(pending_packets_queue) \in Nat
      /\ responses_built \in Nat /\ last_response_sent \in Nat
      /\ responses_built = last_response_sent + Len(pending_packets_queue)
      /\ \A i \in DOMAIN pending_packets_queue :
           pending_packets_queue[i] = last_response_sent + i
  BY DEF DispatcherInv, QueueInv, ResponsesInOrder
<1>7. CASE outcome = "blocked"
  <2>1. write_blocked' /\ last_response_sent' = last_response_sent /\ responses_built' \in Nat
    <3>1. write_blocked'
      BY <1>1, <1>7, Zenon
    <3>2. last_response_sent' = last_response_sent
      BY <1>1, <1>7, Zenon
    <3>3. responses_built' \in Nat
      BY <1>1, <1>6
    <3>4. QED
      BY <3>1, <3>2, <3>3
  <2>2. WritersInv'
    BY <1>1, <1>4, <1>5, <2>1 DEF DispatcherInv, WritersInv, RefusedWritersAreQueued
  <2>3. /\ pending_packets_queue' \in Seq(Nat)
        /\ Len(pending_packets_queue') = Len(pending_packets_queue) + 1
        /\ \A i \in 1..Len(pending_packets_queue) :
             pending_packets_queue'[i] = pending_packets_queue[i]
        /\ pending_packets_queue'[Len(pending_packets_queue) + 1] = responses_built + 1
    <3>1. pending_packets_queue' = Append(pending_packets_queue, responses_built')
      BY <1>1, <1>7, Zenon
    <3>2. responses_built' = responses_built + 1
      BY <1>1
    <3>3. QED
      BY <1>6, <2>1, <3>1, <3>2, AppendProperties
  <2>4. responses_built' = last_response_sent' + Len(pending_packets_queue')
    BY <1>1, <1>6, <2>1, <2>3
  <2>5. ASSUME NEW i \in DOMAIN pending_packets_queue'
        PROVE  pending_packets_queue'[i] = last_response_sent' + i
    <3>1. i \in 1..(Len(pending_packets_queue) + 1)
      BY <2>3
    <3>2. CASE i \in 1..Len(pending_packets_queue)
      <4>1. pending_packets_queue'[i] = pending_packets_queue[i]
        BY <2>3, <3>2
      <4>2. i \in DOMAIN pending_packets_queue
        BY <1>6, <3>2
      <4>3. QED
        BY <1>6, <2>1, <4>1, <4>2
    <3>3. CASE i = Len(pending_packets_queue) + 1
      BY <1>6, <2>1, <2>3, <3>3
    <3>4. QED
      BY <1>6, <3>1, <3>2, <3>3
  <2>6. QED
    BY <2>1, <2>2, <2>3, <2>4, <2>5, <1>6 DEF QueueInv, ResponsesInOrder
<1>8. CASE outcome # "blocked"
  <2>1. ~ write_blocked /\ ~ write_blocked'
    BY <1>1, <1>8 DEF WriteOutcome
  <2>2. write_blocked_list = << >>
    BY <2>1 DEF DispatcherInv, WritersInv, RefusedWritersAreQueued
  <2>3. TimeWait \notin ToSet(write_blocked_list)
    BY <2>2 DEF ToSet
  <2>4. pending_packets_queue = << >> /\ pending_packets_queue' = << >>
    BY <1>1, <1>8, <2>3 DEF DispatcherInv, WritersInv, RefusedWritersAreQueued
  <2>5. WritersInv'
    BY <1>1, <1>4, <1>5, <2>1, <2>4 DEF DispatcherInv, WritersInv, RefusedWritersAreQueued
  <2>6. QueueInv'
    BY <1>1, <1>6, <1>8, <2>4 DEF QueueInv, ResponsesInOrder
  <2>7. QED
    BY <2>5, <2>6
<1>9. QED
  BY <1>7, <1>8

\* What is left to show when the sessions stay as they are and the time wait
\* list gains at most one id, which no session has.
LEMMA TimeWaitGains ==
  ASSUME DispatcherInv, NEW id \in ConnectionIds, session_map[id] = NoSession,
         Ids(connection_id_map') \subseteq Ids(connection_id_map) \cup {id},
         UNCHANGED sessionVars
  PROVE  SessionsInv' /\ LiveSessions' = LiveSessions
<1>1. UNCHANGED <<session_map, closed_session_list, delete_sessions_alarm, streams>>
  BY DEF sessionVars
<1>2. \A i \in ConnectionIds :
        session_map'[i] # NoSession => ~ IsConnectionIdInTimeWait(i)'
  BY <1>1 DEF DispatcherInv, SessionsInv, SessionMap, IsConnectionIdInTimeWait
<1>3. SessionMap(session_map)'
  BY <1>1, <1>2 DEF DispatcherInv, SessionsInv, SessionMap, Live
<1>4. QED
  BY <1>1, <1>3 DEF DispatcherInv, SessionsInv, LiveSessions

\* ProcessPacket of the manager, whether it answers or not.
LEMMA TimeWaitProcessPacketInv ==
  ASSUME DispatcherInv, phase = "idle",
         NEW list \in Seq(Entry), NEW id \in Ids(list), id \in ConnectionIds,
         session_map[id] = NoSession,
         Ids(list) \subseteq Ids(connection_id_map) \cup {id},
         TimeWaitProcessPacket(list, id),
         TwInv'
  PROVE  DispatcherInv'
<1>1. /\ connection_id_map' = Counted(list, id)
      /\ UNCHANGED <<sessionVars, phase>>
      /\ SendOrQueuePacket \/ UNCHANGED <<writerVars, queueVars>>
  BY DEF TimeWaitProcessPacket
<1>2. Ids(connection_id_map') = Ids(list)
  <2>1. /\ DOMAIN connection_id_map' = DOMAIN list
        /\ \A i \in DOMAIN list : connection_id_map'[i].id = list[i].id
    BY <1>1, CountedList
  <2>2. QED
    BY <2>1 DEF Ids
<1>3. SessionsInv' /\ LiveSessions' = LiveSessions
  BY <1>1, <1>2, TimeWaitGains
<1>4. WritersInv' /\ QueueInv'
  <2>1. CASE SendOrQueuePacket
    BY <1>1, <1>3, <2>1, SendOrQueueInv
  <2>2. CASE UNCHANGED <<writerVars, queueVars>>
    <3>1. WritersInv'
      BY <1>1, <1>3, <2>2
      DEF DispatcherInv, WritersInv, RefusedWritersAreQueued, writerVars, queueVars
    <3>2. QueueInv'
      BY <2>2 DEF DispatcherInv, QueueInv, ResponsesInOrder, queueVars
    <3>3. QED
      BY <3>1, <3>2
  <2>3. QED
    BY <1>1, <2>1, <2>2
<1>5. QED
  BY <1>1, <1>3, <1>4 DEF DispatcherInv

\* Packets for ids without a session that are in time wait, or go there.
LEMMA TimeWaitPacketsInv ==
  ASSUME DispatcherInv, NEW id \in ConnectionIds,
         DispatchToTimeWait(id) \/ RejectUnknownId(id)
  PROVE  DispatcherInv'
<1>1. phase = "idle" /\ session_map[id] = NoSession
  BY DEF DispatchToTimeWait, RejectUnknownId
<1>2. /\ connection_id_map \in Seq(Entry) /\ Ordered(connection_id_map) /\ now \in Nat
      /\ MaxConnections > 0 => Len(connection_id_map) <= MaxConnections
      /\ \A k \in DOMAIN connection_id_map : connection_id_map[k].time_added <= now
  BY DEF DispatcherInv, TwInv, TwTypeOK, OldestFirst, Ordered, WithinMaximum, InThePast
<1> DEFINE added == Added(connection_id_map, id, FALSE)
<1>3. added \in Seq(Entry) /\ id \in Ids(added)
  BY <1>2, AddedList
<1>4. Ids(added) \subseteq Ids(connection_id_map) \cup {id}
  BY AddedIds DEF DispatcherInv
<1>5. CASE DispatchToTimeWait(id)
  <2>1. id \in Ids(connection_id_map) /\ TimeWaitProcessPacket(connection_id_map, id)
    BY <1>5 DEF DispatchToTimeWait, IsConnectionIdInTimeWait
  <2>2. CountPacket(id)
    BY <1>5 DEF DispatchToTimeWait, TimeWaitProcessPacket, CountPacket
  <2>3. TwInv'
    BY <2>2, CountInv DEF DispatcherInv
  <2>4. QED
    BY <1>1, <1>2, <2>1, <2>3, TimeWaitProcessPacketInv
<1>6. CASE RejectUnknownId(id) /\ TimeWaitProcessPacket(added, id)
  <2>1. AddAndCountPacket(id)
    BY <1>6 DEF RejectUnknownId, TimeWaitProcessPacket, AddAndCountPacket
  <2>2. TwInv'
    BY <2>1, AddAndCountInv DEF DispatcherInv
  <2> HIDE DEF added
  <2>3. QED
    BY <1>1, <1>3, <1>4, <1>6, <2>2, TimeWaitProcessPacketInv
<1>7. CASE /\ connection_id_map' = added
           /\ UNCHANGED <<now, connection_id_clean_up_alarm, writerVars, queueVars,
                          sessionVars, phase>>
  <2>1. AddConnectionIdToTimeWait(id, FALSE)
    BY <1>7 DEF AddConnectionIdToTimeWait
  <2>2. TwInv'
    BY <2>1, AddInv DEF DispatcherInv
  <2> HIDE DEF added
  <2>3. SessionsInv' /\ LiveSessions' = LiveSessions
    BY <1>1, <1>4, <1>7, TimeWaitGains
  <2>4. WritersInv'
    BY <1>7, <2>3
    DEF DispatcherInv, WritersInv, RefusedWritersAreQueued, writerVars, queueVars
  <2>5. QueueInv' /\ phase' \in Phases
    BY <1>7 DEF DispatcherInv, QueueInv, ResponsesInOrder, queueVars
  <2>6. QED
    BY <2>2, <2>3, <2>4, <2>5 DEF DispatcherInv
<1>8. QED
  BY <1>5, <1>6, <1>7 DEF RejectUnknownId

\* The clean-up alarm and the clock concern the time wait list alone.
LEMMA TimeInv ==
  ASSUME DispatcherInv, CleanUpAlarm \/ TimePasses
  PROVE  DispatcherInv'
<1>1. UNCHANGED <<writerVars, queueVars, sessionVars, phase>>
  BY DEF CleanUpAlarm, TimePasses
<1>2. TwInv'
  BY CleanUpInv, TickInv DEF DispatcherInv, CleanUpAlarm, TimePasses
<1>3. Ids(connection_id_map') \subseteq Ids(connection_id_map)
  <2>1. CASE CleanUpAlarm
    <3>1. PICK n \in 0..Len(connection_id_map) :
            connection_id_map' = SubSeq(connection_id_map, n + 1, Len(connection_id_map))
      BY <2>1 DEF CleanUpAlarm, CleanUpOldConnectionIds
    <3>2. connection_id_map \in Seq(Entry) /\ Ordered(connection_id_map)
      BY DEF DispatcherInv, TwInv, TwTypeOK, OldestFirst, Ordered
    <3>3. n \in Nat /\ n <= Len(connection_id_map)
      BY <3>2
    <3>4. PartOf(connection_id_map', connection_id_map)
      BY <3>1, <3>2, <3>3, TailPart
    <3>5. QED
      BY <3>4 DEF PartOf, Ids
  <2>2. CASE TimePasses
    BY <2>2 DEF TimePasses, Tick
  <2>3. QED
    BY <2>1, <2>2
<1>4. SessionsInv'
  BY <1>1, <1>3 DEF DispatcherInv, SessionsInv, SessionMap, Live, IsConnectionIdInTimeWait, sessionVars
<1>5. WritersInv'
  BY <1>1 DEF DispatcherInv, WritersInv, RefusedWritersAreQueued, LiveSessions,
              writerVars, queueVars, sessionVars
<1>6. QueueInv' /\ phase' \in Phases
  BY <1>1 DEF DispatcherInv, QueueInv, ResponsesInOrder, queueVars
<1>7. QED
  BY <1>2, <1>4, <1>5, <1>6 DEF DispatcherInv

\* DeleteSessions, from its alarm and at the end of Shutdown, frees sessions
\* that nothing points to.
LEMMA DeleteSessionsInv ==
  ASSUME DispatcherInv, DeleteSessions \/ ShutdownReturns
  PROVE  DispatcherInv'
<1>1. /\ closed_session_list' = << >>
      /\ delete_sessions_alarm' \in BOOLEAN
      /\ UNCHANGED <<twVars, writerVars, queueVars, session_map, streams>>
      /\ phase' = phase \/ phase' = "stopped"
  BY DEF DeleteSessions, ShutdownReturns, DispatcherInv, SessionsInv
<1>2. << >> \in Seq(Sessions) /\ ToSet(<< >>) = {} /\ IsInjective(<< >>)
  BY DEF ToSet, IsInjective
<1>3. SessionsInv'
  BY <1>1, <1>2 DEF DispatcherInv, SessionsInv, SessionMap, Live, IsConnectionIdInTimeWait, twVars
<1>4. TwInv'
  BY <1>1 DEF twVars, DispatcherInv, TwInv, TwTypeOK, OldestFirst, InThePast,
              AlarmCoversEveryRecord, WithinMaximum
<1>5. WritersInv'
  BY <1>1 DEF DispatcherInv, WritersInv, RefusedWritersAreQueued, LiveSessions,
              writerVars, queueVars
<1>6. QueueInv' /\ phase' \in Phases
  BY <1>1 DEF DispatcherInv, QueueInv, ResponsesInOrder, queueVars, Phases
<1>7. QED
  BY <1>3, <1>4, <1>5, <1>6 DEF DispatcherInv

\* The steps into and out of the loops: OnCanWrite ends with its list empty or
\* the writer blocked.
LEMMA LoopTurnsInv ==
  ASSUME DispatcherInv,
         \/ OnCanWrite \/ OnCanWriteReturns \/ Shutdown
         \/ \E id \in ConnectionIds : StreamCloses(id)
  PROVE  DispatcherInv'
<1>1. /\ UNCHANGED <<twVars, write_blocked_list, unsent, queueVars, sessionVars>>
      /\ \/ phase' \in {"can_write", "shutdown", "exited"}
         \/ /\ phase' = "idle"
            /\ write_blocked \/ write_blocked_list = << >>
            /\ UNCHANGED write_blocked
  BY DEF OnCanWrite, OnCanWriteReturns, Shutdown, StreamCloses, writerVars
<1>2. write_blocked' \in BOOLEAN
  BY DEF OnCanWrite, OnCanWriteReturns, Shutdown, StreamCloses, writerVars,
         DispatcherInv, WritersInv
<1>3. TwInv'
  BY <1>1 DEF twVars, DispatcherInv, TwInv, TwTypeOK, OldestFirst, InThePast,
              AlarmCoversEveryRecord, WithinMaximum
<1>4. SessionsInv'
  BY <1>1 DEF DispatcherInv, SessionsInv, SessionMap, Live, IsConnectionIdInTimeWait,
              sessionVars, twVars
<1>5. RefusedWritersAreQueued'
  BY <1>1 DEF DispatcherInv, WritersInv, RefusedWritersAreQueued, queueVars
<1>6. WritersInv'
  BY <1>1, <1>2, <1>5 DEF DispatcherInv, WritersInv, LiveSessions, sessionVars
<1>7. QueueInv' /\ phase' \in Phases
  BY <1>1 DEF DispatcherInv, QueueInv, ResponsesInOrder, queueVars, Phases
<1>8. QED
  BY <1>3, <1>4, <1>6, <1>7 DEF DispatcherInv

\* What is left of a sequence when its first k elements are taken off.
LEMMA RestOfSequence ==
  ASSUME NEW S, NEW seq \in Seq(S), NEW k \in Nat, k <= Len(seq)
  PROVE  /\ SubSeq(seq, k + 1, Len(seq)) \in Seq(S)
         /\ Len(SubSeq(seq, k + 1, Len(seq))) = Len(seq) - k
         /\ \A i \in 1..(Len(seq) - k) : SubSeq(seq, k + 1, Len(seq))[i] = seq[i + k]
<1> DEFINE rest == SubSeq(seq, k + 1, Len(seq))
<1>1. /\ Len(seq) \in Nat /\ k + 1 \in Int /\ Len(seq) \in Int
      /\ \A i \in (k + 1)..Len(seq) : seq[i] \in S
  OBVIOUS
<1>2. /\ rest \in Seq(S)
      /\ Len(rest) = IF k + 1 <= Len(seq) THEN Len(seq) - (k + 1) + 1 ELSE 0
      /\ \A i \in 1..(Len(seq) - (k + 1) + 1) : rest[i] = seq[k + 1 + i - 1]
  BY <1>1, SubSeqProperties
<1> HIDE DEF rest
<1>3. k + 1 <= Len(seq) \/ Len(seq) = k
  <2>1. \A n, m \in Nat : m <= n => m + 1 <= n \/ n = m
    OBVIOUS
  <2>2. QED
    BY <1>1, <2>1
<1>4. Len(rest) = Len(seq) - k
  BY <1>1, <1>2, <1>3
<1>5. ASSUME NEW i \in 1..(Len(seq) - k) PROVE rest[i] = seq[i + k]
  <2>1. i \in 1..(Len(seq) - (k + 1) + 1) /\ k + 1 + i - 1 = i + k
    BY <1>1
  <2>2. QED
    BY <1>2, <2>1
<1>6. QED
  BY <1>2, <1>4, <1>5 DEF rest

\* The responses that go out are the first of the queue; if one is refused, the
\* manager is on the list again.
LEMMA ResumeTimeWaitInv ==
  ASSUME DispatcherInv, ResumeTimeWait
  PROVE  DispatcherInv'
<1> DEFINE queue == pending_packets_queue
           rest == Tail(write_blocked_list)
<1>1. /\ phase = "can_write" /\ write_blocked_list # << >>
      /\ Head(write_blocked_list) = TimeWait
      /\ TimeWaitOnCanWrite(rest)
      /\ UNCHANGED <<twVars, sessionVars, phase>>
  BY DEF ResumeTimeWait
<1>2. PICK k \in 0..Len(queue) :
        /\ queue' = SubSeq(queue, k + 1, Len(queue))
        /\ last_response_sent' = IF k = 0 THEN last_response_sent ELSE queue[k]
        /\ write_blocked' = (k < Len(queue))
        /\ write_blocked_list' = OnWriteBlocked(write_blocked', rest, TimeWait)
        /\ UNCHANGED <<responses_built, unsent>>
  BY <1>1 DEF TimeWaitOnCanWrite
<1>3. /\ queue \in Seq(Nat) /\ Len(queue) \in Nat
      /\ responses_built \in Nat /\ last_response_sent \in Nat
      /\ responses_built = last_response_sent + Len(queue)
      /\ \A i \in DOMAIN queue : queue[i] = last_response_sent + i
  BY DEF DispatcherInv, QueueInv, ResponsesInOrder
<1>4. last_response_sent' = last_response_sent + k
  <2>1. CASE k = 0
    BY <1>2, <1>3, <2>1
  <2>2. CASE k # 0
    <3>1. k \in DOMAIN queue
      BY <1>3, <2>2
    <3>2. QED
      BY <1>2, <1>3, <2>2, <3>1
  <2>3. QED
    BY <2>1, <2>2
<1>5. /\ queue' \in Seq(Nat)
      /\ Len(queue') = Len(queue) - k
      /\ \A i \in 1..(Len(queue) - k) : queue'[i] = queue[i + k]
  <2>1. k \in Nat /\ k <= Len(queue)
    BY <1>2, <1>3
  <2>2. /\ SubSeq(queue, k + 1, Len(queue)) \in Seq(Nat)
        /\ Len(SubSeq(queue, k + 1, Len(queue))) = Len(queue) - k
        /\ \A i \in 1..(Len(queue) - k) :
             SubSeq(queue, k + 1, Len(queue))[i] = queue[i + k]
    BY <1>3, <2>1, RestOfSequence
  <2>3. QED
    BY <1>2, <2>2
<1>6. QueueInv'
  <2>1. last_response_sent' \in Nat /\ responses_built' \in Nat
    BY <1>2, <1>3, <1>4
  <2>2. responses_built' = last_response_sent' + Len(queue')
    BY <1>2, <1>3, <1>4, <1>5
  <2>3. ASSUME NEW i \in DOMAIN queue' PROVE queue'[i] = last_response_sent' + i
    <3>1. i \in 1..(Len(queue) - k)
      BY <1>5
    <3>2. i + k \in DOMAIN queue
      BY <1>3, <3>1
    <3>3. queue'[i] = queue[i + k] /\ queue[i + k] = last_response_sent + (i + k)
      BY <1>3, <1>5, <3>1, <3>2
    <3>4. QED
      BY <1>3, <1>4, <3>1, <3>3
  <2>4. QED
    BY <1>5, <2>1, <2>2, <2>3 DEF QueueInv, ResponsesInOrder
<1>7. WritersInv'
  <2>1. /\ rest \in Seq(BlockedWriters)
        /\ IsInjective(rest)
        /\ ToSet(rest) = ToSet(write_blocked_list) \ {TimeWait}
    BY <1>1, TailList DEF DispatcherInv, WritersInv, WriterList
  <2> HIDE DEF rest
  <2>2. WriterList(rest, LiveSessions)
    BY <2>1 DEF DispatcherInv, WritersInv, WriterList
  <2>3. \A blocked \in BOOLEAN :
          /\ WriterList(OnWriteBlocked(blocked, rest, TimeWait), LiveSessions)
          /\ ToSet(OnWriteBlocked(blocked, rest, TimeWait)) =
               IF blocked THEN ToSet(rest) \cup {TimeWait} ELSE ToSet(rest)
    BY <2>2, BlockedList DEF BlockedWriters
  <2>4. write_blocked' \in BOOLEAN
    BY <1>2
  <2>5. /\ WriterList(write_blocked_list', LiveSessions)
        /\ ToSet(rest) \subseteq ToSet(write_blocked_list')
        /\ write_blocked' => TimeWait \in ToSet(write_blocked_list')
    BY <1>2, <2>3, <2>4
  <2>6. queue' # << >> => write_blocked'
    <3>1. queue' # << >> => k < Len(queue)
      BY <1>3, <1>5
    <3>2. QED
      BY <1>2, <3>1
  <2>7. unsent' \subseteq ToSet(rest)
    BY <1>2, <2>1, DispatcherAssumption
    DEF DispatcherInv, WritersInv, RefusedWritersAreQueued
  <2>8. RefusedWritersAreQueued'
    BY <1>1, <2>5, <2>6, <2>7 DEF RefusedWritersAreQueued
  <2>9. unsent' \subseteq Sessions /\ LiveSessions' = LiveSessions
    BY <1>1, <1>2 DEF DispatcherInv, WritersInv, LiveSessions, sessionVars
  <2>10. QED
    BY <2>4, <2>5, <2>8, <2>9 DEF WritersInv
<1>8. TwInv'
  BY <1>1 DEF twVars, DispatcherInv, TwInv, TwTypeOK, OldestFirst, InThePast,
              AlarmCoversEveryRecord, WithinMaximum
<1>9. SessionsInv' /\ phase' \in Phases
  BY <1>1 DEF DispatcherInv, SessionsInv, SessionMap, Live, IsConnectionIdInTimeWait,
              sessionVars, twVars
<1>10. QED
  BY <1>6, <1>7, <1>8, <1>9 DEF DispatcherInv

\* The first connection on the list writes or closes, and is not on the list
\* meanwhile.
LEMMA ResumeConnectionInv ==
  ASSUME DispatcherInv, NEW id \in ConnectionIds, ResumeConnection(id)
  PROVE  DispatcherInv'
<1> DEFINE s == session_map[id]
           rest == Tail(write_blocked_list)
<1>1. /\ phase = "can_write" /\ write_blocked_list # << >>
      /\ Head(write_blocked_list) = s
      /\ \/ /\ ConnectionWrites(s, rest)
            /\ UNCHANGED <<twVars, queueVars, sessionVars, phase>>
         \/ \E close_packet \in BOOLEAN :
              ConnectionCloses(s, id, session_map, rest, close_packet)
  BY DEF ResumeConnection
<1>2. s \in BlockedWriters
  <2>1. write_blocked_list \in Seq(BlockedWriters)
    BY DEF DispatcherInv, WritersInv, WriterList
  <2>2. QED
    BY <1>1, <2>1, HeadTailProperties
<1>3. s # NoSession
  BY <1>2, DispatcherAssumption DEF BlockedWriters
<1>4. s \in Sessions /\ s \in Live(session_map) /\ SessionMap(session_map)
  BY <1>3, SessionOfId
<1>5. Given(s, rest, Live(session_map))
  <2>1. LiveSessions = Live(session_map)
    BY DEF LiveSessions, Live
  <2>2. QED
    BY <1>1, <1>4, <2>1, GivenWhenResumed
<1> HIDE DEF rest
<1>6. CASE /\ ConnectionWrites(s, rest)
           /\ UNCHANGED <<twVars, queueVars, sessionVars, phase>>
  <2>1. WritersInv'
    BY <1>4, <1>5, <1>6, ConnectionWritesInv
    DEF DispatcherInv, WritersInv, queueVars, sessionVars
  <2>2. TwInv'
    BY <1>6 DEF twVars, DispatcherInv, TwInv, TwTypeOK, OldestFirst, InThePast,
                AlarmCoversEveryRecord, WithinMaximum
  <2>3. SessionsInv'
    BY <1>6 DEF DispatcherInv, SessionsInv, SessionMap, Live, IsConnectionIdInTimeWait,
                sessionVars, twVars
  <2>4. QueueInv' /\ phase' \in Phases
    BY <1>6 DEF DispatcherInv, QueueInv, ResponsesInOrder, queueVars
  <2>5. QED
    BY <2>1, <2>2, <2>3, <2>4 DEF DispatcherInv
<1>7. CASE \E close_packet \in BOOLEAN :
             ConnectionCloses(s, id, session_map, rest, close_packet)
  <2> HIDE DEF s
  <2>1. session_map[id] = s
    BY DEF s
  <2>2. QED
    BY <1>4, <1>5, <1>7, <2>1, ConnectionClosesInv
<1>8. QED
  BY <1>1, <1>6, <1>7

\* Shutdown closes a session that is in the map.
LEMMA ShutdownClosesSessionInv ==
  ASSUME DispatcherInv, NEW id \in ConnectionIds, ShutdownClosesSession(id)
  PROVE  DispatcherInv'
<1> DEFINE s == session_map[id]
<1>1. /\ s # NoSession
      /\ ConnectionCloses(s, id, session_map, write_blocked_list, TRUE)
  BY DEF ShutdownClosesSession
<1>2. s \in Sessions /\ s \in Live(session_map) /\ SessionMap(session_map)
  BY <1>1, SessionOfId
<1>3. session_map[id] = s
  OBVIOUS
<1> HIDE DEF s
<1>4. Given(s, write_blocked_list, Live(session_map))
  BY <1>2, GivenToLive
<1>5. QED
  BY <1>1, <1>2, <1>3, <1>4, ConnectionClosesInv

-----------------------------------------------------------------------------
\* Initially there is no session and nothing to write.
LEMMA DispatcherInitInv == Init => DispatcherInv
<1> SUFFICES ASSUME Init PROVE DispatcherInv
  OBVIOUS
<1>1. /\ TwInit
      /\ session_map = [id \in ConnectionIds |-> NoSession]
      /\ closed_session_list = << >> /\ delete_sessions_alarm = FALSE
      /\ write_blocked = FALSE /\ write_blocked_list = << >>
      /\ pending_packets_queue = << >>
      /\ responses_built = 0 /\ last_response_sent = 0
      /\ unsent = {} /\ streams = {} /\ phase = "idle"
  BY DEF Init
<1>2. /\ ToSet(<< >>) = {} /\ IsInjective(<< >>) /\ Len(<< >>) = 0
      /\ << >> \in Seq(Sessions) /\ << >> \in Seq(BlockedWriters) /\ << >> \in Seq(Nat)
      /\ DOMAIN << >> = {}
  BY DEF ToSet, IsInjective
<1>3. TwInv
  BY <1>1, TwInitInv
<1>4. Live(session_map) = {}
  BY <1>1 DEF Live
<1>5. SessionsInv
  BY <1>1, <1>2, <1>4 DEF SessionsInv, SessionMap
<1>6. WritersInv
  BY <1>1, <1>2 DEF WritersInv, WriterList, RefusedWritersAreQueued
<1>7. QueueInv
  BY <1>1, <1>2 DEF QueueInv, ResponsesInOrder
<1>8. QED
  BY <1>1, <1>3, <1>5, <1>6, <1>7 DEF DispatcherInv, Phases

LEMMA DispatcherNextInv == DispatcherInv /\ [Next]_vars => DispatcherInv'
<1> SUFFICES ASSUME DispatcherInv, [Next]_vars PROVE DispatcherInv'
  OBVIOUS
<1>1. ASSUME NEW id \in ConnectionIds, ProcessPacket(id) PROVE DispatcherInv'
  BY <1>1, DispatchToSessionInv, DispatchOpensStreamInv, LoopTurnsInv,
     TimeWaitPacketsInv, CreateSessionInv
  DEF ProcessPacket
<1>2. ASSUME NEW id \in ConnectionIds,
             ConnectionAlarm(id) \/ ResumeConnection(id) \/ ShutdownClosesSession(id)
      PROVE  DispatcherInv'
  BY <1>2, DispatchToSessionInv, ResumeConnectionInv, ShutdownClosesSessionInv
<1>3. CASE \/ CleanUpAlarm \/ TimePasses \/ DeleteSessions \/ ShutdownReturns
           \/ OnCanWrite \/ ResumeTimeWait \/ OnCanWriteReturns \/ Shutdown
  BY <1>3, TimeInv, DeleteSessionsInv, LoopTurnsInv, ResumeTimeWaitInv
<1>4. CASE UNCHANGED vars
  <2>1. UNCHANGED <<twVars, writerVars, queueVars, sessionVars, phase>>
    BY <1>4 DEF vars
  <2>2. TwInv'
    BY <2>1 DEF twVars, DispatcherInv, TwInv, TwTypeOK, OldestFirst, InThePast,
                AlarmCoversEveryRecord, WithinMaximum
  <2>3. WritersInv'
    BY <2>1 DEF DispatcherInv, WritersInv, RefusedWritersAreQueued, LiveSessions,
                writerVars, queueVars, sessionVars
  <2>4. SessionsInv'
    BY <2>1 DEF DispatcherInv, SessionsInv, SessionMap, Live, IsConnectionIdInTimeWait,
                sessionVars, twVars
  <2>5. QueueInv' /\ phase' \in Phases
    BY <2>1 DEF DispatcherInv, QueueInv, ResponsesInOrder, queueVars
  <2>6. QED
    BY <2>2, <2>3, <2>4, <2>5 DEF DispatcherInv
<1>5. QED
  BY <1>1, <1>2, <1>3, <1>4 DEF Next

\* The invariant holds in every state of the dispatcher.
THEOREM DispatcherInvariant == Spec => []DispatcherInv
<1>1. Init => DispatcherInv
  BY DispatcherInitInv
<1>2. DispatcherInv /\ [Next]_vars => DispatcherInv'
  BY DispatcherNextInv
<1>3. QED
  BY <1>1, <1>2, PTL DEF Spec

\* Type correctness of the dispatcher.
THEOREM DispatcherTypeCorrect == Spec => []TypeOK
<1>1. DispatcherInv => TypeOK
  BY DEF DispatcherInv, TwInv, WritersInv, WriterList, SessionsInv, SessionMap,
         QueueInv, TypeOK
<1>2. QED
  BY <1>1, DispatcherInvariant, PTL

\* OnCanWrite never calls through a pointer to a connection that is gone.
THEOREM DispatcherNoDanglingWriter == Spec => []NoDanglingWriter
<1>1. DispatcherInv => NoDanglingWriter
  BY DEF DispatcherInv, WritersInv, WriterList, IsInjective, NoDanglingWriter
<1>2. QED
  BY <1>1, DispatcherInvariant, PTL

\* No session is freed while packets reach it, or twice; and no live session is
\* hidden behind the time wait list.
THEOREM DispatcherOneOwner == Spec => []OneOwner
<1>1. DispatcherInv => OneOwner
  BY DEF DispatcherInv, SessionsInv, SessionMap, Live, LiveSessions, IsInjective, OneOwner
<1>2. QED
  BY <1>1, DispatcherInvariant, PTL

\* No writer that was refused is forgotten.
THEOREM DispatcherRefusedWritersAreQueued == Spec => []RefusedWritersAreQueued
<1>1. DispatcherInv => RefusedWritersAreQueued
  BY DEF DispatcherInv, WritersInv
<1>2. QED
  BY <1>1, DispatcherInvariant, PTL

\* Responses are given to the socket in order, none twice and none left out.
THEOREM DispatcherResponsesInOrder == Spec => []ResponsesInOrder
<1>1. DispatcherInv => ResponsesInOrder
  BY DEF DispatcherInv, QueueInv
<1>2. QED
  BY <1>1, DispatcherInvariant, PTL

-----------------------------------------------------------------------------
(* The lifecycle of connection ids *)

\* The list has one record of an id: the one that find returns.
LEMMA SinceOf ==
  ASSUME NEW list \in Seq(Entry), Ordered(list), NEW k \in DOMAIN list
  PROVE  list[k].id \in Ids(list) /\ Since(list, list[k].id) = list[k].time_added
<1> DEFINE x == list[k].id
<1>1. x \in Ids(list)
  BY DEF Ids
<1>2. \A j \in DOMAIN list : list[j].id = x => j = k
  <2>1. SUFFICES ASSUME NEW j \in DOMAIN list, list[j].id = x, j # k PROVE FALSE
    OBVIOUS
  <2>2. j < k \/ k < j
    BY <2>1
  <2>3. QED
    BY <2>1, <2>2 DEF Ordered
<1>3. Find(list, x) = k
  BY <1>2 DEF Find
<1>4. QED
  BY <1>1, <1>3 DEF Since

\* So the list is as long as it has ids.
LEMMA IdsCounted ==
  ASSUME NEW list \in Seq(Entry), Ordered(list)
  PROVE  Cardinality(Ids(list)) = Len(list)
<1> DEFINE f == [k \in 1..Len(list) |-> list[k].id]
<1>1. Len(list) \in Nat /\ DOMAIN list = 1..Len(list)
  OBVIOUS
<1>2. f \in Bijection(1..Len(list), Ids(list))
  <2>1. f \in [1..Len(list) -> Ids(list)]
    BY <1>1 DEF Ids
  <2>2. ASSUME NEW i \in 1..Len(list), NEW j \in 1..Len(list), f[i] = f[j]
        PROVE  i = j
    <3>1. ~ (i < j) /\ ~ (j < i)
      BY <1>1, <2>2 DEF Ordered
    <3>2. QED
      BY <3>1
  <2>3. \A x \in Ids(list) : \E i \in 1..Len(list) : f[i] = x
    BY <1>1 DEF Ids
  <2> HIDE DEF f
  <2>4. IsInjective(f)
    BY <2>1, <2>2 DEF IsInjective
  <2>5. QED
    BY <2>1, <2>3, <2>4 DEF Bijection, Injection, Surjection
<1>3. ExistsBijection(1..Len(list), Ids(list))
  BY <1>2 DEF ExistsBijection
<1>4. QED
  BY <1>1, <1>3, FS_CountingElements

\* Records that stay keep their time.
LEMMA SinceKept ==
  ASSUME NEW list \in Seq(Entry), Ordered(list), NEW part \in Seq(Entry), Ordered(part),
         NEW x \in Ids(part), x \in Ids(list),
         \A i \in DOMAIN part :
           part[i].id = x => \E k \in DOMAIN list : /\ list[k].id = x
                                                    /\ list[k].time_added = part[i].time_added
  PROVE  Since(part, x) = Since(list, x)
<1>1. PICK i \in DOMAIN part : part[i].id = x
  BY DEF Ids
<1>2. PICK k \in DOMAIN list : list[k].id = x /\ list[k].time_added = part[i].time_added
  BY <1>1
<1>3. QED
  BY <1>1, <1>2, SinceOf

\* Counting a packet moves no id.
LEMMA CountedSince ==
  ASSUME NEW list \in Seq(Entry), Ordered(list), NEW id \in Ids(list)
  PROVE  /\ Counted(list, id) \in Seq(Entry)
         /\ Ordered(Counted(list, id))
         /\ Len(Counted(list, id)) = Len(list)
         /\ Ids(Counted(list, id)) = Ids(list)
         /\ \A x \in Ids(list) : Since(Counted(list, id), x) = Since(list, x)
<1> DEFINE new == Counted(list, id)
<1>1. /\ new \in Seq(Entry) /\ Len(new) = Len(list) /\ DOMAIN new = DOMAIN list
      /\ \A i \in DOMAIN list :
           /\ new[i].id = list[i].id
           /\ new[i].time_added = list[i].time_added
  BY CountedList
<1> HIDE DEF new
<1>2. Ordered(new)
  BY <1>1 DEF Ordered
<1>3. Ids(new) = Ids(list)
  BY <1>1 DEF Ids
<1>4. \A x \in Ids(list) : Since(new, x) = Since(list, x)
  BY <1>1, <1>2, <1>3, SinceKept
<1>5. QED
  BY <1>1, <1>2, <1>3, <1>4 DEF new

\* Adding an id that is not on the list: it waits from now on, and the others
\* go on waiting, but for the oldest of a full list.
LEMMA AddedSince ==
  ASSUME NEW list \in Seq(Entry), Ordered(list), now \in Nat,
         MaxConnections > 0 => Len(list) <= MaxConnections,
         \A k \in DOMAIN list : list[k].time_added <= now,
         NEW id \in ConnectionIds, id \notin Ids(list), NEW close_packet \in BOOLEAN
  PROVE  LET new == Added(list, id, close_packet)
         IN  /\ new \in Seq(Entry)
             /\ Ordered(new)
             /\ id \in Ids(new) /\ Ids(new) \subseteq Ids(list) \cup {id}
             /\ Since(new, id) = now
             /\ \A x \in Ids(list) :
                  IF x \in Ids(new)
                  THEN Since(new, x) = Since(list, x)
                  ELSE /\ Len(list) = MaxConnections
                       /\ \A y \in Ids(list) : Since(list, x) <= Since(list, y)
<1> DEFINE new == Added(list, id, close_packet)
<1>1. /\ new \in Seq(Entry) /\ Ordered(new) /\ id \in Ids(new)
      /\ \A i \in DOMAIN new :
           \/ new[i].id = id /\ new[i].time_added = now
           \/ \E k \in DOMAIN list : new[i] = list[k]
      /\ \A k \in DOMAIN list :
           list[k].id \notin Ids(new) => k = 1 /\ Len(list) = MaxConnections
  BY AddedList
<1> HIDE DEF new
<1>2. Ids(new) \subseteq Ids(list) \cup {id}
  BY <1>1 DEF Ids
<1>3. Since(new, id) = now
  <2>1. PICK i \in DOMAIN new : new[i].id = id
    BY <1>1 DEF Ids
  <2>2. new[i].time_added = now
    BY <1>1, <2>1 DEF Ids
  <2>3. QED
    BY <1>1, <2>1, <2>2, SinceOf
<1>4. ASSUME NEW x \in Ids(list), x \in Ids(new)
      PROVE  Since(new, x) = Since(list, x)
  <2>1. x # id
    BY <1>4
  <2>2. \A i \in DOMAIN new : new[i].id = x => \E k \in DOMAIN list : new[i] = list[k]
    BY <1>1, <2>1
  <2>3. QED
    BY <1>1, <1>4, <2>2, SinceKept
<1>5. ASSUME NEW x \in Ids(list), x \notin Ids(new), NEW y \in Ids(list)
      PROVE  Len(list) = MaxConnections /\ Since(list, x) <= Since(list, y)
  <2>1. PICK k \in DOMAIN list : list[k].id = x
    BY DEF Ids
  <2>2. k = 1 /\ Len(list) = MaxConnections
    BY <1>1, <1>5, <2>1
  <2>3. PICK j \in DOMAIN list : list[j].id = y
    BY DEF Ids
  <2>4. Since(list, x) = list[k].time_added /\ Since(list, y) = list[j].time_added
    BY <2>1, <2>3, SinceOf
  <2>5. list[k].time_added \in Nat /\ list[j].time_added \in Nat
    BY TimesAreNat
  <2>6. list[k].time_added <= list[j].time_added
    <3>1. CASE j = 1
      BY <2>2, <2>5, <3>1
    <3>2. CASE j # 1
      <4>1. 1 < j
        BY <3>2
      <4>2. QED
        BY <2>2, <4>1 DEF Ordered
    <3>3. QED
      BY <3>1, <3>2
  <2>7. QED
    BY <2>2, <2>4, <2>6
<1>6. Len(list) = MaxConnections \/ Ids(list) \subseteq Ids(new)
  BY <1>1 DEF Ids
<1>7. QED
  BY <1>1, <1>2, <1>3, <1>4, <1>5, <1>6 DEF new

\* How one id moves in the abstract lifecycle, in the dispatcher's terms.
LEMMA LifecycleView ==
  ASSUME NEW id \in ConnectionIds
  PROVE  LET life == LifeOf(session_map, connection_id_map, id)
             next == LifeOf(session_map', connection_id_map', id)
             then == Since(connection_id_map, id)
             later == Since(connection_id_map', id)
         IN  /\ Lifecycle!Stays(id) <=> next = life /\ later = then
             /\ Lifecycle!Opens(id) <=> life = "free" /\ next = "live" /\ later = 0
             /\ Lifecycle!Waits(id) <=>
                  life \in {"free", "live"} /\ next = "waiting" /\ later = now
             /\ Lifecycle!Forgotten(id) <=>
                  /\ life = "waiting" /\ Lifecycle!MayForget(id)
                  /\ next = "free" /\ later = 0
BY DEF LifeOf, Since, IsConnectionIdInTimeWait, Lifecycle!Stays, Lifecycle!Opens,
       Lifecycle!Waits, Lifecycle!Forgotten

\* When the dispatcher may forget an id.
LEMMA MayForgetView ==
  ASSUME DispatcherInv, NEW id \in ConnectionIds, id \in Ids(connection_id_map),
         \/ now - Since(connection_id_map, id) >= TimeWaitPeriod
         \/ /\ Len(connection_id_map) = MaxConnections
            /\ \A other \in Ids(connection_id_map) :
                 Since(connection_id_map, id) <= Since(connection_id_map, other)
  PROVE  Lifecycle!MayForget(id)
<1>1. /\ connection_id_map \in Seq(Entry) /\ Ordered(connection_id_map)
      /\ \A i \in ConnectionIds : session_map[i] # NoSession => i \notin Ids(connection_id_map)
  BY DEF DispatcherInv, TwInv, TwTypeOK, OldestFirst, Ordered, SessionsInv, SessionMap,
         IsConnectionIdInTimeWait
<1>2. Ids(connection_id_map) \subseteq ConnectionIds
  <2>1. \A k \in DOMAIN connection_id_map : connection_id_map[k] \in Entry
    BY <1>1
  <2>2. QED
    BY <2>1 DEF Ids, Entry
<1>3. Lifecycle!Waiting = Ids(connection_id_map)
  BY <1>1, <1>2 DEF Lifecycle!Waiting, IsConnectionIdInTimeWait
<1>4. Cardinality(Ids(connection_id_map)) = Len(connection_id_map)
  BY <1>1, IdsCounted
<1> DEFINE since == [i \in ConnectionIds |->
                      IF IsConnectionIdInTimeWait(i)
                      THEN connection_id_map[Find(connection_id_map, i)].time_added ELSE 0]
<1>5. \A i \in ConnectionIds : since[i] = Since(connection_id_map, i)
  BY DEF Since, IsConnectionIdInTimeWait
<1> HIDE DEF since
<1>6. \/ now - since[id] >= TimeWaitPeriod
      \/ /\ Cardinality(Lifecycle!Waiting) = MaxConnections
         /\ \A other \in Lifecycle!Waiting : since[id] <= since[other]
  BY <1>2, <1>3, <1>4, <1>5
<1>7. \A S : Lifecycle!Cardinality(S) = Cardinality(S)
  BY Zenon DEF Cardinality, Lifecycle!Cardinality
<1>8. QED
  BY <1>6, <1>7, Zenon DEF Lifecycle!MayForget, since

\* A connection that closes retires its id.
LEMMA ClosingRetires ==
  ASSUME NEW id \in ConnectionIds, id \notin Ids(connection_id_map),
         NEW s, NEW sm, [sm EXCEPT ![id] = NoSession] = [session_map EXCEPT ![id] = NoSession],
         NEW list, NEW close_packet \in BOOLEAN,
         ConnectionCloses(s, id, sm, list, close_packet)
  PROVE  IdRetires(id) \/ UNCHANGED <<now, connection_id_map, session_map>>
<1>1. CASE s \in streams
  BY <1>1 DEF ConnectionCloses, twVars, sessionVars
<1>2. CASE s \notin streams
  <2>1. /\ connection_id_map' = Added(connection_id_map, id, close_packet)
        /\ session_map' = [sm EXCEPT ![id] = NoSession]
        /\ UNCHANGED now
    BY <1>2 DEF ConnectionCloses, OnConnectionClosed
  <2>2. QED
    BY <2>1 DEF IdRetires
<1>3. QED
  BY <1>1, <1>2

\* Every step of the dispatcher opens a session for an id, retires an id, counts
\* a packet for one, cleans up, or leaves all ids as they are.
LEMMA DispatcherIdStep ==
  ASSUME DispatcherInv, Next
  PROVE  \/ \E id \in ConnectionIds :
              SessionOpens(id) \/ IdRetires(id) \/ PacketIsCounted(id)
         \/ CleanUpOldConnectionIds /\ UNCHANGED session_map
         \/ now' \in {now, now + 1} /\ UNCHANGED <<connection_id_map, session_map>>
<1> DEFINE Goal == \/ \E id \in ConnectionIds :
                        SessionOpens(id) \/ IdRetires(id) \/ PacketIsCounted(id)
                   \/ CleanUpOldConnectionIds /\ UNCHANGED session_map
                   \/ now' \in {now, now + 1} /\ UNCHANGED <<connection_id_map, session_map>>
<1>1. \A id \in ConnectionIds :
        session_map[id] # NoSession => id \notin Ids(connection_id_map)
  BY DEF DispatcherInv, SessionsInv, SessionMap, IsConnectionIdInTimeWait
<1>2. session_map \in [ConnectionIds -> Sessions \cup {NoSession}]
  BY DEF DispatcherInv, SessionsInv, SessionMap
<1>3. ASSUME NEW id \in ConnectionIds, session_map[id] # NoSession,
             NEW s, NEW list, NEW close_packet \in BOOLEAN,
             ConnectionCloses(s, id, session_map, list, close_packet)
      PROVE  Goal
  BY <1>1, <1>3, ClosingRetires
<1>4. ASSUME NEW id \in ConnectionIds, session_map[id] # NoSession, NEW s,
             ConnectionActs(s, id, session_map, write_blocked_list)
      PROVE  Goal
  BY <1>3, <1>4 DEF ConnectionActs, twVars
<1>5. ASSUME NEW id \in ConnectionIds, CreateSession(id) PROVE Goal
  <2>1. session_map[id] = NoSession /\ id \notin Ids(connection_id_map)
    BY <1>5 DEF CreateSession, IsConnectionIdInTimeWait
  <2>2. PICK s \in Sessions :
          ConnectionActs(s, id, [session_map EXCEPT ![id] = s], write_blocked_list)
    BY <1>5 DEF CreateSession
  <2> DEFINE sm == [session_map EXCEPT ![id] = s]
  <2>3. [sm EXCEPT ![id] = NoSession] = [session_map EXCEPT ![id] = NoSession]
    BY <1>2
  <2>4. CASE session_map' = sm /\ UNCHANGED <<now, connection_id_map>>
    BY <2>1, <2>4 DEF SessionOpens
  <2>5. ASSUME NEW close_packet \in BOOLEAN,
               ConnectionCloses(s, id, sm, write_blocked_list, close_packet)
        PROVE  Goal
    <3> HIDE DEF sm
    <3>1. QED
      BY <2>1, <2>3, <2>5, ClosingRetires
  <2>6. QED
    BY <2>2, <2>4, <2>5 DEF ConnectionActs, twVars
<1>6. ASSUME NEW id \in ConnectionIds, DispatchToTimeWait(id) PROVE Goal
  BY <1>6
  DEF DispatchToTimeWait, TimeWaitProcessPacket, IsConnectionIdInTimeWait,
      PacketIsCounted, sessionVars
<1>7. ASSUME NEW id \in ConnectionIds, RejectUnknownId(id) PROVE Goal
  <2>1. /\ session_map[id] = NoSession /\ id \notin Ids(connection_id_map)
        /\ UNCHANGED <<now, session_map>>
        /\ \/ connection_id_map' = Counted(Added(connection_id_map, id, FALSE), id)
           \/ connection_id_map' = Added(connection_id_map, id, FALSE)
    BY <1>7 DEF RejectUnknownId, TimeWaitProcessPacket, IsConnectionIdInTimeWait,
                sessionVars
  <2>2. session_map' = [session_map EXCEPT ![id] = NoSession]
    BY <1>2, <2>1
  <2>3. IdRetires(id)
    BY <2>1, <2>2 DEF IdRetires
  <2>4. QED
    BY <2>3
<1>8. ASSUME NEW id \in ConnectionIds, ProcessPacket(id) PROVE Goal
  <2>1. CASE DispatchToSession(id)
    BY <1>4, <2>1 DEF DispatchToSession
  <2>2. CASE DispatchOpensStream(id) \/ StreamCloses(id)
    BY <2>2 DEF DispatchOpensStream, StreamCloses, twVars, sessionVars
  <2>3. QED
    BY <1>5, <1>6, <1>7, <1>8, <2>1, <2>2 DEF ProcessPacket
<1>9. ASSUME NEW id \in ConnectionIds,
             ConnectionAlarm(id) \/ ResumeConnection(id) \/ ShutdownClosesSession(id)
      PROVE  Goal
  <2>1. CASE ConnectionAlarm(id)
    BY <1>4, <2>1 DEF ConnectionAlarm
  <2>2. CASE ShutdownClosesSession(id)
    BY <1>3, <2>2 DEF ShutdownClosesSession
  <2>3. CASE ResumeConnection(id)
    <3>1. session_map[id] # NoSession
      <4>1. Head(write_blocked_list) \in ToSet(write_blocked_list)
        BY <2>3, TailList DEF ResumeConnection, DispatcherInv, WritersInv, WriterList
      <4>2. QED
        BY <2>3, <4>1, DispatcherAssumption
        DEF ResumeConnection, DispatcherInv, WritersInv, WriterList, LiveSessions
    <3>2. QED
      BY <1>3, <2>3, <3>1 DEF ResumeConnection, twVars, sessionVars
  <2>4. QED
    BY <1>9, <2>1, <2>2, <2>3
<1>10. CASE \/ CleanUpAlarm \/ TimePasses \/ DeleteSessions \/ OnCanWrite \/ ResumeTimeWait
            \/ OnCanWriteReturns \/ Shutdown \/ ShutdownReturns
  BY <1>10 DEF CleanUpAlarm, TimePasses, Tick, DeleteSessions, OnCanWrite, ResumeTimeWait,
               OnCanWriteReturns, Shutdown, ShutdownReturns, twVars, sessionVars
<1>11. QED
  BY <1>8, <1>9, <1>10 DEF Next

\* An abstract step, id by id.
LEMMA AbstractStep ==
  ASSUME now' >= now,
         \A id \in ConnectionIds : \/ Lifecycle!Stays(id) \/ Lifecycle!Opens(id)
                                   \/ Lifecycle!Waits(id) \/ Lifecycle!Forgotten(id)
  PROVE  Lifecycle!AbstractNext
BY DEF Lifecycle!AbstractNext

\* A session opens: its id goes live, and the others stay.
LEMMA OpeningRefines ==
  ASSUME DispatcherInv, NEW id \in ConnectionIds, SessionOpens(id)
  PROVE  Lifecycle!AbstractNext
<1>1. PICK s \in Sessions : session_map' = [session_map EXCEPT ![id] = s]
  BY DEF SessionOpens
<1>2. /\ session_map[id] = NoSession /\ id \notin Ids(connection_id_map)
      /\ UNCHANGED <<now, connection_id_map>>
      /\ session_map \in [ConnectionIds -> Sessions \cup {NoSession}]
      /\ now \in Nat
  BY DEF SessionOpens, DispatcherInv, SessionsInv, SessionMap, TwInv, TwTypeOK
<1>3. Lifecycle!Opens(id)
  BY <1>1, <1>2, LifecycleView, DispatcherAssumption DEF LifeOf, Since
<1>4. \A x \in ConnectionIds \ {id} : Lifecycle!Stays(x)
  BY <1>1, <1>2, LifecycleView DEF LifeOf, Since
<1>5. QED
  BY <1>2, <1>3, <1>4, AbstractStep

\* An id retires: it waits from now on, and the others stay, but for one that
\* is forgotten to make room.
LEMMA RetiringRefines ==
  ASSUME DispatcherInv, NEW id \in ConnectionIds, IdRetires(id)
  PROVE  Lifecycle!AbstractNext
<1> DEFINE list == connection_id_map
<1>1. /\ list \in Seq(Entry) /\ Ordered(list) /\ now \in Nat
      /\ MaxConnections > 0 => Len(list) <= MaxConnections
      /\ \A k \in DOMAIN list : list[k].time_added <= now
      /\ session_map \in [ConnectionIds -> Sessions \cup {NoSession}]
      /\ \A x \in ConnectionIds : session_map[x] # NoSession => x \notin Ids(list)
  BY DEF DispatcherInv, TwInv, TwTypeOK, OldestFirst, Ordered, WithinMaximum, InThePast,
         SessionsInv, SessionMap, IsConnectionIdInTimeWait
<1>2. /\ id \notin Ids(list)
      /\ session_map' = [session_map EXCEPT ![id] = NoSession]
      /\ UNCHANGED now
  BY DEF IdRetires
<1>3. PICK close_packet \in BOOLEAN :
        connection_id_map' \in {Added(list, id, close_packet),
                                Counted(Added(list, id, close_packet), id)}
  BY DEF IdRetires
<1> DEFINE added == Added(list, id, close_packet)
<1>4. /\ added \in Seq(Entry) /\ Ordered(added)
      /\ id \in Ids(added) /\ Ids(added) \subseteq Ids(list) \cup {id}
      /\ Since(added, id) = now
      /\ \A x \in Ids(list) :
           IF x \in Ids(added)
           THEN Since(added, x) = Since(list, x)
           ELSE /\ Len(list) = MaxConnections
                /\ \A y \in Ids(list) : Since(list, x) <= Since(list, y)
  BY <1>1, <1>2, AddedSince
<1> HIDE DEF added
<1>5. /\ Ids(connection_id_map') = Ids(added)
      /\ \A x \in Ids(added) : Since(connection_id_map', x) = Since(added, x)
  BY <1>3, <1>4, CountedSince DEF added
<1>6. Lifecycle!Waits(id)
  BY <1>1, <1>2, <1>4, <1>5, LifecycleView DEF LifeOf
<1>7. ASSUME NEW x \in ConnectionIds, x # id
      PROVE  Lifecycle!Stays(x) \/ Lifecycle!Forgotten(x)
  <2>1. session_map'[x] = session_map[x]
    BY <1>1, <1>2, <1>7
  <2>2. CASE x \in Ids(list) <=> x \in Ids(added)
    <3>1. Since(connection_id_map', x) = Since(list, x)
      BY <1>4, <1>5, <2>2 DEF Since
    <3>2. QED
      BY <1>5, <2>1, <2>2, <3>1, LifecycleView DEF LifeOf
  <2>3. CASE x \in Ids(list) /\ x \notin Ids(added)
    <3>1. Lifecycle!MayForget(x)
      BY <1>4, <2>3, MayForgetView
    <3>2. Since(connection_id_map', x) = 0
      BY <1>5, <2>3 DEF Since
    <3>3. QED
      BY <1>1, <1>5, <2>1, <2>3, <3>1, <3>2, LifecycleView DEF LifeOf
  <2>4. QED
    BY <1>4, <1>7, <2>2, <2>3
<1>8. QED
  BY <1>1, <1>2, <1>6, <1>7, AbstractStep

\* A packet of a waiting id is counted: no id moves.
LEMMA CountingRefines ==
  ASSUME DispatcherInv, NEW id \in ConnectionIds, PacketIsCounted(id)
  PROVE  Lifecycle!AbstractNext
<1>1. /\ connection_id_map \in Seq(Entry) /\ Ordered(connection_id_map) /\ now \in Nat
      /\ id \in Ids(connection_id_map)
      /\ connection_id_map' = Counted(connection_id_map, id)
      /\ UNCHANGED <<now, session_map>>
  BY DEF PacketIsCounted, DispatcherInv, TwInv, TwTypeOK, OldestFirst, Ordered
<1>2. /\ Ids(connection_id_map') = Ids(connection_id_map)
      /\ \A x \in Ids(connection_id_map) :
           Since(connection_id_map', x) = Since(connection_id_map, x)
  BY <1>1, CountedSince
<1>3. \A x \in ConnectionIds : Since(connection_id_map', x) = Since(connection_id_map, x)
  BY <1>2 DEF Since
<1>4. \A x \in ConnectionIds : Lifecycle!Stays(x)
  BY <1>1, <1>2, <1>3, LifecycleView DEF LifeOf
<1>5. QED
  BY <1>1, <1>4, AbstractStep

\* The clean-up forgets the ids whose period is over, and no other.
LEMMA CleanUpRefines ==
  ASSUME DispatcherInv, CleanUpOldConnectionIds, UNCHANGED session_map
  PROVE  Lifecycle!AbstractNext
<1> DEFINE list == connection_id_map
<1>1. /\ list \in Seq(Entry) /\ Ordered(list) /\ now \in Nat /\ now' = now
      /\ \A x \in ConnectionIds : session_map[x] # NoSession => x \notin Ids(list)
  BY DEF CleanUpOldConnectionIds, DispatcherInv, TwInv, TwTypeOK, OldestFirst, Ordered,
         SessionsInv, SessionMap, IsConnectionIdInTimeWait
<1>2. PICK n \in 0..Len(list) :
        /\ ExpiredUpTo(list, now - TimeWaitPeriod, n)
        /\ connection_id_map' = SubSeq(list, n + 1, Len(list))
  BY DEF CleanUpOldConnectionIds
<1>3. n \in Nat /\ n <= Len(list) /\ Len(list) \in Nat
  BY <1>1
<1> DEFINE rest == SubSeq(list, n + 1, Len(list))
<1>4. /\ PartOf(rest, list)
      /\ Len(rest) = Len(list) - n
      /\ \A i \in DOMAIN rest : rest[i] = list[i + n]
  BY <1>1, <1>3, TailPart
<1> HIDE DEF rest
<1>5. connection_id_map' = rest
  BY <1>2 DEF rest
<1>6. rest \in Seq(Entry) /\ Ordered(rest) /\ DOMAIN rest = 1..(Len(list) - n)
  BY <1>4 DEF PartOf
<1>7. Ids(rest) \subseteq Ids(list)
  BY <1>4 DEF PartOf, Ids
<1>8. \A x \in Ids(rest) : Since(rest, x) = Since(list, x)
  <2>1. ASSUME NEW x, NEW i \in DOMAIN rest, rest[i].id = x
        PROVE  \E k \in DOMAIN list : /\ list[k].id = x
                                      /\ list[k].time_added = rest[i].time_added
    BY <1>4, <2>1 DEF PartOf
  <2>2. QED
    BY <1>1, <1>6, <1>7, <2>1, SinceKept
<1>9. ASSUME NEW x \in Ids(list), x \notin Ids(rest)
      PROVE  now - Since(list, x) >= TimeWaitPeriod
  <2>1. PICK k \in 1..Len(list) : list[k].id = x
    BY <1>1 DEF Ids
  <2>2. k \in 1..n
    <3>1. CASE k > n
      <4>1. k - n \in DOMAIN rest /\ (k - n) + n = k
        BY <1>3, <1>6, <3>1
      <4>2. QED
        BY <1>4, <1>9, <2>1, <4>1 DEF Ids
    <3>2. QED
      BY <1>3, <3>1
  <2>3. list[k].time_added <= now - TimeWaitPeriod
    BY <1>2, <2>2 DEF ExpiredUpTo
  <2>4. list[k].time_added \in Nat /\ Since(list, x) = list[k].time_added
    BY <1>1, <2>1, TimesAreNat, SinceOf
  <2>5. QED
    BY <1>1, <2>3, <2>4, TimeWaitAssumption
<1>10. ASSUME NEW x \in ConnectionIds
       PROVE  Lifecycle!Stays(x) \/ Lifecycle!Forgotten(x)
  <2>1. CASE x \in Ids(list) <=> x \in Ids(rest)
    <3>1. Since(rest, x) = Since(list, x)
      BY <1>8, <2>1 DEF Since
    <3>2. QED
      BY <1>5, <2>1, <3>1, LifecycleView DEF LifeOf
  <2>2. CASE x \in Ids(list) /\ x \notin Ids(rest)
    <3>1. Lifecycle!MayForget(x)
      BY <1>9, <2>2, MayForgetView
    <3>2. Since(rest, x) = 0
      BY <2>2 DEF Since
    <3>3. QED
      BY <1>1, <1>5, <2>2, <3>1, <3>2, LifecycleView DEF LifeOf
  <2>3. QED
    BY <1>7, <2>1, <2>2
<1>11. QED
  BY <1>1, <1>10, AbstractStep

\* A step that moves no id: time may pass.
LEMMA WaitingRefines ==
  ASSUME DispatcherInv, now' \in {now, now + 1},
         UNCHANGED <<connection_id_map, session_map>>
  PROVE  Lifecycle!AbstractNext
<1>1. now' >= now
  BY DEF DispatcherInv, TwInv, TwTypeOK
<1>2. \A x \in ConnectionIds : Lifecycle!Stays(x)
  BY LifecycleView
<1>3. QED
  BY <1>1, <1>2, AbstractStep

\* The dispatcher implements the lifecycle of connection ids: an id whose
\* connection closed waits before it can be used again, for its whole period
\* unless the list overflows.
THEOREM DispatcherImplementsLifecycle == Spec => ImplementsLifecycle
<1>1. Init => Lifecycle!AbstractInit
  <2> SUFFICES ASSUME Init PROVE Lifecycle!AbstractInit
    OBVIOUS
  <2>1. /\ now = 0 /\ session_map = [id \in ConnectionIds |-> NoSession]
        /\ \A id \in ConnectionIds : ~ IsConnectionIdInTimeWait(id)
    BY DEF Init, TwInit, IsConnectionIdInTimeWait, Ids
  <2>2. QED
    BY <2>1 DEF Lifecycle!AbstractInit
<1>2. DispatcherInv /\ [Next]_vars => [Lifecycle!AbstractNext]_Lifecycle!abstractVars
  <2> SUFFICES ASSUME DispatcherInv, [Next]_vars PROVE Lifecycle!AbstractNext
    OBVIOUS
  <2>1. CASE Next
    BY <2>1, DispatcherIdStep, OpeningRefines, RetiringRefines, CountingRefines,
       CleanUpRefines, WaitingRefines
  <2>2. CASE UNCHANGED vars
    BY <2>2, WaitingRefines DEF vars, twVars, sessionVars
  <2>3. QED
    BY <2>1, <2>2
<1>3. QED
  BY <1>1, <1>2, DispatcherInvariant, PTL
  DEF Spec, ImplementsLifecycle, Lifecycle!AbstractSpec

\* So no id leaves the dispatcher's list before its time ...
THEOREM DispatcherLeavesOnlyWhenDue == Spec => LeavesOnlyWhenDue
BY DispatcherUsesManager, TwLeavesOnlyWhenDue

\* ... and its clean-up alarm covers every record on it.
THEOREM DispatcherAlarmCovers == Spec => []AlarmCoversEveryRecord
BY DispatcherUsesManager, TwAlarmCovers
=============================================================================

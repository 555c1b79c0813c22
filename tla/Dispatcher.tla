----------------------------- MODULE Dispatcher -----------------------------
(***************************************************************************)
(* QuicDispatcher (net/tools/quic/quic_dispatcher.cc) with the time wait   *)
(* list manager and the packet writer it owns.                             *)
(*                                                                         *)
(* A session is the heap object a QuicServerSession and its QuicConnection *)
(* live at: session_map_ and closed_session_list_ own them and the write   *)
(* blocked list points into them.  What QuicConnection does is libquic's   *)
(* and external: here it handles a packet or an alarm by doing nothing, by *)
(* writing, or by closing, and once it is closed it stays silent.          *)
(*                                                                         *)
(* The program has one thread, and every handler is a call of the event    *)
(* loop.  A handler is one action, except the loops of OnCanWrite and of   *)
(* Shutdown, whose iterations are actions of their own.                    *)
(***************************************************************************)
EXTENDS TimeWaitList

CONSTANTS
  Sessions,        \* bound: the addresses sessions can be allocated at
  NoSession,       \* the id is not in session_map_
  TimeWait,        \* the time wait list manager, as a blocked writer
  MaxResponses     \* bound: responses built for ids in time wait

ASSUME DispatcherAssumption ==
  /\ NoSession \notin Sessions
  /\ TimeWait \notin Sessions \cup {NoSession}
  /\ MaxResponses \in Nat

VARIABLES
  session_map,             \* ConnectionIds -> Sessions or NoSession
  closed_session_list,
  delete_sessions_alarm,   \* set?  Its deadline is the time it was set at
  write_blocked,           \* of QuicDefaultPacketWriter, shared by all writers
  write_blocked_list,
  pending_packets_queue,   \* the numbers of the responses in it
  responses_built,         \* auxiliary: number of the last response built
  last_response_sent,      \* auxiliary: number of the last one given to the socket
  unsent,                  \* connections that were refused a write
  streams,                 \* sessions with an open QuicServerStream
  phase                    \* what the thread is in: see Phases

Phases == {"idle",        \* between two handlers
           "can_write",   \* the loop of OnCanWrite
           "shutdown",    \* the loop of Shutdown
           "stopped",     \* after Shutdown
           "exited"}      \* exit(0), in QuicServerStream::OnClose

writerVars == <<write_blocked, write_blocked_list, unsent>>
queueVars == <<pending_packets_queue, responses_built, last_response_sent>>
sessionVars == <<session_map, closed_session_list, delete_sessions_alarm, streams>>
vars == <<twVars, writerVars, queueVars, sessionVars, phase>>

BlockedWriters == Sessions \cup {TimeWait}
LiveSessions == {session_map[id] : id \in ConnectionIds} \ {NoSession}
Allocated == LiveSessions \cup ToSet(closed_session_list)

-----------------------------------------------------------------------------
(* The write blocked list and the writer *)

\* Mutant: a closed connection stays on the list.
Erased_Kept(list, writer) == list

\* write_blocked_list_.erase(writer)
Erased(list, writer) ==
  IF writer \in ToSet(list)
  THEN RemoveAt(list, CHOOSE k \in DOMAIN list : list[k] = writer)
  ELSE list

\* OnWriteBlocked: a linked_hash_map keeps a writer that is already in it at
\* its place, and a writer that is not blocked is not added.
OnWriteBlocked(blocked, list, writer) ==
  IF blocked /\ writer \notin ToSet(list) THEN Append(list, writer) ELSE list

\* The outcome of a write: was the writer blocked, or does the socket block it?
WriteOutcomes == {"sent", "blocked"}
WriteOutcome(outcome) == write_blocked => outcome = "blocked"

\* QuicConnection writes, with the write blocked list it finds.  A connection
\* that is refused keeps its packets and reports that it is blocked.
ConnectionWrites(s, list) ==
  \E outcome \in WriteOutcomes :
    /\ WriteOutcome(outcome)
    /\ write_blocked' = (outcome = "blocked")
    /\ write_blocked_list' = OnWriteBlocked(write_blocked', list, s)
    /\ unsent' = IF outcome = "blocked" THEN unsent \cup {s} ELSE unsent \ {s}

\* SendOrQueuePacket of the time wait list manager, for the next response.  A
\* packet the socket refuses for another reason is dropped: it counts as sent.
SendOrQueuePacket ==
  \E outcome \in WriteOutcomes :
    /\ WriteOutcome(outcome)
    /\ responses_built < MaxResponses
    /\ responses_built' = responses_built + 1
    /\ write_blocked' = (outcome = "blocked")
    /\ write_blocked_list' = OnWriteBlocked(write_blocked', write_blocked_list, TimeWait)
    /\ IF outcome = "blocked"
       THEN /\ pending_packets_queue' = Append(pending_packets_queue, responses_built')
            /\ UNCHANGED last_response_sent
       ELSE /\ last_response_sent' = responses_built'
            /\ UNCHANGED pending_packets_queue
    /\ UNCHANGED unsent

\* Mutant: pops a packet before it is written.
TimeWaitOnCanWrite_PopsFirst(list) ==
  \E k \in 0..Len(pending_packets_queue) :
    /\ pending_packets_queue' =
         SubSeq(pending_packets_queue, k + 2, Len(pending_packets_queue))
    /\ last_response_sent' =
         IF k = 0 THEN last_response_sent ELSE pending_packets_queue[k]
    /\ write_blocked' = (k < Len(pending_packets_queue))
    /\ write_blocked_list' = OnWriteBlocked(write_blocked', list, TimeWait)
    /\ UNCHANGED <<responses_built, unsent>>

\* QuicTimeWaitListManager::OnCanWrite, with the write blocked list it finds:
\* the first k pending packets go out, and the next one blocks the writer.
TimeWaitOnCanWrite(list) ==
  \E k \in 0..Len(pending_packets_queue) :
    /\ pending_packets_queue' =
         SubSeq(pending_packets_queue, k + 1, Len(pending_packets_queue))
    /\ last_response_sent' =
         IF k = 0 THEN last_response_sent ELSE pending_packets_queue[k]
    /\ write_blocked' = (k < Len(pending_packets_queue))
    /\ write_blocked_list' = OnWriteBlocked(write_blocked', list, TimeWait)
    /\ UNCHANGED <<responses_built, unsent>>

-----------------------------------------------------------------------------
(* Sessions *)

\* Mutants of the next definition: the map entry is erased before its session is
\* pushed; the id skips time wait.
OnConnectionClosed_SkipsTimeWait(s, id, sm, list, close_packet) ==
  /\ closed_session_list' = Append(closed_session_list, s)
  /\ delete_sessions_alarm' =
       IF closed_session_list = << >> THEN TRUE ELSE delete_sessions_alarm
  /\ write_blocked_list' = Erased(list, s)
  /\ connection_id_map' = connection_id_map
  /\ session_map' = [sm EXCEPT ![id] = NoSession]
  /\ unsent' = unsent \ {s}

\* QuicDispatcher::OnConnectionClosed with CleanUpSession, for session s of id
\* in the session map sm; close_packet: the connection released one.
OnConnectionClosed(s, id, sm, list, close_packet) ==
  /\ closed_session_list' = Append(closed_session_list, s)
  /\ delete_sessions_alarm' =
       IF closed_session_list = << >> THEN TRUE ELSE delete_sessions_alarm
  /\ write_blocked_list' = Erased(list, s)
  /\ connection_id_map' = Added(connection_id_map, id, close_packet)
  /\ session_map' = [sm EXCEPT ![id] = NoSession]
  /\ unsent' = unsent \ {s}

\* The connection closes, having sent a close packet or not (closed by the
\* peer, a write error).  An open stream is closed first and ends the process.
ConnectionCloses(s, id, sm, list, close_packet) ==
  IF s \in streams
  THEN /\ phase' = "exited"
       /\ UNCHANGED <<twVars, writerVars, queueVars, sessionVars>>
  ELSE /\ IF close_packet
          THEN \E outcome \in WriteOutcomes :
                 /\ WriteOutcome(outcome)
                 /\ write_blocked' = (outcome = "blocked")
                 /\ OnConnectionClosed(s, id, sm,
                      OnWriteBlocked(write_blocked', list, s), TRUE)
          ELSE /\ OnConnectionClosed(s, id, sm, list, FALSE)
               /\ UNCHANGED write_blocked
       /\ UNCHANGED <<now, connection_id_clean_up_alarm, queueVars, streams, phase>>

\* What a connection may do when it is given a packet, an alarm or a chance to
\* write: nothing, write, or close.
ConnectionActs(s, id, sm, list) ==
  \/ /\ session_map' = sm
     /\ write_blocked_list' = list
     /\ UNCHANGED <<twVars, write_blocked, unsent, queueVars, streams,
                    closed_session_list, delete_sessions_alarm, phase>>
  \/ /\ ConnectionWrites(s, list)
     /\ session_map' = sm
     /\ UNCHANGED <<twVars, queueVars, streams,
                    closed_session_list, delete_sessions_alarm, phase>>
  \/ \E close_packet \in BOOLEAN : ConnectionCloses(s, id, sm, list, close_packet)

-----------------------------------------------------------------------------
(* The handlers *)

\* QuicTimeWaitListManager::ProcessPacket: count the packet, answer some.
TimeWaitProcessPacket(list, id) ==
  /\ PacketsCounted(list, id) < MaxPackets
  /\ connection_id_map' = Counted(list, id)
  /\ IF ShouldSendResponse(PacketsCounted(list, id) + 1)
     THEN SendOrQueuePacket
     ELSE UNCHANGED <<writerVars, queueVars>>
  /\ UNCHANGED <<now, connection_id_clean_up_alarm, sessionVars, phase>>

\* A packet for a known connection.
DispatchToSession(id) ==
  /\ phase = "idle"
  /\ session_map[id] # NoSession
  /\ ConnectionActs(session_map[id], id, session_map, write_blocked_list)

\* The packet makes the session open a stream (CreateIncomingDynamicStream).
DispatchOpensStream(id) ==
  /\ phase = "idle"
  /\ session_map[id] # NoSession
  /\ streams' = streams \cup {session_map[id]}
  /\ ConnectionWrites(session_map[id], write_blocked_list)
  /\ UNCHANGED <<twVars, queueVars, session_map, closed_session_list,
                 delete_sessions_alarm, phase>>

\* The client ends its stream: QuicServerStream::OnClose calls exit(0).
StreamCloses(id) ==
  /\ phase = "idle"
  /\ session_map[id] \in streams
  /\ phase' = "exited"
  /\ UNCHANGED <<twVars, writerVars, queueVars, sessionVars>>

\* A packet for an id in time wait (a public reset for one is dropped).
DispatchToTimeWait(id) ==
  /\ phase = "idle"
  /\ session_map[id] = NoSession
  /\ IsConnectionIdInTimeWait(id)
  /\ TimeWaitProcessPacket(connection_id_map, id)

\* A packet without a version for an unknown id (reset_flag is not set).  The
\* rest of its header may turn out not to parse.
RejectUnknownId(id) ==
  /\ phase = "idle"
  /\ session_map[id] = NoSession
  /\ ~ IsConnectionIdInTimeWait(id)
  /\ \/ TimeWaitProcessPacket(Added(connection_id_map, id, FALSE), id)
     \/ /\ connection_id_map' = Added(connection_id_map, id, FALSE)
        /\ UNCHANGED <<now, connection_id_clean_up_alarm, writerVars, queueVars,
                       sessionVars, phase>>

\* Mutant: creates a session for an id in time wait.
CreateSession_IgnoresTimeWait(id) ==
  /\ phase = "idle"
  /\ session_map[id] = NoSession
  /\ \E s \in Sessions \ Allocated :
       ConnectionActs(s, id, [session_map EXCEPT ![id] = s], write_blocked_list)

\* A packet with a version for an unknown id: a session is created, entered in
\* the map, and given the packet.
CreateSession(id) ==
  /\ phase = "idle"
  /\ session_map[id] = NoSession
  /\ ~ IsConnectionIdInTimeWait(id)
  /\ \E s \in Sessions \ Allocated :
       ConnectionActs(s, id, [session_map EXCEPT ![id] = s], write_blocked_list)

\* An alarm of a connection: retransmission, ack, idle timeout.
ConnectionAlarm(id) ==
  /\ phase = "idle"
  /\ session_map[id] # NoSession
  /\ ConnectionActs(session_map[id], id, session_map, write_blocked_list)

\* ConnectionIdCleanUpAlarm.
CleanUpAlarm ==
  /\ phase = "idle"
  /\ CleanUpOldConnectionIds
  /\ UNCHANGED <<writerVars, queueVars, sessionVars, phase>>

\* DeleteSessionsAlarm: the alarm is no longer set when DeleteSessions runs.
DeleteSessions ==
  /\ phase = "idle"
  /\ delete_sessions_alarm
  /\ delete_sessions_alarm' = FALSE
  /\ closed_session_list' = << >>
  /\ UNCHANGED <<twVars, writerVars, queueVars, session_map, streams, phase>>

\* OnCanWrite, up to its loop.
OnCanWrite ==
  /\ phase = "idle"
  /\ phase' = "can_write"
  /\ write_blocked' = FALSE
  /\ UNCHANGED <<twVars, write_blocked_list, unsent, queueVars, sessionVars>>

\* One round of the loop: the first writer is taken off the list, and resumed.
ResumeTimeWait ==
  /\ phase = "can_write"
  /\ ~ write_blocked
  /\ write_blocked_list # << >>
  /\ Head(write_blocked_list) = TimeWait
  /\ TimeWaitOnCanWrite(Tail(write_blocked_list))
  /\ UNCHANGED <<twVars, sessionVars, phase>>

ResumeConnection(id) ==
  /\ phase = "can_write"
  /\ ~ write_blocked
  /\ write_blocked_list # << >>
  /\ Head(write_blocked_list) = session_map[id]
  /\ \/ /\ ConnectionWrites(session_map[id], Tail(write_blocked_list))
        /\ UNCHANGED <<twVars, queueVars, sessionVars, phase>>
     \/ \E close_packet \in BOOLEAN :
          ConnectionCloses(session_map[id], id, session_map,
                           Tail(write_blocked_list), close_packet)

\* Mutant: one writer is resumed each time the socket is writable.
OnCanWriteReturns_AfterOne ==
  /\ phase = "can_write"
  /\ phase' = "idle"
  /\ UNCHANGED <<twVars, writerVars, queueVars, sessionVars>>

OnCanWriteReturns ==
  /\ phase = "can_write"
  /\ write_blocked \/ write_blocked_list = << >>
  /\ phase' = "idle"
  /\ UNCHANGED <<twVars, writerVars, queueVars, sessionVars>>

\* Shutdown, then one round of its loop, then its DeleteSessions.
Shutdown ==
  /\ phase = "idle"
  /\ phase' = "shutdown"
  /\ UNCHANGED <<twVars, writerVars, queueVars, sessionVars>>

ShutdownClosesSession(id) ==
  /\ phase = "shutdown"
  /\ session_map[id] # NoSession
  /\ ConnectionCloses(session_map[id], id, session_map, write_blocked_list, TRUE)

ShutdownReturns ==
  /\ phase = "shutdown"
  /\ LiveSessions = {}
  /\ phase' = "stopped"
  /\ closed_session_list' = << >>
  /\ UNCHANGED <<twVars, writerVars, queueVars, session_map,
                 delete_sessions_alarm, streams>>

\* Time passes between handlers: ApproximateNow is fixed inside one.
TimePasses ==
  /\ phase = "idle"
  /\ Tick
  /\ UNCHANGED <<writerVars, queueVars, sessionVars, phase>>

-----------------------------------------------------------------------------
Init ==
  /\ TwInit
  /\ session_map = [id \in ConnectionIds |-> NoSession]
  /\ closed_session_list = << >>
  /\ delete_sessions_alarm = FALSE
  /\ write_blocked = FALSE
  /\ write_blocked_list = << >>
  /\ pending_packets_queue = << >>
  /\ responses_built = 0
  /\ last_response_sent = 0
  /\ unsent = {}
  /\ streams = {}
  /\ phase = "idle"

ProcessPacket(id) ==
  \/ DispatchToSession(id)
  \/ DispatchOpensStream(id)
  \/ StreamCloses(id)
  \/ DispatchToTimeWait(id)
  \/ RejectUnknownId(id)
  \/ CreateSession(id)

Next ==
  \/ \E id \in ConnectionIds :
       \/ ProcessPacket(id)
       \/ ConnectionAlarm(id)
       \/ ResumeConnection(id)
       \/ ShutdownClosesSession(id)
  \/ CleanUpAlarm
  \/ DeleteSessions
  \/ OnCanWrite
  \/ ResumeTimeWait
  \/ OnCanWriteReturns
  \/ Shutdown
  \/ ShutdownReturns
  \/ TimePasses

Spec == Init /\ [][Next]_vars

-----------------------------------------------------------------------------
(* Properties *)

\* The type invariant of the dispatcher's own state.
TypeOK ==
  /\ TwTypeOK
  /\ session_map \in [ConnectionIds -> Sessions \cup {NoSession}]
  /\ closed_session_list \in Seq(Sessions)
  /\ delete_sessions_alarm \in BOOLEAN
  /\ write_blocked \in BOOLEAN
  /\ write_blocked_list \in Seq(BlockedWriters)
  /\ pending_packets_queue \in Seq(Nat)
  /\ responses_built \in Nat
  /\ last_response_sent \in Nat
  /\ unsent \subseteq Sessions
  /\ streams \subseteq Sessions
  /\ phase \in Phases

\* OnCanWrite calls through the pointers of write_blocked_list_: each of them
\* is the time wait list manager or the connection of a session that is still
\* in session_map_, whatever closed in between, and no writer is in it twice.
NoDanglingWriter ==
  /\ ToSet(write_blocked_list) \subseteq LiveSessions \cup {TimeWait}
  /\ \A i, j \in DOMAIN write_blocked_list :
       write_blocked_list[i] = write_blocked_list[j] => i = j

\* A session has one owner: one id in session_map_, or one place in
\* closed_session_list_.  Otherwise DeleteSessions frees a session that
\* packets still reach, or frees one twice.  And an id is never live and in
\* time wait at once ("DCHECKs that connection_id is not already on the list"),
\* so a live session is never hidden behind the time wait list.
OneOwner ==
  /\ \A id1, id2 \in ConnectionIds :
       session_map[id1] = session_map[id2] /\ session_map[id1] # NoSession => id1 = id2
  /\ LiveSessions \cap ToSet(closed_session_list) = {}
  /\ \A i, j \in DOMAIN closed_session_list :
       closed_session_list[i] = closed_session_list[j] => i = j
  /\ \A id \in ConnectionIds : session_map[id] # NoSession => ~ IsConnectionIdInTimeWait(id)

\* No lost wake-up: a writer with something it could not write is on the list
\* that OnCanWrite resumes, also when it was blocked again while resumed; and
\* "until we're blocked again or there's no work left": between handlers the
\* list holds a writer only while the socket is blocked.
RefusedWritersAreQueued ==
  /\ unsent \subseteq ToSet(write_blocked_list)
  /\ pending_packets_queue # << >> => TimeWait \in ToSet(write_blocked_list)
  /\ phase = "idle" /\ ~ write_blocked => write_blocked_list = << >>

\* A response is given to the socket once, in the order in which they were
\* built: those still pending are exactly the ones after the last sent, so
\* a new response never overtakes a queued one.
ResponsesInOrder ==
  /\ responses_built = last_response_sent + Len(pending_packets_queue)
  /\ \A i \in DOMAIN pending_packets_queue :
       pending_packets_queue[i] = last_response_sent + i

\* "Sends ConnectionClose frames to all connected clients" (quic_dispatcher.h):
\* Shutdown's loop is not left while sessions are live.  One may be: the session
\* whose frame is out and whose closing ends the process.
ShutdownReachesAllClients ==
  [][phase = "shutdown" /\ phase' # "shutdown" => Cardinality(LiveSessions) <= 1]_vars

\* The lifecycle of connection ids, implemented.
Lifecycle == INSTANCE ConnectionLifecycle WITH
  Period <- TimeWaitPeriod,
  Capacity <- MaxConnections,
  time <- now,
  state <- [id \in ConnectionIds |->
              IF session_map[id] # NoSession THEN "live"
              ELSE IF IsConnectionIdInTimeWait(id) THEN "waiting" ELSE "free"],
  since <- [id \in ConnectionIds |->
              IF IsConnectionIdInTimeWait(id)
              THEN connection_id_map[Find(connection_id_map, id)].time_added ELSE 0]

\* A connection's id always passes through time wait before it is used again,
\* and waits its period unless the list overflows.
ImplementsLifecycle == Lifecycle!AbstractSpec
=============================================================================

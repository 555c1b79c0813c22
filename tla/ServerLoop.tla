----------------------------- MODULE ServerLoop -----------------------------
(***************************************************************************)
(* A server's main (quic_perf_server.cc): QuicServer::Listen, and then the *)
(* event loop, QuicServer::OnEvent (net/tools/quic/quic_server.cc) between *)
(* an edge-triggered UDP socket and QuicDispatcher::OnCanWrite, in the     *)
(* rounds of EpollServer.                                                  *)
(*                                                                         *)
(* The module asks about wake-ups: epoll reports the socket only after a   *)
(* change, so whatever a callback leaves unread or unwritten must be       *)
(* reported again by somebody.  The dispatcher is reduced to its live      *)
(* connections and its list of blocked writers, which a connection may     *)
(* leave by closing; Dispatcher has the rest of it, and the exit of the    *)
(* process when a connection closes with an open stream.                   *)
(***************************************************************************)
EXTENDS Integers, Sequences, SequencesExt

CONSTANTS
  Connections,   \* bound: the connections there can be at a time
  TimeWait,      \* the time wait list manager, the other kind of writer
  NoWriter,      \* no writer is being resumed
  ReceiveBuffer, \* datagrams the socket's receive buffer holds
  SendBuffer,    \* datagrams its send buffer holds
  MaxBurst,      \* bound: datagrams that arrive while one OnEvent reads
  MaxAlarms      \* bound: alarms of connections that run in one round

ASSUME ServerLoopAssumption ==
  /\ TimeWait \notin Connections
  /\ NoWriter \notin Connections \cup {TimeWait}
  /\ ReceiveBuffer \in Nat \ {0}
  /\ SendBuffer \in Nat \ {0}
  /\ MaxBurst \in Nat
  /\ MaxAlarms \in Nat

VARIABLES
  received,            \* external: datagrams in the receive buffer
  sending,             \* external: datagrams in the send buffer
  burst,               \* external: datagrams arrived since the last epoll_wait
  woken,               \* external: the kernel has the fd on epoll's ready list
  events_to_fake,      \* of the fd's node in EpollServer
  in_events,           \* of the OnEvent that runs
  connections,         \* those in session_map_
  write_blocked,       \* QuicDefaultPacketWriter::write_blocked_
  write_blocked_list,  \* of the dispatcher
  resumed,             \* the writer whose OnCanWrite is on the stack
  alarms_run,          \* alarms of connections that have run in this round
  phase                \* what the thread is in: see Phases

Phases == {"created",     \* main before Listen
           "opened",      \* the socket is there, with its options
           "bound",       \* and has its address, but epoll does not know it
           "failed",      \* Listen returned false, main returns 1
           "outside",     \* WaitForEventsAndExecuteCallbacks is not running
           "on_event",    \* OnEvent begins
           "reading",     \* its loop over ReadAndDispatchSinglePacket
           "read",        \* behind that loop
           "writing",     \* the loop of QuicDispatcher::OnCanWrite
           "written",     \* behind it
           "alarms"}      \* CallAndReregisterAlarmEvents

socketVars == <<received, sending, burst, woken>>
writerVars == <<connections, write_blocked, write_blocked_list>>
loopVars == <<events_to_fake, in_events, resumed, alarms_run>>
vars == <<socketVars, writerVars, loopVars, phase>>

\* QuicBlockedWriterInterface: what can be on the list, and what exists now.
Writers == Connections \cup {TimeWait}
LiveWriters == connections \cup {TimeWait}

-----------------------------------------------------------------------------
(* The network and the kernel *)

\* A datagram arrives, from bind on.  Without room for it the kernel drops it.
\* The loop that reads has no bound in the code: that it ends is owed to the
\* traffic.
Arrives ==
  /\ phase \notin {"created", "opened", "failed"}
  /\ received < ReceiveBuffer
  /\ phase \in {"bound", "outside"} \/ burst < MaxBurst
  /\ received' = received + 1
  /\ burst' = IF phase \in {"bound", "outside"} THEN burst ELSE burst + 1
  /\ woken' = (woken \/ phase # "bound")
  /\ UNCHANGED <<sending, writerVars, loopVars, phase>>

\* The network takes a datagram; a full buffer becomes writable.
Leaves ==
  /\ sending > 0
  /\ sending' = sending - 1
  /\ woken' = (woken \/ sending = SendBuffer)
  /\ UNCHANGED <<received, burst, writerVars, loopVars, phase>>

\* What epoll_wait reports of a socket that was woken: all that is true of it.
SocketEvents ==
  (IF received > 0 THEN {"EPOLLIN"} ELSE {}) \cup
  (IF sending < SendBuffer THEN {"EPOLLOUT"} ELSE {})

-----------------------------------------------------------------------------
(* QuicServer::Listen *)

\* SetGetAddressInfo, SetReceiveBufferSize and SetSendBufferSize: do they succeed?
SetSocketOptions == BOOLEAN

\* socket and its options; a failure of SO_RXQ_OVFL is tolerated.
OpenSocket ==
  /\ phase = "created"
  /\ \E socket_is_open \in BOOLEAN, options_are_set \in SetSocketOptions :
       phase' = IF socket_is_open /\ options_are_set THEN "opened" ELSE "failed"
  /\ UNCHANGED <<socketVars, writerVars, loopVars>>

\* bind, and getsockname for a port the kernel chose.
Bind ==
  /\ phase = "opened"
  /\ phase' \in {"bound", "failed"}
  /\ UNCHANGED <<socketVars, writerVars, loopVars>>

\* RegisterFD: EPOLL_CTL_ADD finds what is true of the socket by then.  The
\* dispatcher and its writer are new.
ListenReturns_NewEdgesOnly ==
  /\ phase = "bound"
  /\ phase' = "outside"
  /\ UNCHANGED <<socketVars, writerVars, loopVars>>

ListenReturns ==
  /\ phase = "bound"
  /\ phase' = "outside"
  /\ woken' = (SocketEvents # {})
  /\ UNCHANGED <<received, sending, burst, writerVars, loopVars>>

\* main returns 1.
MainReturns ==
  /\ phase = "failed"
  /\ UNCHANGED vars

-----------------------------------------------------------------------------
(* Writing *)

\* WritePacket of the packet writer all writers share: sendmsg, or EAGAIN; while
\* it is blocked nobody tries.
WritePacket ==
  IF ~ write_blocked /\ sending < SendBuffer
  THEN sending' = sending + 1 /\ UNCHANGED write_blocked
  ELSE write_blocked' = TRUE /\ UNCHANGED sending

\* OnWriteBlocked: a linked_hash_map keeps a writer that is on it at its place.
Refused_LosesItsPlace(list, w) == Append(SelectSeq(list, LAMBDA u : u # w), w)

Refused(list, w) == IF w \in ToSet(list) THEN list ELSE Append(list, w)

\* A writer that has a packet writes it, or ends on the list.
Writes(list, w) ==
  /\ WritePacket
  /\ write_blocked_list' = IF write_blocked' THEN Refused(list, w) ELSE list

\* write_blocked_list_.erase of CleanUpSession, from any place of the list.
Erased(list, c) ==
  IF c \in ToSet(list)
  THEN RemoveAt(list, CHOOSE k \in DOMAIN list : list[k] = c)
  ELSE list

\* A connection closes, with a close packet or without.  Were that refused, the
\* connection would go on the list, but CleanUpSession comes after: the packet
\* writer may be left blocked, and nobody on the list.
ConnectionCloses(list, live, c) ==
  /\ WritePacket \/ UNCHANGED <<sending, write_blocked>>
  /\ write_blocked_list' = Erased(list, c)
  /\ connections' = live \ {c}

\* What a writer makes of a packet, an alarm or its OnCanWrite, with the list and
\* the live connections it finds: nothing, a write (bound: one, where a connection
\* may write several packets; the last of them decides whether it is on the list),
\* or its end.
Acts(list, live, w) ==
  \/ /\ write_blocked_list' = list
     /\ connections' = live
     /\ UNCHANGED <<sending, write_blocked>>
  \/ Writes(list, w) /\ connections' = live
  \/ w # TimeWait /\ ConnectionCloses(list, live, w)

\* The writer a packet is for: a connection, one that it opens, or the time wait
\* list, which answers it or not.
HandlePacket ==
  \/ \E w \in LiveWriters : Acts(write_blocked_list, connections, w)
  \/ \E c \in Connections \ connections :
       Acts(write_blocked_list, connections \cup {c}, c)

-----------------------------------------------------------------------------
(* A round of EpollServer with QuicServer::OnEvent *)

\* epoll_wait, HandleEvent and CallReadyListCallbacks, up to OnEvent; without an
\* event for the socket, the alarms follow.
EpollWait ==
  /\ phase = "outside"
  /\ LET events == (IF woken THEN SocketEvents ELSE {}) \cup events_to_fake IN
       /\ in_events' = events
       /\ phase' = IF events = {} THEN "alarms" ELSE "on_event"
  /\ woken' = FALSE
  /\ burst' = 0
  /\ events_to_fake' = {}
  /\ UNCHANGED <<received, sending, writerVars, resumed, alarms_run>>

Goto(p) ==
  /\ phase' = p
  /\ UNCHANGED <<socketVars, writerVars, loopVars>>

TestIn ==
  /\ phase = "on_event"
  /\ Goto(IF "EPOLLIN" \in in_events THEN "reading" ELSE "read")

\* QuicSocketUtils::ReadPacket, when recvmsg has a datagram.
ReadPacket ==
  /\ received > 0
  /\ received' = received - 1

\* ReadAndDispatchSinglePacket.
ReadAndDispatch ==
  /\ phase = "reading"
  /\ ReadPacket
  /\ HandlePacket
  /\ UNCHANGED <<burst, woken, loopVars, phase>>

\* It returns false: EAGAIN.
NothingToRead ==
  /\ phase = "reading"
  /\ received = 0
  /\ Goto("read")

\* The test of EPOLLOUT; OnCanWrite first takes the packet writer for writable.
TestOut_ElseIf ==
  /\ phase = "read"
  /\ IF "EPOLLOUT" \in in_events /\ "EPOLLIN" \notin in_events
     THEN write_blocked' = FALSE /\ phase' = "writing"
     ELSE write_blocked' = write_blocked /\ phase' = "alarms"
  /\ UNCHANGED <<socketVars, connections, write_blocked_list, loopVars>>

TestOut_KeepsBlocked ==
  /\ phase = "read"
  /\ phase' = IF "EPOLLOUT" \in in_events THEN "writing" ELSE "alarms"
  /\ UNCHANGED <<socketVars, writerVars, loopVars>>

TestOut ==
  /\ phase = "read"
  /\ IF "EPOLLOUT" \in in_events
     THEN write_blocked' = FALSE /\ phase' = "writing"
     ELSE write_blocked' = write_blocked /\ phase' = "alarms"
  /\ UNCHANGED <<socketVars, connections, write_blocked_list, loopVars>>

\* QuicDispatcher::OnCanWrite takes the first writer off the list ...
ResumeWriter_KeepsHead ==
  /\ phase = "writing"
  /\ resumed = NoWriter
  /\ ~ write_blocked
  /\ write_blocked_list # << >>
  /\ resumed' = Head(write_blocked_list)
  /\ UNCHANGED <<socketVars, writerVars, events_to_fake, in_events, alarms_run, phase>>

ResumeWriter ==
  /\ phase = "writing"
  /\ resumed = NoWriter
  /\ ~ write_blocked
  /\ write_blocked_list # << >>
  /\ resumed' = Head(write_blocked_list)
  /\ write_blocked_list' = Tail(write_blocked_list)
  /\ UNCHANGED <<socketVars, connections, write_blocked, events_to_fake, in_events,
                 alarms_run, phase>>

\* ... and calls its OnCanWrite.
ResumedActs ==
  /\ phase = "writing"
  /\ resumed # NoWriter
  /\ Acts(write_blocked_list, connections, resumed)
  /\ resumed' = NoWriter
  /\ UNCHANGED <<received, burst, woken, events_to_fake, in_events, alarms_run, phase>>

OnCanWriteReturns ==
  /\ phase = "writing"
  /\ resumed = NoWriter
  /\ write_blocked \/ write_blocked_list = << >>
  /\ Goto("written")

\* out_ready_mask: EPOLLOUT as long as HasPendingWrites.
OutReadyMask == IF write_blocked_list # << >> THEN {"EPOLLOUT"} ELSE {}

OnEventReturns ==
  /\ phase = "written"
  /\ events_to_fake' = OutReadyMask
  /\ phase' = "alarms"
  /\ UNCHANGED <<socketVars, writerVars, in_events, resumed, alarms_run>>

\* CallAndReregisterAlarmEvents: an alarm of a connection may make it write or
\* close; those of the dispatcher and the time wait list do not write.
RunAlarm ==
  /\ phase = "alarms"
  /\ alarms_run < MaxAlarms
  /\ alarms_run' = alarms_run + 1
  /\ \E c \in connections : Acts(write_blocked_list, connections, c)
  /\ UNCHANGED <<received, burst, woken, events_to_fake, in_events, resumed, phase>>

\* The round is over.
RoundEnds ==
  /\ phase = "alarms"
  /\ phase' = "outside"
  /\ in_events' = {}
  /\ alarms_run' = 0
  /\ UNCHANGED <<socketVars, writerVars, events_to_fake, resumed>>

-----------------------------------------------------------------------------
Init ==
  /\ received = 0
  /\ sending = 0
  /\ burst = 0
  /\ woken = FALSE
  /\ events_to_fake = {}
  /\ in_events = {}
  /\ connections = {}
  /\ write_blocked = FALSE
  /\ write_blocked_list = << >>
  /\ resumed = NoWriter
  /\ alarms_run = 0
  /\ phase = "created"

Server ==
  \/ OpenSocket \/ Bind \/ ListenReturns
  \/ EpollWait \/ TestIn \/ ReadAndDispatch \/ NothingToRead
  \/ TestOut \/ ResumeWriter \/ ResumedActs \/ OnCanWriteReturns
  \/ OnEventReturns \/ RunAlarm \/ RoundEnds

Next == Server \/ MainReturns \/ Arrives \/ Leaves

\* main calls WaitForEvents in a loop without end (quic_perf_server.cc), and the
\* network takes what is sent.  Arrivals are not fair.
Fairness == WF_vars(Server) /\ WF_vars(Leaves)

Spec == Init /\ [][Next]_vars /\ Fairness

-----------------------------------------------------------------------------
(* Properties *)

\* The type invariant of the loop.
TypeOK ==
  /\ received \in 0..ReceiveBuffer
  /\ sending \in 0..SendBuffer
  /\ burst \in 0..MaxBurst
  /\ woken \in BOOLEAN
  /\ events_to_fake \subseteq {"EPOLLIN", "EPOLLOUT"}
  /\ in_events \subseteq {"EPOLLIN", "EPOLLOUT"}
  /\ connections \subseteq Connections
  /\ write_blocked \in BOOLEAN
  /\ write_blocked_list \in Seq(Writers)
  /\ resumed \in Writers \cup {NoWriter}
  /\ alarms_run \in 0..MaxAlarms
  /\ phase \in Phases

\* No lost wake-up for reading: an unread datagram, also one that arrived before
\* the socket was registered, is in front of the reading loop, or epoll has the
\* socket to report.
UnreadIsSignalled ==
  received > 0 =>
    \/ woken
    \/ phase = "bound"
    \/ phase = "on_event" /\ "EPOLLIN" \in in_events
    \/ phase = "reading"

\* No lost wake-up for writing: a writer on the list is in front of OnCanWrite's
\* loop, or an EPOLLOUT is due: the socket was woken, or it will be when its
\* full buffer drains, or the ready list has the event.  The same while the packet
\* writer is blocked and the list empty, since everybody on it has closed: the
\* next to write is refused by write_blocked_ alone, and waits for OnCanWrite too.
BlockedIsSignalled ==
  write_blocked \/ write_blocked_list # << >> =>
    \/ woken
    \/ sending = SendBuffer
    \/ "EPOLLOUT" \in events_to_fake
    \/ phase \in {"on_event", "reading", "read"} /\ "EPOLLOUT" \in in_events
    \/ phase \in {"writing", "written"}

\* "Give all the blocked writers one chance to write, until we're blocked again or
\* there's no work left" (quic_dispatcher.cc:330): a writer leaves the list from its
\* front, to its OnCanWrite, or because its own connection closes, whoever acts;
\* nobody, refused again or new, gets in front of one that waits, not even when
\* others close around it; and nobody joins a loop that goes on.
WritersTakeTurns ==
  [][/\ \A k \in DOMAIN write_blocked_list :
          \/ k = 1 /\ resumed' = write_blocked_list[k]
          \/ write_blocked_list[k] \in connections \ connections'
          \/ \E j \in (1..k) \cap DOMAIN write_blocked_list' :
               write_blocked_list'[j] = write_blocked_list[k]
     /\ phase = "writing" /\ ~ write_blocked' =>
          ToSet(write_blocked_list') \subseteq ToSet(write_blocked_list)]_vars

\* Every writer on the list is resumed, or its connection closes first.
EveryWriterIsResumed ==
  \A w \in Writers :
    w \in ToSet(write_blocked_list) ~> resumed = w \/ w \notin LiveWriters

\* A round ends, so that alarms run: reading and resuming writers both stop.
EveryRoundEnds == (phase = "on_event") ~> (phase = "outside")
=============================================================================

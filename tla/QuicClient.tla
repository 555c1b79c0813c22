------------------------------ MODULE QuicClient ------------------------------
(***************************************************************************)
(* The client: QuicClient (net/tools/quic/quic_client.cc) and the program  *)
(* that drives it (quic_perf_client.cc), over an edge-triggered socket.    *)
(*                                                                         *)
(* Unlike the server, which does everything inside callbacks, the client   *)
(* writes between the rounds of EpollServer, runs rounds only while it has *)
(* something to wait for, and asks for no event in out_ready_mask.  The    *)
(* module asks whether the wake-ups it waits for come, and whether its     *)
(* loops end.                                                              *)
(***************************************************************************)
EXTENDS Integers

CONSTANTS
  Chunks,        \* chunks of FLAGS_chunk_size that make FLAGS_total_transfer;
                 \* bound: of a timed transfer, chunks the stream buffers
  Window,        \* external: packets the congestion controller lets be unacked
  ReceiveBuffer, \* datagrams the socket's receive buffer holds
  SendBuffer,    \* datagrams its send buffer holds
  MaxBurst,      \* bound: datagrams that arrive while one OnEvent reads
  Patience       \* bound: rounds without reading that make its timeout

ASSUME QuicClientAssumption ==
  /\ {Chunks, Window, ReceiveBuffer, SendBuffer} \subseteq Nat \ {0}
  /\ {MaxBurst, Patience} \subseteq Nat

VARIABLES
  program,    \* where main is: see Programs
  duration,   \* FLAGS_duration: "none", or the time that "runs" or is "over"
  written,    \* chunks main has written in a transfer without duration
  fd,         \* fd_: "none", "open", or "registered" with EpollServer
  connection, \* "none", "handshake", "encrypted" or "closed"
  patience,   \* external: rounds left to the connection's timeout
  out,        \* the way out: see Out
  received,   \* external: datagrams in the receive buffer
  burst,      \* external: datagrams arrived since the last epoll_wait
  woken,      \* external: the kernel has the fd on epoll's ready list
  in_events,  \* of the OnEvent that runs
  phase       \* what WaitForEventsAndExecuteCallbacks is in: see Phases

Programs == {"start", "initialized", "connecting", "sending", "pausing",
             "flushing", "leaving", "returned"}

Phases == {"outside", "on_event", "reading", "read", "alarms"}

\* What the program has on its way: datagrams in the send buffer, packets that
\* wait for an acknowledgement, chunks the stream buffers, and whether the packet
\* writer is blocked.  The connection keeps the packet that was refused.
Out == [sending : 0..SendBuffer, unacked : 0..Window, buffered : 0..Chunks,
        write_blocked : BOOLEAN]

mainVars == <<program, duration, written, fd>>
socketVars == <<received, burst, woken>>
roundVars == <<in_events, phase>>
vars == <<mainVars, connection, patience, out, socketVars, roundVars>>

connected == connection \in {"handshake", "encrypted"}

Min2(a, b) == IF a < b THEN a ELSE b

-----------------------------------------------------------------------------
(* The network and the kernel *)

Arrives ==
  /\ fd = "registered"
  /\ received < ReceiveBuffer
  /\ phase # "outside" => burst < MaxBurst
  /\ received' = received + 1
  /\ burst' = IF phase = "outside" THEN burst ELSE burst + 1
  /\ woken' = TRUE
  /\ UNCHANGED <<mainVars, connection, patience, out, roundVars>>

\* The network takes a datagram; a full buffer becomes writable.
Leaves ==
  /\ fd = "registered"
  /\ out.sending > 0
  /\ out' = [out EXCEPT !.sending = @ - 1]
  /\ woken' = (woken \/ out.sending = SendBuffer)
  /\ UNCHANGED <<mainVars, connection, patience, received, burst, roundVars>>

SocketEvents ==
  (IF received > 0 THEN {"EPOLLIN"} ELSE {}) \cup
  (IF out.sending < SendBuffer THEN {"EPOLLOUT"} ELSE {})

\* The time of a timed transfer.
TimeIsUp ==
  /\ duration = "runs"
  /\ program \in {"sending", "pausing"}
  /\ duration' = "over"
  /\ UNCHANGED <<program, written, fd, connection, patience, out, socketVars,
                 roundVars>>

-----------------------------------------------------------------------------
(* QuicConnection and its stream, as functions of the way out *)

\* WritePacket of a packet that carries no data of the stream: a handshake
\* message, an acknowledgement, a retransmission, a close.
Written(o) ==
  IF o.write_blocked THEN o
  ELSE IF o.sending < SendBuffer THEN [o EXCEPT !.sending = @ + 1]
  ELSE [o EXCEPT !.write_blocked = TRUE]

\* QuicConnection::OnCanWrite: the packet that was refused, then what the stream
\* buffers, until the window is closed or sendmsg returns EAGAIN: the packet that
\* meets it has left the stream and is the one the connection keeps.
Resumed(o, refused) ==
  LET allowed == refused + Min2(o.buffered, Window - o.unacked)
      room == SendBuffer - o.sending
      taken == Min2(allowed, room + 1)
  IN  [sending |-> o.sending + Min2(taken, room),
       unacked |-> o.unacked + taken - refused,
       buffered |-> o.buffered - (taken - refused),
       write_blocked |-> allowed > room]

Flushed(o) == IF o.write_blocked THEN o ELSE Resumed(o, 0)

\* The connection goes on with a way out, or a write of it fails and closes it.
Goes(outs) ==
  \/ connection' = connection /\ out' \in outs
  \/ connection' = "closed" /\ out' \in outs

\* It is closed, with a ConnectionClose or silently.
Closes == connection' = "closed" /\ out' \in {out, Written(out)}

-----------------------------------------------------------------------------
(* The program *)

\* CreateUDPSocket may fail before socket() gave a descriptor, or after.
CreateUDPSocketFails == fd' \in {"none", "open"}

\* Initialize; without a socket main returns.
Initialize ==
  /\ program = "start"
  /\ \/ program' = "initialized" /\ fd' = "registered" /\ woken' = TRUE
     \/ CreateUDPSocketFails /\ program' = "leaving" /\ UNCHANGED woken
  /\ UNCHANGED <<duration, written, connection, patience, out, received, burst,
                 roundVars>>

\* Connect up to its loop: CryptoConnect sends the first message.
Connect ==
  /\ program = "initialized"
  /\ connection' \in {"handshake", "closed"}
  /\ out' = Written(out)
  /\ program' = "connecting"
  /\ UNCHANGED <<duration, written, fd, patience, socketVars, roundVars>>

\* The test of its loop; main creates the stream and sends, or gives up.
ConnectWaits_IgnoresClose ==
  program = "connecting" /\ connection # "encrypted"

ConnectWaits == program = "connecting" /\ connection = "handshake"

ConnectReturns ==
  /\ phase = "outside"
  /\ program = "connecting"
  /\ ~ ConnectWaits
  /\ program' = IF connected THEN "sending" ELSE "leaving"
  /\ UNCHANGED <<duration, written, fd, connection, patience, out, socketVars,
                 roundVars>>

MoreToWrite == IF duration = "none" THEN written < Chunks ELSE duration = "runs"

\* WriteStringPiece: the chunk goes behind what is buffered, and out at once if
\* it can.  A stream of a closed connection buffers it for ever.  Then a round, if
\* anything is buffered.
WriteChunk ==
  /\ program = "sending"
  /\ phase = "outside"
  /\ MoreToWrite
  /\ out.buffered < Chunks
  /\ written' = IF duration = "none" THEN written + 1 ELSE written
  /\ LET chunk == [out EXCEPT !.buffered = @ + 1] IN
       IF connected THEN Goes({Flushed(chunk)})
       ELSE out' = chunk /\ UNCHANGED connection
  /\ program' = IF out'.buffered > 0 THEN "pausing" ELSE "sending"
  /\ UNCHANGED <<duration, fd, patience, socketVars, roundVars>>

\* The loop ends; a transfer without duration waits for its buffered chunks.
AllWritten ==
  /\ program = "sending"
  /\ phase = "outside"
  /\ ~ MoreToWrite
  /\ program' = "flushing"
  /\ UNCHANGED <<duration, written, fd, connection, patience, out, socketVars,
                 roundVars>>

Waits ==
  \/ ConnectWaits
  \/ program = "pausing"
  \/ program = "flushing" /\ duration = "none" /\ out.buffered > 0

\* stream->CloseConnection.
CloseConnection ==
  /\ program = "flushing"
  /\ phase = "outside"
  /\ ~ Waits
  /\ IF connected THEN Closes ELSE UNCHANGED <<connection, out>>
  /\ program' = "leaving"
  /\ UNCHANGED <<duration, written, fd, patience, socketVars, roundVars>>

\* Disconnect, from main or from the destructor.
Disconnect ==
  /\ program = "leaving"
  /\ IF connected THEN Closes ELSE UNCHANGED <<connection, out>>
  /\ fd' = "none"
  /\ woken' = FALSE
  /\ program' = "returned"
  /\ UNCHANGED <<duration, written, patience, received, burst, roundVars>>

-----------------------------------------------------------------------------
(* A round of EpollServer with QuicClient::OnEvent *)

\* epoll_wait waits for 50 ms (Initialize) or an alarm.
EpollWait ==
  /\ phase = "outside"
  /\ Waits
  /\ in_events' = IF woken THEN SocketEvents ELSE {}
  /\ phase' = IF in_events' = {} THEN "alarms" ELSE "on_event"
  /\ woken' = FALSE
  /\ burst' = 0
  /\ UNCHANGED <<mainVars, connection, patience, out, received>>

Goto(p) ==
  /\ phase' = p
  /\ UNCHANGED <<mainVars, connection, patience, out, socketVars, in_events>>

TestIn ==
  /\ phase = "on_event"
  /\ Goto(IF "EPOLLIN" \in in_events THEN "reading" ELSE "read")

\* ReadAndProcessPacket: a message of the handshake, which may complete it, ...
ReadHandshake ==
  /\ phase = "reading"
  /\ connection = "handshake"
  /\ received > 0
  /\ received' = received - 1
  /\ \/ connection' \in {"handshake", "encrypted"} /\ out' \in {out, Written(out)}
     \/ Closes
  /\ UNCHANGED <<mainVars, patience, burst, woken, roundVars>>

\* ... or a packet that may acknowledge others, may be acknowledged itself, and
\* lets the connection write on.
ReadPacket ==
  /\ phase = "reading"
  /\ connection = "encrypted"
  /\ received > 0
  /\ received' = received - 1
  /\ \/ \E acked \in 0..out.unacked :
          LET o == [out EXCEPT !.unacked = @ - acked]
          IN  Goes({Flushed(o), Flushed(Written(o))})
     \/ Closes
  /\ patience' = Patience
  /\ UNCHANGED <<mainVars, burst, woken, roundVars>>

\* The reading loop: while connected, until recvmsg returns EAGAIN.
ReadingEnds ==
  /\ phase = "reading"
  /\ connected => received = 0
  /\ Goto("read")

\* The test of EPOLLOUT: SetWritable and OnCanWrite.
TestOut_ElseIf ==
  /\ phase = "read"
  /\ IF connected /\ "EPOLLOUT" \in in_events /\ "EPOLLIN" \notin in_events
     THEN Goes({Resumed(out, IF out.write_blocked THEN 1 ELSE 0)})
     ELSE UNCHANGED <<connection, out>>
  /\ phase' = "alarms"
  /\ UNCHANGED <<mainVars, patience, socketVars, in_events>>

TestOut_KeepsBlocked ==
  /\ phase = "read"
  /\ IF connected /\ "EPOLLOUT" \in in_events
     THEN Goes({Flushed(out)})
     ELSE UNCHANGED <<connection, out>>
  /\ phase' = "alarms"
  /\ UNCHANGED <<mainVars, patience, socketVars, in_events>>

TestOut_OnlySetsWritable ==
  /\ phase = "read"
  /\ IF connected /\ "EPOLLOUT" \in in_events
     THEN Goes({[out EXCEPT !.write_blocked = FALSE]})
     ELSE UNCHANGED <<connection, out>>
  /\ phase' = "alarms"
  /\ UNCHANGED <<mainVars, patience, socketVars, in_events>>

TestOut ==
  /\ phase = "read"
  /\ IF connected /\ "EPOLLOUT" \in in_events
     THEN Goes({Resumed(out, IF out.write_blocked THEN 1 ELSE 0)})
     ELSE UNCHANGED <<connection, out>>
  /\ phase' = "alarms"
  /\ UNCHANGED <<mainVars, patience, socketVars, in_events>>

\* The connection's alarms: retransmissions, and its timeout.  The handshake must
\* end in time whatever is read; afterwards a round that reads postpones it.
TimeoutIsNearer == connection = "handshake" \/ "EPOLLIN" \notin in_events

RunAlarms ==
  /\ phase = "alarms"
  /\ IF ~ connected
     THEN UNCHANGED <<connection, out, patience>>
     ELSE IF TimeoutIsNearer /\ patience = 0
     THEN Closes /\ UNCHANGED patience
     ELSE /\ patience' = IF TimeoutIsNearer THEN patience - 1 ELSE patience
          /\ Goes({out, Written(out)})
  /\ program' = IF program = "pausing" THEN "sending" ELSE program
  /\ phase' = "outside"
  /\ in_events' = {}
  /\ UNCHANGED <<duration, written, fd, socketVars>>

-----------------------------------------------------------------------------
Init ==
  /\ program = "start"
  /\ duration \in {"none", "runs"}
  /\ written = 0
  /\ fd = "none"
  /\ connection = "none"
  /\ patience = Patience
  /\ out = [sending |-> 0, unacked |-> 0, buffered |-> 0, write_blocked |-> FALSE]
  /\ received = 0
  /\ burst = 0
  /\ woken = FALSE
  /\ in_events = {}
  /\ phase = "outside"

Client ==
  \/ Initialize \/ Connect \/ ConnectReturns \/ WriteChunk \/ AllWritten
  \/ CloseConnection \/ Disconnect
  \/ EpollWait \/ TestIn \/ ReadHandshake \/ ReadPacket \/ ReadingEnds
  \/ TestOut \/ RunAlarms

Next == Client \/ Arrives \/ Leaves \/ TimeIsUp

\* A server that goes on answering acknowledges something at last.
Acknowledges == ReadPacket /\ out'.unacked < out.unacked

\* The program runs, time passes and the network takes what is sent.  Nothing has
\* to arrive.
Fairness ==
  /\ WF_vars(Client)
  /\ WF_vars(Leaves)
  /\ WF_vars(TimeIsUp)
  /\ SF_vars(Acknowledges)

Spec == Init /\ [][Next]_vars /\ Fairness

-----------------------------------------------------------------------------
(* Properties *)

\* The type invariant.
TypeOK ==
  /\ program \in Programs
  /\ duration \in {"none", "runs", "over"}
  /\ written \in 0..Chunks
  /\ fd \in {"none", "open", "registered"}
  /\ connection \in {"none", "handshake", "encrypted", "closed"}
  /\ patience \in 0..Patience
  /\ out \in Out
  /\ received \in 0..ReceiveBuffer
  /\ burst \in 0..MaxBurst
  /\ woken \in BOOLEAN
  /\ in_events \subseteq {"EPOLLIN", "EPOLLOUT"}
  /\ phase \in Phases

\* No lost wake-up, though OnEvent leaves nothing to be faked and main writes
\* outside of it: what a connected client has not read, and the packet it could
\* not write, are in front of the test of the event, or the event is still due.
WakeUpIsComing ==
  connected =>
    /\ received > 0 =>
         \/ woken
         \/ phase = "on_event" /\ "EPOLLIN" \in in_events
         \/ phase = "reading"
    /\ out.write_blocked =>
         \/ woken
         \/ out.sending = SendBuffer
         \/ phase \in {"on_event", "reading", "read"} /\ "EPOLLOUT" \in in_events

\* A connected client's stream never buffers for nothing: it waits for the packet
\* writer, whose wake-up WakeUpIsComing is about, or for an acknowledgement.  main
\* leaves that to OnEvent, which takes the writer for writable (SetWritable) and
\* must then let the connection use it, or nobody is left to do so.
BufferedForAReason ==
  connected /\ out.buffered > 0 => out.write_blocked \/ out.unacked = Window

\* Connect returns, whether the server answers, refuses or is silent.
ConnectEnds == (program = "connecting") ~> (program # "connecting")

\* A transfer ends, although main tests nothing but HasBufferedData between its
\* rounds, unless the connection is closed under it: then main waits for ever.
TransferEnds ==
  (program \in {"sending", "pausing", "flushing"}) ~>
    (program = "returned" \/ connection = "closed")
=============================================================================

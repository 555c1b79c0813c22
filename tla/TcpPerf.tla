------------------------------ MODULE TcpPerf ------------------------------
(***************************************************************************)
(* The two programs that measure TCP for comparison: tcp_perf_client.cc    *)
(* writes chunks to a blocking socket, for a number of bytes or for a      *)
(* time, and tcp_perf_server.cc counts the bytes it reads and prints the   *)
(* count from a signal handler, once a second.                             *)
(*                                                                         *)
(* TCP is external: a byte stream with room for Capacity bytes between the *)
(* two processes, which a process that ends closes at its side.            *)
(***************************************************************************)
EXTENDS Integers

CONSTANTS
  FLAGS_total_transfer,
  FLAGS_chunk_size,
  Durations,     \* bound: the values of FLAGS_duration, 0 for none
  BUFFER_SIZE,
  Capacity,      \* bytes the connection holds
  MaxBytes       \* bound: bytes written

\* The flag -c may be 0: then the untimed loop of the client never ends.
ASSUME TcpPerfAssumption ==
  /\ FLAGS_total_transfer \in Nat
  /\ FLAGS_chunk_size \in Nat \ {0}
  /\ Durations \subseteq Nat
  /\ BUFFER_SIZE \in Nat \ {0, 1}
  /\ Capacity \in Nat \ {0}
  /\ MaxBytes \in Nat

VARIABLES
  client,          \* where the client's main is: see ClientAt
  duration,        \* FLAGS_duration
  time_left,       \* until dest, in a timed transfer
  i,               \* of the loop over FLAGS_total_transfer
  unwritten,       \* bytes the current write has not handed over yet
  written,         \* auxiliary: bytes handed over by all writes
  in_flight,       \* external: bytes between the two processes
  server,          \* where the server's main is: see ServerAt
  BYTES_RECEIVED,
  alarm,           \* external: is a SIGALRM to come?
  reported         \* the count printed last

\* The client has "refused" to start when it exits before it is connected.
ClientAt == {"connecting", "loop", "writing", "returned", "failed", "refused"}
ServerAt == {"starting", "accepting", "reading", "returned", "failed"}

clientVars == <<client, duration, time_left, i, unwritten, written>>
serverVars == <<server, BYTES_RECEIVED, alarm, reported>>
vars == <<clientVars, in_flight, serverVars>>

ClientIsConnected == client \in {"loop", "writing"}
ClientHasEnded == client \in {"returned", "failed", "refused"}
ServerHasEnded == server \in {"returned", "failed"}

-----------------------------------------------------------------------------
(* tcp_perf_client *)

\* socket, inet_aton and connect; each may fail.  connect needs a socket that
\* listens, and does not wait for accept.
Connect ==
  /\ client = "connecting"
  /\ \/ server \in {"accepting", "reading"} /\ client' = "loop"
     \/ client' = "refused"
  /\ UNCHANGED <<duration, time_left, i, unwritten, written, in_flight, serverVars>>

\* The conditions of the two loops.
MoreToWrite ==
  IF duration = 0 THEN i < FLAGS_total_transfer ELSE time_left > 0

WriteBegins ==
  /\ client = "loop"
  /\ MoreToWrite
  /\ written + FLAGS_chunk_size <= MaxBytes   \* bound: an untimed transfer needs less
  /\ client' = "writing"
  /\ unwritten' = FLAGS_chunk_size
  /\ UNCHANGED <<duration, time_left, i, written, in_flight, serverVars>>

\* write blocks until there is room.
WriteCopies ==
  /\ client = "writing"
  /\ unwritten > 0
  /\ in_flight < Capacity
  /\ ~ ServerHasEnded
  /\ unwritten' = unwritten - 1
  /\ written' = written + 1
  /\ in_flight' = in_flight + 1
  /\ UNCHANGED <<client, duration, time_left, i, serverVars>>

\* Mutant: the loop does not advance.
WriteReturns_NoAdvance ==
  /\ client = "writing"
  /\ unwritten = 0 \/ (ServerHasEnded /\ unwritten < FLAGS_chunk_size)
  /\ client' = "loop"
  /\ unwritten' = 0
  /\ UNCHANGED <<duration, time_left, i, written, in_flight, serverVars>>

\* write returns: the whole chunk, or, when the server has gone meanwhile, what
\* was copied of it.  The loop counts a chunk in either case.
WriteReturns ==
  /\ client = "writing"
  /\ unwritten = 0 \/ (ServerHasEnded /\ unwritten < FLAGS_chunk_size)
  /\ client' = "loop"
  /\ i' = IF duration = 0 THEN i + FLAGS_chunk_size ELSE i
  /\ unwritten' = 0
  /\ UNCHANGED <<duration, time_left, written, in_flight, serverVars>>

\* The server has gone: SIGPIPE, or an error and exit(1).
WriteFails ==
  /\ client = "writing"
  /\ ServerHasEnded
  /\ unwritten = FLAGS_chunk_size
  /\ client' = "failed"
  /\ UNCHANGED <<duration, time_left, i, unwritten, written, in_flight, serverVars>>

ClientReturns ==
  /\ client = "loop"
  /\ ~ MoreToWrite
  /\ client' = "returned"
  /\ UNCHANGED <<duration, time_left, i, unwritten, written, in_flight, serverVars>>

\* time(NULL) goes on, also while a write blocks.
TimePasses ==
  /\ ClientIsConnected
  /\ time_left > 0
  /\ time_left' = time_left - 1
  /\ UNCHANGED <<client, duration, i, unwritten, written, in_flight, serverVars>>

-----------------------------------------------------------------------------
(* tcp_perf_server *)

\* socket, bind and listen; the result of listen is not looked at.
Listen ==
  /\ server = "starting"
  /\ server' \in {"accepting", "failed"}
  /\ UNCHANGED <<clientVars, in_flight, BYTES_RECEIVED, alarm, reported>>

\* accept, signal and the first alarm(1).
Accept ==
  /\ server = "accepting"
  /\ \/ /\ client \notin {"connecting", "refused"}
        /\ server' = "reading"
        /\ alarm' = TRUE
     \/ /\ server' = "failed"
        /\ UNCHANGED alarm
  /\ UNCHANGED <<clientVars, in_flight, BYTES_RECEIVED, reported>>

\* What a read of n bytes adds to the count.
Counted(n) == BYTES_RECEIVED + n

Read ==
  /\ server = "reading"
  /\ \E n \in 1..(BUFFER_SIZE - 1) :
       /\ n <= in_flight
       /\ in_flight' = in_flight - n
       /\ BYTES_RECEIVED' = Counted(n)
  /\ UNCHANGED <<clientVars, server, alarm, reported>>

\* read returns 0 behind the last byte, once the client has closed.
EndOfFile_Eager == in_flight = 0

EndOfFile == in_flight = 0 /\ ClientHasEnded

ServerReturns ==
  /\ server = "reading"
  /\ EndOfFile
  /\ server' = "returned"
  /\ UNCHANGED <<clientVars, in_flight, BYTES_RECEIVED, alarm, reported>>

ReadFails ==
  /\ server = "reading"
  /\ server' = "failed"
  /\ UNCHANGED <<clientVars, in_flight, BYTES_RECEIVED, alarm, reported>>

\* alarm_handler runs between any two steps of main; a read that it interrupts is
\* restarted.  The next alarm comes a second later.
AlarmHandler_OnlyOnce ==
  /\ server = "reading"
  /\ alarm
  /\ reported' = BYTES_RECEIVED
  /\ alarm' = FALSE
  /\ UNCHANGED <<clientVars, in_flight, server, BYTES_RECEIVED>>

AlarmHandler ==
  /\ server = "reading"
  /\ alarm
  /\ reported' = BYTES_RECEIVED
  /\ alarm' = TRUE
  /\ UNCHANGED <<clientVars, in_flight, server, BYTES_RECEIVED>>

-----------------------------------------------------------------------------
Init ==
  /\ client = "connecting"
  /\ duration \in Durations
  /\ time_left = duration
  /\ i = 0
  /\ unwritten = 0
  /\ written = 0
  /\ in_flight = 0
  /\ server = "starting"
  /\ BYTES_RECEIVED = 0
  /\ alarm = FALSE
  /\ reported = 0

Client ==
  \/ Connect
  \/ WriteBegins
  \/ WriteCopies
  \/ WriteReturns
  \/ WriteFails
  \/ ClientReturns

Server ==
  \/ Listen
  \/ Accept
  \/ Read
  \/ ServerReturns

Next ==
  \/ Client
  \/ TimePasses
  \/ Server
  \/ ReadFails
  \/ AlarmHandler

\* The server runs and the kernel's timer expires; that a read fails is never
\* owed.  Of the client nothing is assumed: it is on another host, which may stop.
Spec ==
  /\ Init
  /\ [][Next]_vars
  /\ WF_vars(Server)
  /\ WF_vars(AlarmHandler)

-----------------------------------------------------------------------------
(* Properties *)

\* The type invariant of the TCP programs.
TypeOK ==
  /\ client \in ClientAt
  /\ duration \in Durations
  /\ time_left \in 0..duration
  /\ i \in 0..(FLAGS_total_transfer + FLAGS_chunk_size)
  /\ unwritten \in 0..FLAGS_chunk_size
  /\ written \in 0..MaxBytes
  /\ in_flight \in 0..Capacity
  /\ server \in ServerAt
  /\ BYTES_RECEIVED \in 0..written
  /\ alarm \in BOOLEAN
  /\ reported \in 0..BYTES_RECEIVED

\* The chunks of an untimed transfer, the last one not shortened.
RoundedUp ==
  ((FLAGS_total_transfer + FLAGS_chunk_size - 1) \div FLAGS_chunk_size) * FLAGS_chunk_size

\* A server that returns has counted every byte the client wrote, and of an
\* untimed transfer that is the total in whole chunks: no read at the end, and no
\* write cut short by a full connection, loses a byte of the measurement.
TransferIsCounted ==
  server = "returned" =>
    /\ BYTES_RECEIVED = written
    /\ duration = 0 => written = RoundedUp

\* "The server writes the byte count of the received data to stdout each second"
\* (performance.markdown): as long as it reads, also from a client that is silent,
\* the count it hands to cout catches up with the bytes received.  Once it has read
\* the end of the stream no alarm is waited for: the last count may not be printed.
EveryCountIsReported ==
  []<>(server = "reading" => reported = BYTES_RECEIVED)

\* With a client that runs on and a clock that does, a connection that was
\* accepted ends at both sides.
BothEnd ==
  WF_vars(Client) /\ WF_vars(TimePasses) =>
    (server = "reading" ~> ServerHasEnded /\ ClientHasEnded)
=============================================================================

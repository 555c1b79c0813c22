-------------------------- MODULE QuicClientProofs --------------------------
(***************************************************************************)
(* Proofs about the client, for every transfer, window, buffer and         *)
(* timeout: its types, that no wake-up is lost, and that its stream keeps  *)
(* nothing that could go out.                                              *)
(***************************************************************************)
EXTENDS QuicClient, TLAPS

\* Before Connect there is no connection, no round has run, and the event that
\* RegisterFD caused is still due.
NotYetConnected ==
  /\ program \in {"start", "initialized"} =>
       /\ connection = "none"
       /\ phase = "outside"
       /\ ~ out.write_blocked
       /\ out.sending = 0
  /\ program = "initialized" => woken

\* The inductive invariant.
ClientInv ==
  /\ TypeOK
  /\ NotYetConnected
  /\ WakeUpIsComing

\* What a step of the connection may make of the way out: if the writer is
\* blocked after it, the send buffer is full, or both are as before.
Kept(o, o2) ==
  /\ o2 \in Out
  /\ o2.write_blocked =>
       o2.sending = SendBuffer \/ (o.write_blocked /\ o2.sending = o.sending)

-----------------------------------------------------------------------------
\* The fields of a way out.
LEMMA OutFields ==
  ASSUME NEW o \in Out
  PROVE  /\ o.sending \in Nat /\ o.sending <= SendBuffer
         /\ o.unacked \in Nat /\ o.unacked <= Window
         /\ o.buffered \in Nat /\ o.buffered <= Chunks
         /\ o.write_blocked \in BOOLEAN
         /\ SendBuffer \in Nat /\ Window \in Nat /\ Chunks \in Nat
         /\ SendBuffer > 0
  BY QuicClientAssumption DEF Out

\* WritePacket.
LEMMA WrittenKept ==
  ASSUME NEW o \in Out
  PROVE  Kept(o, Written(o))
<1>1. CASE o.write_blocked
  BY <1>1 DEF Written, Kept
<1>2. CASE ~ o.write_blocked /\ o.sending < SendBuffer
  <2>1. Written(o) = [o EXCEPT !.sending = @ + 1]
    BY <1>2 DEF Written
  <2>2. Written(o) \in Out
    BY <2>1, <1>2, OutFields DEF Out
  <2>3. ~ Written(o).write_blocked
    BY <2>1, <1>2 DEF Out
  <2>4. QED
    BY <2>2, <2>3 DEF Kept
<1>3. CASE ~ o.write_blocked /\ ~ (o.sending < SendBuffer)
  <2>1. Written(o) = [o EXCEPT !.write_blocked = TRUE]
    BY <1>3 DEF Written
  <2>2. o.sending = SendBuffer
    BY <1>3, OutFields
  <2>3. Written(o) \in Out /\ Written(o).sending = o.sending
    BY <2>1 DEF Out
  <2>4. QED
    BY <2>2, <2>3 DEF Kept
<1>4. QED
  BY <1>1, <1>2, <1>3

\* QuicConnection::OnCanWrite stops at a full send buffer or with nothing refused.
LEMMA ResumedKept ==
  ASSUME NEW o \in Out, NEW refused \in {0, 1}
  PROVE  /\ Resumed(o, refused) \in Out
         /\ Resumed(o, refused).write_blocked =>
              Resumed(o, refused).sending = SendBuffer
<1> DEFINE free == Window - o.unacked
           more == IF o.buffered < free THEN o.buffered ELSE free
           allowed == refused + more
           room == SendBuffer - o.sending
           taken == IF allowed < room + 1 THEN allowed ELSE room + 1
           sent == IF taken < room THEN taken ELSE room
<1>1. Resumed(o, refused) =
        [sending |-> o.sending + sent,
         unacked |-> o.unacked + taken - refused,
         buffered |-> o.buffered - (taken - refused),
         write_blocked |-> allowed > room]
  BY DEF Resumed, Min2
<1>2. /\ more \in Nat /\ more <= o.buffered /\ more <= free
      /\ room \in Nat
  BY OutFields
<1>3. /\ allowed \in Nat /\ taken \in Nat
      /\ taken - refused \in Nat /\ taken - refused <= more
  BY <1>2
<1>4. /\ o.sending + sent \in 0..SendBuffer
      /\ allowed > room => o.sending + sent = SendBuffer
  BY <1>2, <1>3, OutFields
<1>5. o.unacked + taken - refused \in 0..Window
  <2>1. taken - refused <= Window - o.unacked
    BY <1>2, <1>3, OutFields
  <2> HIDE DEF taken
  <2>2. QED
    BY <2>1, <1>3, OutFields
<1>6. o.buffered - (taken - refused) \in 0..Chunks
  <2>1. taken - refused <= o.buffered
    BY <1>2, <1>3, OutFields
  <2> HIDE DEF taken
  <2>2. QED
    BY <2>1, <1>3, OutFields
<1> HIDE DEF free, more, allowed, room, taken, sent
<1>7. Resumed(o, refused) \in Out
  BY <1>1, <1>4, <1>5, <1>6 DEF Out
<1>8. /\ Resumed(o, refused).write_blocked = (allowed > room)
      /\ Resumed(o, refused).sending = o.sending + sent
  BY <1>1
<1>9. QED
  BY <1>4, <1>7, <1>8

LEMMA FlushedKept ==
  ASSUME NEW o \in Out
  PROVE  Kept(o, Flushed(o))
<1>1. CASE o.write_blocked
  BY <1>1 DEF Flushed, Kept
<1>2. CASE ~ o.write_blocked
  BY <1>2, ResumedKept DEF Flushed, Kept
<1>3. QED
  BY <1>1, <1>2

\* Keeping is transitive.
LEMMA KeptTwice ==
  ASSUME NEW o \in Out, NEW o2 \in Out, NEW o3 \in Out, Kept(o, o2), Kept(o2, o3)
  PROVE  Kept(o, o3)
  BY DEF Kept

-----------------------------------------------------------------------------
\* Goes and Closes lead to a way out that is kept; only an open connection that
\* is not closed stays open.
LEMMA ClosesKept ==
  ASSUME TypeOK, Closes
  PROVE  Kept(out, out') /\ connection' = "closed"
<1>1. out \in Out /\ Kept(out, out)
  BY DEF TypeOK, Kept
<1>2. QED
  BY <1>1, WrittenKept DEF Closes

LEMMA GoesKept ==
  ASSUME NEW outs, \A o \in outs : Kept(out, o), Goes(outs)
  PROVE  Kept(out, out') /\ (connection' = connection \/ connection' = "closed")
  BY DEF Goes

\* A way out that is kept keeps the wake-up for it, in a round that is not at the
\* test of EPOLLOUT.
LEMMA KeptWakeUp ==
  ASSUME TypeOK, WakeUpIsComing, connected, Kept(out, out'),
         woken' = woken, in_events' = in_events, phase' = phase
  PROVE  out.write_blocked' =>
           \/ woken'
           \/ out.sending' = SendBuffer
           \/ phase' \in {"on_event", "reading", "read"} /\ "EPOLLOUT" \in in_events'
  BY DEF Kept, WakeUpIsComing

-----------------------------------------------------------------------------
\* Initially there is no connection.
LEMMA ClientInitInv == Init => ClientInv
<1> SUFFICES ASSUME Init PROVE ClientInv
  OBVIOUS
<1>1. /\ 0 \in 0..ReceiveBuffer /\ 0 \in 0..SendBuffer /\ 0 \in 0..MaxBurst
      /\ 0 \in 0..Window /\ 0 \in 0..Chunks /\ Patience \in 0..Patience
  BY QuicClientAssumption
<1>2. TypeOK
  BY <1>1 DEF Init, TypeOK, Phases, Programs, Out
<1>3. QED
  BY <1>2 DEF Init, ClientInv, NotYetConnected, WakeUpIsComing, connected

\* Steps of the network, the clock, and of main where no connection changes.
LEMMA NetworkInv == ClientInv /\ (Arrives \/ Leaves \/ TimeIsUp) => ClientInv'
<1> SUFFICES ASSUME ClientInv PROVE Arrives \/ Leaves \/ TimeIsUp => ClientInv'
  OBVIOUS
<1>1. ASSUME Arrives PROVE ClientInv'
  <2>1. /\ received + 1 \in 0..ReceiveBuffer
        /\ burst' \in 0..MaxBurst
    BY <1>1, QuicClientAssumption DEF Arrives, ClientInv, TypeOK
  <2>2. TypeOK'
    BY <1>1, <2>1 DEF Arrives, ClientInv, TypeOK, mainVars, roundVars
  <2>3. QED
    BY <1>1, <2>2 DEF Arrives, ClientInv, NotYetConnected, WakeUpIsComing,
                      connected, mainVars, roundVars
<1>2. ASSUME Leaves PROVE ClientInv'
  <2>1. /\ out' \in Out
        /\ out.write_blocked' = out.write_blocked
        /\ out.sending > 0
    BY <1>2, OutFields DEF Leaves, ClientInv, TypeOK, Out
  <2>2. TypeOK'
    BY <1>2, <2>1 DEF Leaves, ClientInv, TypeOK, mainVars, roundVars
  <2>3. /\ UNCHANGED <<program, connection, received, phase, in_events>>
        /\ woken' = (woken \/ out.sending = SendBuffer)
    BY <1>2 DEF Leaves, mainVars, roundVars
  <2>4. NotYetConnected'
    <3>1. program \notin {"start", "initialized"}
      BY <2>1 DEF ClientInv, NotYetConnected
    <3>2. QED
      BY <2>3, <3>1 DEF NotYetConnected
  <2>5. WakeUpIsComing'
    <3>1. connected' => connected
      BY <2>3 DEF connected
    <3>2. QED
      BY <2>1, <2>3, <3>1 DEF ClientInv, WakeUpIsComing
  <2>6. QED
    BY <2>2, <2>4, <2>5 DEF ClientInv
<1>3. ASSUME TimeIsUp PROVE ClientInv'
  BY <1>3 DEF TimeIsUp, ClientInv, TypeOK, NotYetConnected, WakeUpIsComing,
              connected, socketVars, roundVars, Programs
<1>4. QED
  BY <1>1, <1>2, <1>3

-----------------------------------------------------------------------------
\* What the steps of main have in common: they run between rounds, and keep the
\* kernel's side.
LEMMA MainKeeps ==
  ASSUME ClientInv, TypeOK',
         program' \notin {"start", "initialized"},
         Kept(out, out'),
         connection' \in {connection, "closed"},
         UNCHANGED <<received, woken, in_events, phase>>
  PROVE  ClientInv'
<1>1. NotYetConnected'
  BY DEF NotYetConnected
<1>2. WakeUpIsComing'
  <2>1. CASE connected
    <3>1. out.write_blocked' =>
            \/ woken'
            \/ out.sending' = SendBuffer
            \/ phase' \in {"on_event", "reading", "read"} /\ "EPOLLOUT" \in in_events'
      BY <2>1, KeptWakeUp DEF ClientInv
    <3>2. received' > 0 =>
            \/ woken'
            \/ phase' = "on_event" /\ "EPOLLIN" \in in_events'
            \/ phase' = "reading"
      BY <2>1 DEF ClientInv, WakeUpIsComing
    <3>3. QED
      BY <3>1, <3>2 DEF WakeUpIsComing
  <2>2. CASE ~ connected
    <3>1. ~ connected'
      BY <2>2 DEF connected
    <3>2. QED
      BY <3>1 DEF WakeUpIsComing
  <2>3. QED
    BY <2>1, <2>2
<1>3. QED
  BY <1>1, <1>2 DEF ClientInv

\* Initialize and Connect: the event of RegisterFD is still due.
LEMMA StartingInv == ClientInv /\ (Initialize \/ Connect) => ClientInv'
<1> SUFFICES ASSUME ClientInv PROVE Initialize \/ Connect => ClientInv'
  OBVIOUS
<1>1. ASSUME Initialize PROVE ClientInv'
  <2>1. TypeOK'
    BY <1>1 DEF Initialize, CreateUDPSocketFails, ClientInv, TypeOK, roundVars,
                Programs
  <2>2. /\ connection' = "none" /\ phase' = "outside" /\ out' = out
        /\ ~ out.write_blocked /\ out.sending = 0
        /\ program' = "initialized" => woken'
    BY <1>1 DEF Initialize, ClientInv, NotYetConnected, roundVars
  <2>3. NotYetConnected'
    BY <2>2 DEF NotYetConnected
  <2>4. WakeUpIsComing'
    BY <2>2 DEF WakeUpIsComing, connected
  <2>5. QED
    BY <2>1, <2>3, <2>4 DEF ClientInv
<1>2. ASSUME Connect PROVE ClientInv'
  <2>1. /\ program' = "connecting" /\ woken'
        /\ connection' \in {"handshake", "closed"}
        /\ out' = Written(out)
        /\ UNCHANGED <<duration, written, fd, patience, received, burst, woken,
                       in_events, phase>>
    BY <1>2 DEF Connect, ClientInv, NotYetConnected, socketVars, roundVars
  <2>2. out' \in Out
    BY <2>1, WrittenKept DEF ClientInv, TypeOK, Kept
  <2>3. TypeOK'
    BY <2>1, <2>2 DEF ClientInv, TypeOK, Programs
  <2>4. QED
    BY <2>1, <2>3 DEF ClientInv, NotYetConnected, WakeUpIsComing
<1>3. QED
  BY <1>1, <1>2

\* The steps of main between the rounds.
LEMMA MainInv ==
  ClientInv /\ (ConnectReturns \/ AllWritten \/ WriteChunk \/ CloseConnection)
    => ClientInv'
<1> SUFFICES ASSUME ClientInv
             PROVE  ConnectReturns \/ AllWritten \/ WriteChunk \/ CloseConnection
                      => ClientInv'
  OBVIOUS
<1>0. out \in Out /\ Kept(out, out)
  BY DEF ClientInv, TypeOK, Kept
<1>1. ASSUME ConnectReturns \/ AllWritten PROVE ClientInv'
  <2>1. /\ program' \in {"sending", "leaving", "flushing"}
        /\ UNCHANGED <<duration, written, fd, connection, patience, out,
                       received, burst, woken, in_events, phase>>
    BY <1>1 DEF ConnectReturns, AllWritten, socketVars, roundVars
  <2>2. TypeOK'
    BY <2>1 DEF ClientInv, TypeOK, Programs
  <2>3. QED
    BY <1>0, <2>1, <2>2, MainKeeps
<1>2. ASSUME WriteChunk PROVE ClientInv'
  <2> DEFINE chunk == [out EXCEPT !.buffered = @ + 1]
  <2>1. /\ program' \in {"pausing", "sending"}
        /\ out.buffered < Chunks
        /\ MoreToWrite
        /\ written' = IF duration = "none" THEN written + 1 ELSE written
        /\ UNCHANGED <<duration, fd, patience, received, burst, woken,
                       in_events, phase>>
        /\ IF connected THEN Goes({Flushed(chunk)})
           ELSE out' = chunk /\ UNCHANGED connection
    BY <1>2 DEF WriteChunk, socketVars, roundVars
  <2>2. chunk \in Out /\ Kept(out, chunk)
    <3>1. out.buffered + 1 \in 0..Chunks
      BY <1>0, <2>1, OutFields
    <3>2. chunk \in Out
      BY <1>0, <3>1 DEF Out
    <3>3. chunk.write_blocked = out.write_blocked /\ chunk.sending = out.sending
      BY <1>0 DEF Out
    <3>4. QED
      BY <3>2, <3>3 DEF Kept
  <2>3. Kept(out, Flushed(chunk))
    <3>1. Kept(chunk, Flushed(chunk))
      BY <2>2, FlushedKept
    <3>2. QED
      BY <1>0, <2>2, <3>1, KeptTwice DEF Kept
  <2> HIDE DEF chunk
  <2>4. Kept(out, out') /\ connection' \in {connection, "closed"}
    BY <2>1, <2>2, <2>3 DEF Goes
  <2>5. written' \in 0..Chunks
    BY <2>1, QuicClientAssumption DEF MoreToWrite, ClientInv, TypeOK
  <2>6. TypeOK'
    BY <2>1, <2>4, <2>5 DEF ClientInv, TypeOK, Programs, Kept
  <2>7. QED
    BY <2>1, <2>4, <2>6, MainKeeps
<1>3. ASSUME CloseConnection PROVE ClientInv'
  <2>1. /\ program' = "leaving"
        /\ UNCHANGED <<duration, written, fd, patience, received, burst, woken,
                       in_events, phase>>
        /\ IF connected THEN Closes ELSE UNCHANGED <<connection, out>>
    BY <1>3 DEF CloseConnection, socketVars, roundVars
  <2>2. Kept(out, out') /\ connection' \in {connection, "closed"}
    BY <1>0, <2>1, ClosesKept DEF ClientInv
  <2>3. TypeOK'
    BY <2>1, <2>2 DEF ClientInv, TypeOK, Programs, Kept
  <2>4. QED
    BY <2>1, <2>2, <2>3, MainKeeps
<1>4. QED
  BY <1>1, <1>2, <1>3

\* Disconnect leaves no connection that could wait for anything.
LEMMA DisconnectInv == ClientInv /\ Disconnect => ClientInv'
<1> SUFFICES ASSUME ClientInv, Disconnect PROVE ClientInv'
  OBVIOUS
<1>1. /\ program' = "returned" /\ fd' = "none" /\ woken' = FALSE
      /\ UNCHANGED <<duration, written, patience, received, burst, in_events, phase>>
      /\ IF connected THEN Closes ELSE UNCHANGED <<connection, out>>
  BY DEF Disconnect, roundVars
<1>2. out' \in Out /\ connection' \in {connection, "closed"} /\ ~ connected'
  <2>1. CASE connected
    BY <1>1, <2>1, ClosesKept DEF ClientInv, Kept, connected
  <2>2. CASE ~ connected
    BY <1>1, <2>2 DEF ClientInv, TypeOK, connected
  <2>3. QED
    BY <2>1, <2>2
<1>3. TypeOK'
  BY <1>1, <1>2 DEF ClientInv, TypeOK, Programs
<1>4. QED
  BY <1>1, <1>2, <1>3 DEF ClientInv, NotYetConnected, WakeUpIsComing

-----------------------------------------------------------------------------
\* A round begins: what woke the socket is among its events.
LEMMA ClientEpollWaitInv == ClientInv /\ EpollWait => ClientInv'
<1> SUFFICES ASSUME ClientInv, EpollWait PROVE ClientInv'
  OBVIOUS
<1>1. /\ phase = "outside" /\ Waits
      /\ in_events' = (IF woken THEN SocketEvents ELSE {})
      /\ phase' = (IF in_events' = {} THEN "alarms" ELSE "on_event")
      /\ woken' = FALSE /\ burst' = 0
      /\ UNCHANGED <<program, duration, written, fd, connection, patience, out,
                     received>>
  BY DEF EpollWait, mainVars
<1>2. in_events' \subseteq {"EPOLLIN", "EPOLLOUT"}
  BY <1>1 DEF SocketEvents
<1>3. TypeOK'
  <2>1. 0 \in 0..MaxBurst /\ phase' \in Phases
    BY <1>1, QuicClientAssumption DEF Phases
  <2>2. QED
    BY <1>1, <1>2, <2>1 DEF ClientInv, TypeOK
<1>4. NotYetConnected'
  BY <1>1 DEF Waits, ConnectWaits, NotYetConnected
<1>5. WakeUpIsComing'
  <2> SUFFICES ASSUME connected'
               PROVE  /\ received' > 0 =>
                           phase' = "on_event" /\ "EPOLLIN" \in in_events'
                      /\ out.write_blocked' =>
                           \/ out.sending' = SendBuffer
                           \/ phase' = "on_event" /\ "EPOLLOUT" \in in_events'
    BY DEF WakeUpIsComing
  <2>1. connected
    BY <1>1 DEF connected
  <2>2. ASSUME received > 0 PROVE "EPOLLIN" \in in_events'
    BY <1>1, <2>1, <2>2 DEF ClientInv, WakeUpIsComing, SocketEvents
  <2>3. ASSUME out.write_blocked, out.sending # SendBuffer
        PROVE  "EPOLLOUT" \in in_events'
    <3>1. woken
      BY <1>1, <2>1, <2>3 DEF ClientInv, WakeUpIsComing
    <3>2. out.sending < SendBuffer
      BY <2>3, OutFields DEF ClientInv, TypeOK
    <3>3. QED
      BY <1>1, <3>1, <3>2 DEF SocketEvents
  <2>4. QED
    BY <1>1, <2>2, <2>3
<1>6. QED
  BY <1>3, <1>4, <1>5 DEF ClientInv

\* OnEvent up to the end of its reading loop.
LEMMA OnEventReadsInv ==
  ClientInv /\ (TestIn \/ ReadHandshake \/ ReadPacket \/ ReadingEnds) => ClientInv'
<1> SUFFICES ASSUME ClientInv
             PROVE  TestIn \/ ReadHandshake \/ ReadPacket \/ ReadingEnds => ClientInv'
  OBVIOUS
<1>1. ASSUME TestIn PROVE ClientInv'
  <2>1. /\ phase = "on_event"
        /\ phase' = IF "EPOLLIN" \in in_events THEN "reading" ELSE "read"
        /\ UNCHANGED <<program, duration, written, fd, connection, patience, out,
                       received, burst, woken, in_events>>
    BY <1>1 DEF TestIn, Goto, mainVars, socketVars
  <2>2. TypeOK'
    BY <2>1 DEF ClientInv, TypeOK, Phases
  <2>3. NotYetConnected'
    BY <2>1 DEF ClientInv, NotYetConnected
  <2>4. WakeUpIsComing'
    BY <2>1 DEF ClientInv, WakeUpIsComing, connected
  <2>5. QED
    BY <2>2, <2>3, <2>4 DEF ClientInv
<1>2. ASSUME ReadHandshake \/ ReadPacket PROVE ClientInv'
  <2>1. /\ phase = "reading" /\ received > 0 /\ received' = received - 1
        /\ connection \in {"handshake", "encrypted"}
        /\ patience' \in {patience, Patience}
        /\ UNCHANGED <<program, duration, written, fd, burst, woken, in_events,
                       phase>>
    BY <1>2 DEF ReadHandshake, ReadPacket, mainVars, roundVars
  <2>2. out \in Out /\ Kept(out, out)
    BY DEF ClientInv, TypeOK, Kept
  <2>3. ASSUME ReadHandshake
        PROVE  Kept(out, out') /\ connection' \in {"handshake", "encrypted", "closed"}
    BY <2>2, <2>3, WrittenKept, ClosesKept DEF ReadHandshake, ClientInv
  <2>4. ASSUME ReadPacket
        PROVE  Kept(out, out') /\ connection' \in {"encrypted", "closed"}
    <3>1. CASE Closes
      BY <3>1, ClosesKept DEF ClientInv
    <3>2. ASSUME NEW acked \in 0..out.unacked,
                 LET o == [out EXCEPT !.unacked = @ - acked]
                 IN  Goes({Flushed(o), Flushed(Written(o))})
          PROVE  Kept(out, out') /\ connection' \in {connection, "closed"}
      <4> DEFINE o == [out EXCEPT !.unacked = @ - acked]
      <4>1. o \in Out /\ Kept(out, o)
        <5>1. out.unacked - acked \in 0..Window
          BY <2>2, OutFields
        <5>2. o \in Out
          BY <2>2, <5>1 DEF Out
        <5>3. o.write_blocked = out.write_blocked /\ o.sending = out.sending
          BY <2>2 DEF Out
        <5>4. QED
          BY <5>2, <5>3 DEF Kept
      <4>2. Goes({Flushed(o), Flushed(Written(o))})
        BY <3>2
      <4> HIDE DEF o
      <4>3. Kept(out, Flushed(o))
        <5>1. Kept(o, Flushed(o))
          BY <4>1, FlushedKept
        <5>2. Flushed(o) \in Out
          BY <5>1 DEF Kept
        <5>3. QED
          BY <2>2, <4>1, <5>1, <5>2, KeptTwice
      <4>4. Kept(out, Flushed(Written(o)))
        <5>1. Kept(o, Written(o)) /\ Written(o) \in Out
          BY <4>1, WrittenKept DEF Kept
        <5>2. Kept(Written(o), Flushed(Written(o))) /\ Flushed(Written(o)) \in Out
          BY <5>1, FlushedKept DEF Kept
        <5>3. Kept(o, Flushed(Written(o)))
          BY <4>1, <5>1, <5>2, KeptTwice
        <5>4. QED
          BY <2>2, <4>1, <5>2, <5>3, KeptTwice
      <4>5. QED
        BY <4>2, <4>3, <4>4 DEF Goes
    <3>3. QED
      BY <2>4, <3>1, <3>2 DEF ReadPacket
  <2>5. Kept(out, out') /\ connection' \in {"handshake", "encrypted", "closed"}
    BY <1>2, <2>3, <2>4
  <2>6. TypeOK'
    <3>1. received' \in 0..ReceiveBuffer /\ patience' \in 0..Patience
      BY <2>1, QuicClientAssumption DEF ClientInv, TypeOK
    <3>2. QED
      BY <2>1, <2>5, <3>1 DEF ClientInv, TypeOK, Kept
  <2>7. NotYetConnected'
    BY <2>1 DEF ClientInv, NotYetConnected
  <2>8. WakeUpIsComing'
    <3>1. connected
      BY <2>1 DEF connected
    <3>2. out.write_blocked' =>
            \/ woken'
            \/ out.sending' = SendBuffer
            \/ phase' \in {"on_event", "reading", "read"} /\ "EPOLLOUT" \in in_events'
      BY <2>1, <2>5, <3>1, KeptWakeUp DEF ClientInv
    <3>3. QED
      BY <2>1, <3>2 DEF WakeUpIsComing
  <2>9. QED
    BY <2>6, <2>7, <2>8 DEF ClientInv
<1>3. ASSUME ReadingEnds PROVE ClientInv'
  <2>1. /\ phase = "reading" /\ phase' = "read"
        /\ connected => received = 0
        /\ UNCHANGED <<program, duration, written, fd, connection, patience, out,
                       received, burst, woken, in_events>>
    BY <1>3 DEF ReadingEnds, Goto, mainVars, socketVars
  <2>2. TypeOK'
    BY <2>1 DEF ClientInv, TypeOK, Phases
  <2>3. NotYetConnected'
    BY <2>1 DEF ClientInv, NotYetConnected
  <2>4. WakeUpIsComing'
    BY <2>1 DEF ClientInv, WakeUpIsComing, connected
  <2>5. QED
    BY <2>2, <2>3, <2>4 DEF ClientInv
<1>4. QED
  BY <1>1, <1>2, <1>3

\* The test of EPOLLOUT: a writer that is blocked behind OnCanWrite met a full
\* send buffer.
LEMMA ClientTestOutInv == ClientInv /\ TestOut => ClientInv'
<1> SUFFICES ASSUME ClientInv, TestOut PROVE ClientInv'
  OBVIOUS
<1>1. /\ phase = "read" /\ phase' = "alarms"
      /\ UNCHANGED <<program, duration, written, fd, patience, received, burst,
                     woken, in_events>>
      /\ IF connected /\ "EPOLLOUT" \in in_events
         THEN Goes({Resumed(out, IF out.write_blocked THEN 1 ELSE 0)})
         ELSE UNCHANGED <<connection, out>>
  BY DEF TestOut, mainVars, socketVars
<1>2. out \in Out
  BY DEF ClientInv, TypeOK
<1>3. CASE connected /\ "EPOLLOUT" \in in_events
  <2>1. out' \in Out /\ (out.write_blocked' => out.sending' = SendBuffer)
    BY <1>1, <1>2, <1>3, ResumedKept DEF Goes
  <2>2. connection' \in {connection, "closed"}
    BY <1>1, <1>3 DEF Goes
  <2>3. TypeOK'
    BY <1>1, <2>1, <2>2 DEF ClientInv, TypeOK, Phases
  <2>4. NotYetConnected'
    BY <1>1 DEF ClientInv, NotYetConnected
  <2>5. WakeUpIsComing'
    BY <1>1, <1>3, <2>1 DEF ClientInv, WakeUpIsComing
  <2>6. QED
    BY <2>3, <2>4, <2>5 DEF ClientInv
<1>4. CASE ~ (connected /\ "EPOLLOUT" \in in_events)
  <2>1. UNCHANGED <<connection, out>>
    BY <1>1, <1>4
  <2>2. TypeOK'
    BY <1>1, <2>1 DEF ClientInv, TypeOK, Phases
  <2>3. NotYetConnected'
    BY <1>1 DEF ClientInv, NotYetConnected
  <2>4. WakeUpIsComing'
    BY <1>1, <1>4, <2>1 DEF ClientInv, WakeUpIsComing, connected
  <2>5. QED
    BY <2>2, <2>3, <2>4 DEF ClientInv
<1>5. QED
  BY <1>3, <1>4

\* The alarms, and the end of the round.
LEMMA ClientAlarmsInv == ClientInv /\ RunAlarms => ClientInv'
<1> SUFFICES ASSUME ClientInv, RunAlarms PROVE ClientInv'
  OBVIOUS
<1>1. /\ phase = "alarms" /\ phase' = "outside" /\ in_events' = {}
      /\ program' \in {program, "sending"}
      /\ UNCHANGED <<duration, written, fd, received, burst, woken>>
  BY DEF RunAlarms, socketVars
<1>2. out \in Out /\ Kept(out, out) /\ Kept(out, Written(out))
  BY WrittenKept DEF ClientInv, TypeOK, Kept
<1>3. CASE ~ connected
  <2>1. UNCHANGED <<connection, out, patience>>
    BY <1>3 DEF RunAlarms
  <2>2. TypeOK'
    BY <1>1, <2>1 DEF ClientInv, TypeOK, Phases, Programs
  <2>3. QED
    BY <1>1, <1>3, <2>1, <2>2 DEF ClientInv, NotYetConnected, WakeUpIsComing,
                                  connected
<1>4. CASE connected
  <2>1. Kept(out, out') /\ connection' \in {connection, "closed"}
    BY <1>2, <1>4, ClosesKept DEF RunAlarms, Goes, ClientInv
  <2>2. patience' \in 0..Patience
    <3>1. patience' = patience \/ (patience # 0 /\ patience' = patience - 1)
      BY <1>4 DEF RunAlarms
    <3>2. QED
      BY <3>1, QuicClientAssumption DEF ClientInv, TypeOK
  <2>3. TypeOK'
    BY <1>1, <2>1, <2>2 DEF ClientInv, TypeOK, Phases, Programs, Kept
  <2>4. program' \notin {"start", "initialized"}
    BY <1>1 DEF ClientInv, NotYetConnected
  <2>5. WakeUpIsComing'
    <3>1. /\ received > 0 => woken
          /\ out.write_blocked => woken \/ out.sending = SendBuffer
      BY <1>1, <1>4 DEF ClientInv, WakeUpIsComing
    <3>2. QED
      BY <1>1, <2>1, <3>1 DEF WakeUpIsComing, Kept
  <2>6. QED
    BY <2>3, <2>4, <2>5 DEF ClientInv, NotYetConnected
<1>5. QED
  BY <1>3, <1>4

LEMMA ClientNextInv == ClientInv /\ [Next]_vars => ClientInv'
<1> SUFFICES ASSUME ClientInv, [Next]_vars PROVE ClientInv'
  OBVIOUS
<1>1. CASE UNCHANGED vars
  BY <1>1 DEF vars, mainVars, socketVars, roundVars, ClientInv, TypeOK,
              NotYetConnected, WakeUpIsComing, connected
<1>2. CASE Next
  BY <1>2, NetworkInv, StartingInv, MainInv, DisconnectInv, ClientEpollWaitInv,
     OnEventReadsInv, ClientTestOutInv, ClientAlarmsInv
  DEF Next, Client
<1>3. QED
  BY <1>1, <1>2

-----------------------------------------------------------------------------
(* Why a stream buffers *)

\* What is buffered waits for the packet writer or for an acknowledgement.
HasReason(o) == o.buffered > 0 => o.write_blocked \/ o.unacked = Window

\* Until there has been a connection nothing was buffered; a stream of a closed one
\* may buffer for ever.
ReasonInv ==
  connected \/ program \in {"start", "initialized"} => HasReason(out)

\* OnCanWrite leaves nothing in the stream that could go out.
LEMMA ResumedReason ==
  ASSUME NEW o \in Out, NEW refused \in {0, 1}
  PROVE  HasReason(Resumed(o, refused))
<1> DEFINE free == Window - o.unacked
           more == IF o.buffered < free THEN o.buffered ELSE free
           allowed == refused + more
           room == SendBuffer - o.sending
           taken == IF allowed < room + 1 THEN allowed ELSE room + 1
           sent == IF taken < room THEN taken ELSE room
<1>1. Resumed(o, refused) =
        [sending |-> o.sending + sent,
         unacked |-> o.unacked + taken - refused,
         buffered |-> o.buffered - (taken - refused),
         write_blocked |-> allowed > room]
  BY DEF Resumed, Min2
<1>2. room \in Nat /\ free \in Nat /\ more \in Nat /\ allowed \in Nat
  BY OutFields
<1>3. ASSUME ~ (allowed > room), o.buffered - (taken - refused) > 0
      PROVE  o.unacked + taken - refused = Window
  <2>1. taken = allowed
    BY <1>2, <1>3
  <2>2. taken - refused = more
    BY <1>2, <2>1
  <2>3. more = free
    BY <1>2, <1>3, <2>2, OutFields
  <2> HIDE DEF more, allowed, room, taken, sent
  <2>4. taken - refused = Window - o.unacked /\ taken = Window - o.unacked + refused
    BY <1>2, <2>1, <2>2, <2>3, OutFields DEF allowed
  <2>5. QED
    BY <2>4, OutFields
<1> HIDE DEF free, more, allowed, room, taken, sent
<1>4. /\ Resumed(o, refused).buffered = o.buffered - (taken - refused)
      /\ Resumed(o, refused).unacked = o.unacked + taken - refused
      /\ Resumed(o, refused).write_blocked = (allowed > room)
  BY <1>1
<1>5. QED
  BY <1>3, <1>4 DEF HasReason

LEMMA FlushedReason ==
  ASSUME NEW o \in Out
  PROVE  HasReason(Flushed(o))
<1>1. CASE o.write_blocked
  BY <1>1 DEF Flushed, HasReason
<1>2. CASE ~ o.write_blocked
  BY <1>2, ResumedReason DEF Flushed
<1>3. QED
  BY <1>1, <1>2

\* A packet without data of the stream takes no reason away.
LEMMA WrittenReason ==
  ASSUME NEW o \in Out, HasReason(o)
  PROVE  HasReason(Written(o))
  BY DEF Written, HasReason, Out

\* Nothing is buffered for nothing after any step of the client.
LEMMA ReasonNextInv == ClientInv /\ ReasonInv /\ [Next]_vars => ReasonInv'
<1> SUFFICES ASSUME ClientInv, ReasonInv, [Next]_vars PROVE ReasonInv'
  OBVIOUS
<1>0. out \in Out
  BY DEF ClientInv, TypeOK
<1>1. ASSUME out' = out,
             connected' \/ program' \in {"start", "initialized"} =>
               connected \/ program \in {"start", "initialized"}
      PROVE  ReasonInv'
  BY <1>1 DEF ReasonInv, HasReason
<1>2. ASSUME HasReason(out') PROVE ReasonInv'
  BY <1>2 DEF ReasonInv, HasReason
<1>3. ASSUME ~ connected', program' \notin {"start", "initialized"} PROVE ReasonInv'
  BY <1>3 DEF ReasonInv
<1>4. CASE Arrives \/ TimeIsUp \/ UNCHANGED vars
  BY <1>1, <1>4 DEF Arrives, TimeIsUp, vars, mainVars, connected
<1>5. CASE Leaves
  <2>1. /\ out.unacked' = out.unacked /\ out.buffered' = out.buffered
        /\ out.write_blocked' = out.write_blocked
        /\ UNCHANGED <<program, connection>>
    BY <1>0, <1>5 DEF Leaves, Out, mainVars
  <2>2. QED
    BY <2>1 DEF ReasonInv, HasReason, connected
<1>6. CASE Initialize
  BY <1>1, <1>6 DEF Initialize
<1>7. CASE Connect
  <2>1. HasReason(out) /\ out' = Written(out)
    BY <1>7 DEF Connect, ReasonInv
  <2>2. QED
    BY <1>0, <1>2, <2>1, WrittenReason
<1>8. CASE ConnectReturns \/ AllWritten
  <2>1. out' = out /\ connection' = connection
        /\ program' \notin {"start", "initialized"}
    BY <1>8 DEF ConnectReturns, AllWritten
  <2>2. QED
    BY <1>1, <2>1 DEF connected
<1>9. CASE WriteChunk
  <2> DEFINE chunk == [out EXCEPT !.buffered = @ + 1]
  <2>1. /\ program' \notin {"start", "initialized"}
        /\ out.buffered < Chunks
        /\ IF connected THEN Goes({Flushed(chunk)})
           ELSE out' = chunk /\ UNCHANGED connection
    BY <1>9 DEF WriteChunk
  <2>2. CASE connected
    <3>1. chunk \in Out
      <4>1. out.buffered + 1 \in 0..Chunks
        BY <1>0, <2>1, OutFields
      <4>2. QED
        BY <1>0, <4>1 DEF Out
    <3>2. out' = Flushed(chunk)
      BY <2>1, <2>2 DEF Goes
    <3>3. QED
      BY <1>2, <3>1, <3>2, FlushedReason
  <2>3. CASE ~ connected
    BY <1>3, <2>1, <2>3 DEF connected
  <2>4. QED
    BY <2>2, <2>3
<1>10. CASE CloseConnection \/ Disconnect
  <2>1. program' \notin {"start", "initialized"} /\ ~ connected'
    <3>1. /\ program' \notin {"start", "initialized"}
          /\ IF connected THEN Closes ELSE UNCHANGED connection
      BY <1>10 DEF CloseConnection, Disconnect
    <3>2. QED
      BY <3>1 DEF Closes, connected
  <2>2. QED
    BY <1>3, <2>1
<1>11. CASE EpollWait \/ TestIn \/ ReadingEnds
  BY <1>1, <1>11 DEF EpollWait, TestIn, ReadingEnds, Goto, mainVars, connected
<1>12. CASE ReadHandshake
  <2>1. HasReason(out) /\ out' \in {out, Written(out)}
    BY <1>12 DEF ReadHandshake, Closes, ReasonInv, connected
  <2>2. QED
    BY <1>0, <1>2, <2>1, WrittenReason
<1>13. CASE ReadPacket
  <2>1. CASE Closes
    <3>1. HasReason(out) /\ out' \in {out, Written(out)}
      BY <1>13, <2>1 DEF ReadPacket, Closes, ReasonInv, connected
    <3>2. QED
      BY <1>0, <1>2, <3>1, WrittenReason
  <2>2. ASSUME NEW acked \in 0..out.unacked,
               LET o == [out EXCEPT !.unacked = @ - acked]
               IN  Goes({Flushed(o), Flushed(Written(o))})
        PROVE  ReasonInv'
    <3> DEFINE o == [out EXCEPT !.unacked = @ - acked]
    <3>1. o \in Out
      <4>1. out.unacked - acked \in 0..Window
        BY <1>0, OutFields
      <4>2. QED
        BY <1>0, <4>1 DEF Out
    <3>2. out' \in {Flushed(o), Flushed(Written(o))}
      BY <2>2 DEF Goes
    <3> HIDE DEF o
    <3>3. Written(o) \in Out
      BY <3>1, WrittenKept DEF Kept
    <3>4. QED
      BY <1>2, <3>1, <3>2, <3>3, FlushedReason
  <2>3. QED
    BY <1>13, <2>1, <2>2 DEF ReadPacket
<1>14. CASE TestOut
  <2>1. CASE connected /\ "EPOLLOUT" \in in_events
    <3>1. out' = Resumed(out, IF out.write_blocked THEN 1 ELSE 0)
      BY <1>14, <2>1 DEF TestOut, Goes
    <3>2. QED
      BY <1>0, <1>2, <3>1, ResumedReason
  <2>2. CASE ~ (connected /\ "EPOLLOUT" \in in_events)
    BY <1>1, <1>14, <2>2 DEF TestOut, mainVars, connected
  <2>3. QED
    BY <2>1, <2>2
<1>15. CASE RunAlarms
  <2>1. CASE ~ connected
    <3>1. out' = out /\ connection' = connection
          /\ (program' = program \/ program' = "sending")
      BY <1>15, <2>1 DEF RunAlarms
    <3>2. QED
      BY <1>1, <3>1 DEF connected
  <2>2. CASE connected
    <3>1. HasReason(out) /\ out' \in {out, Written(out)}
      BY <1>15, <2>2 DEF RunAlarms, Closes, Goes, ReasonInv
    <3>2. QED
      BY <1>0, <1>2, <3>1, WrittenReason
  <2>3. QED
    BY <2>1, <2>2
<1>16. QED
  BY <1>4, <1>5, <1>6, <1>7, <1>8, <1>9, <1>10, <1>11, <1>12, <1>13, <1>14, <1>15
  DEF Next, Client

-----------------------------------------------------------------------------
\* The invariant holds in every state of the client.
THEOREM ClientInvariant == Spec => []ClientInv
<1>1. Init => ClientInv
  BY ClientInitInv
<1>2. ClientInv /\ [Next]_vars => ClientInv'
  BY ClientNextInv
<1>3. QED
  BY <1>1, <1>2, PTL DEF Spec

\* Type correctness of the client: in particular OnCanWrite never takes more out
\* of the stream than the window admits, and never past a full send buffer.
THEOREM ClientTypeCorrect == Spec => []TypeOK
<1>1. ClientInv => TypeOK
  BY DEF ClientInv
<1>2. QED
  BY <1>1, ClientInvariant, PTL

\* No wake-up of a connected client is lost, whatever its timeout, window and
\* buffers.
THEOREM ClientWakeUpIsComing == Spec => []WakeUpIsComing
<1>1. ClientInv => WakeUpIsComing
  BY DEF ClientInv
<1>2. QED
  BY <1>1, ClientInvariant, PTL

\* The stream of an open connection buffers only what the window or the packet
\* writer holds back, for every window, send buffer and transfer.
THEOREM ClientBufferedForAReason == Spec => []BufferedForAReason
<1>1. Init => ReasonInv
  BY DEF Init, ReasonInv, HasReason
<1>2. ClientInv /\ ReasonInv /\ [Next]_vars => ReasonInv'
  BY ReasonNextInv
<1>3. ReasonInv => BufferedForAReason
  BY DEF ReasonInv, HasReason, BufferedForAReason
<1>4. QED
  BY <1>1, <1>2, <1>3, ClientInvariant, PTL DEF Spec
=============================================================================

--------------------------- MODULE TcpPerfProofs ---------------------------
(***************************************************************************)
(* Theorems about the TCP programs, for all transfers, chunks and buffers: *)
(* no byte is lost between what the client writes and the count the server *)
(* returns with.  The invariant conserves bytes: those written are in      *)
(* flight or counted, and an untimed client has written what its loop      *)
(* variable says.                                                          *)
(***************************************************************************)
EXTENDS TcpPerf, TLAPS

\* What was written is on its way or counted.
Conserved == written = in_flight + BYTES_RECEIVED

\* The loop variable of an untimed transfer counts whole chunks, and stops at
\* the first that reaches the total.
InChunks ==
  duration = 0 =>
    /\ \E k \in Nat : i = k * FLAGS_chunk_size
    /\ i < FLAGS_total_transfer + FLAGS_chunk_size
    /\ client = "writing" => i < FLAGS_total_transfer
    /\ client = "returned" => i >= FLAGS_total_transfer

\* What the client has handed over, as long as the server has not failed: then
\* no write is cut short.
HandedOver ==
  server # "failed" =>
    /\ client # "failed"
    /\ client \in {"loop", "returned"} /\ duration = 0 => written = i
    /\ client = "writing" /\ duration = 0 =>
         written + unwritten = i + FLAGS_chunk_size

\* Who has come how far: a server that reads has had a client that connected,
\* and one that returns has seen the end of it.
InStep ==
  /\ client = "connecting" => i = 0 /\ written = 0
  /\ client \in {"connecting", "loop", "returned"} => unwritten = 0
  /\ server = "reading" => client \notin {"connecting", "refused"}
  /\ server = "returned" => client = "returned" /\ in_flight = 0

TcpInv ==
  /\ TypeOK
  /\ written + unwritten <= MaxBytes
  /\ Conserved
  /\ InChunks
  /\ HandedOver
  /\ InStep

-----------------------------------------------------------------------------
(* Chunks *)

\* Multiples keep their order.
LEMMA MultiplesInOrder ==
  ASSUME NEW a \in Nat, NEW b \in Nat, NEW c \in Nat, a * c < b * c + c
  PROVE  a <= b
<1>1. SUFFICES ASSUME a >= b + 1 PROVE FALSE
  OBVIOUS
<1>2. PICK d \in Nat : a = b + 1 + d
  <2>1. a - (b + 1) \in Nat /\ a = b + 1 + (a - (b + 1))
    BY <1>1
  <2> QED BY <2>1
<1>3. a * c = b * c + c + d * c
  BY <1>2
<1>4. d * c >= 0
  OBVIOUS
<1>5. b * c \in Nat /\ d * c \in Nat
  OBVIOUS
<1> QED BY <1>3, <1>4, <1>5

\* The multiple of c that first reaches t is t rounded up.
LEMMA FirstMultipleIsRoundedUp ==
  ASSUME NEW t \in Nat, NEW c \in Nat \ {0}, NEW k \in Nat,
         k * c >= t, k * c < t + c
  PROVE  k * c = ((t + c - 1) \div c) * c
<1> DEFINE q == (t + c - 1) \div c
<1>1. t + c - 1 \in Nat
  OBVIOUS
<1>2. q \in Nat /\ q * c <= t + c - 1 /\ t + c - 1 < q * c + c
  BY <1>1
<1>3. k * c \in Nat /\ q * c \in Nat
  BY <1>2
<1> HIDE DEF q
<1>4. k <= q
  BY <1>2, <1>3, MultiplesInOrder
<1>5. q <= k
  BY <1>2, <1>3, MultiplesInOrder
<1>6. k = q
  BY <1>2, <1>4, <1>5
<1> QED BY <1>6 DEF q

-----------------------------------------------------------------------------
(* The invariant *)

LEMMA TcpInit ==
  ASSUME Init PROVE TcpInv
<1>1. TypeOK
  <2>1. duration \in Nat /\ time_left = duration
    BY TcpPerfAssumption DEF Init
  <2>2. time_left \in 0..duration
    BY <2>1
  <2>3. 0 \in 0..(FLAGS_total_transfer + FLAGS_chunk_size)
    BY TcpPerfAssumption
  <2>4. alarm \in BOOLEAN /\ client \in ClientAt /\ server \in ServerAt
    BY DEF Init, ClientAt, ServerAt
  <2>5. /\ i \in 0..(FLAGS_total_transfer + FLAGS_chunk_size)
        /\ unwritten \in 0..FLAGS_chunk_size
        /\ written \in 0..MaxBytes
        /\ in_flight \in 0..Capacity
        /\ BYTES_RECEIVED \in 0..written
        /\ reported \in 0..BYTES_RECEIVED
    BY <2>3, TcpPerfAssumption DEF Init
  <2> QED
    BY <2>2, <2>4, <2>5 DEF Init, TypeOK
<1>2. 0 = 0 * FLAGS_chunk_size
  BY TcpPerfAssumption
<1>3. InChunks
  BY <1>2, TcpPerfAssumption DEF Init, InChunks
<1>4. written + unwritten <= MaxBytes /\ Conserved
  BY TcpPerfAssumption DEF Init, Conserved
<1>5. HandedOver /\ InStep
  BY DEF Init, HandedOver, InStep
<1> QED BY <1>1, <1>3, <1>4, <1>5 DEF TcpInv

LEMMA TcpClientStep ==
  ASSUME TcpInv, Client
  PROVE  TcpInv'
<1> USE TcpPerfAssumption
    DEF TcpInv, TypeOK, ClientAt, ServerAt, Conserved, HandedOver, InStep, serverVars
<1>1. CASE Connect
  BY <1>1 DEF Connect, InChunks
<1>2. CASE WriteBegins
  BY <1>2 DEF WriteBegins, MoreToWrite, InChunks
<1>3. CASE WriteCopies
  BY <1>3 DEF WriteCopies, ServerHasEnded, InChunks
<1>4. CASE WriteReturns
  <2>1. i \in Nat /\ duration \in Nat
    OBVIOUS
  <2>2. ~ (server = "returned")
    BY <1>4 DEF WriteReturns
  <2>3. duration = 0 => i < FLAGS_total_transfer
    BY <1>4 DEF WriteReturns, InChunks
  <2>4. InChunks'
    <3>1. SUFFICES ASSUME duration = 0
                   PROVE  /\ \E k \in Nat : i' = k * FLAGS_chunk_size
                          /\ i' < FLAGS_total_transfer + FLAGS_chunk_size
      BY <1>4 DEF WriteReturns, InChunks
    <3>2. PICK k \in Nat : i = k * FLAGS_chunk_size
      BY <3>1 DEF InChunks
    <3>3. i' = i + FLAGS_chunk_size
      BY <1>4, <3>1 DEF WriteReturns
    <3>4. i' = (k + 1) * FLAGS_chunk_size
      BY <3>2, <3>3
    <3>5. \E n \in Nat : i' = n * FLAGS_chunk_size
      <4>1. k + 1 \in Nat
        OBVIOUS
      <4> QED BY <3>4, <4>1
    <3>6. i' < FLAGS_total_transfer + FLAGS_chunk_size
      BY <2>1, <2>3, <3>1, <3>3
    <3> QED BY <3>5, <3>6
  <2>5. TypeOK'
    <3>1. i' \in 0..(FLAGS_total_transfer + FLAGS_chunk_size)
      BY <1>4, <2>1, <2>3 DEF WriteReturns
    <3> QED BY <1>4, <3>1 DEF WriteReturns
  <2> QED BY <1>4, <2>1, <2>2, <2>4, <2>5 DEF WriteReturns, ServerHasEnded
<1>5. CASE WriteFails
  BY <1>5 DEF WriteFails, ServerHasEnded, InChunks
<1>6. CASE ClientReturns
  BY <1>6 DEF ClientReturns, MoreToWrite, InChunks
<1> QED BY <1>1, <1>2, <1>3, <1>4, <1>5, <1>6 DEF Client

\* The server's steps, the signal handler and the clock disturb no loop variable.
LEMMA TcpOtherStep ==
  ASSUME TcpInv, TimePasses \/ Server \/ ReadFails \/ AlarmHandler
  PROVE  TcpInv'
<1> USE TcpPerfAssumption
    DEF TcpInv, TypeOK, ClientAt, ServerAt, Conserved, HandedOver, InStep,
        InChunks, clientVars, serverVars
<1>1. CASE TimePasses
  BY <1>1 DEF TimePasses, ClientIsConnected
<1>2. CASE Listen
  BY <1>2 DEF Listen
<1>3. CASE Accept
  BY <1>3 DEF Accept
<1>4. CASE Read
  BY <1>4 DEF Read, Counted
<1>5. CASE ServerReturns
  BY <1>5 DEF ServerReturns, EndOfFile, ClientHasEnded
<1>6. CASE ReadFails
  BY <1>6 DEF ReadFails
<1>7. CASE AlarmHandler
  BY <1>7 DEF AlarmHandler
<1> QED BY <1>1, <1>2, <1>3, <1>4, <1>5, <1>6, <1>7 DEF Server

LEMMA TcpStep ==
  ASSUME TcpInv, [Next]_vars
  PROVE  TcpInv'
<1>1. CASE Client
  BY <1>1, TcpClientStep
<1>2. CASE TimePasses \/ Server \/ ReadFails \/ AlarmHandler
  BY <1>2, TcpOtherStep
<1>3. CASE UNCHANGED vars
  BY <1>3
  DEF vars, clientVars, serverVars, TcpInv, TypeOK, Conserved, InChunks, HandedOver, InStep
<1> QED BY <1>1, <1>2, <1>3 DEF Next

-----------------------------------------------------------------------------
(* Theorems *)

\* The inductive invariant of the TCP programs: types, conservation of bytes, and
\* an untimed transfer in whole chunks.
THEOREM TcpInvariant == Spec => []TcpInv
<1>1. Init => TcpInv
  BY TcpInit
<1>2. TcpInv /\ [Next]_vars => TcpInv'
  BY TcpStep
<1> QED BY <1>1, <1>2, PTL DEF Spec

\* Type correctness: the count and what it is printed from stay within the bytes
\* written, for every buffer and chunk.
THEOREM TcpTypeCorrect == Spec => []TypeOK
<1>1. TcpInv => TypeOK
  BY DEF TcpInv
<1> QED BY <1>1, TcpInvariant, PTL

\* A server that returns has counted every byte, and of an untimed transfer the
\* total rounded up to chunks.
THEOREM TcpTransferIsCounted == Spec => []TransferIsCounted
<1>1. TcpInv => TransferIsCounted
  <2> SUFFICES ASSUME TcpInv, server = "returned"
               PROVE  /\ BYTES_RECEIVED = written
                      /\ duration = 0 => written = RoundedUp
    BY DEF TransferIsCounted
  <2>1. client = "returned" /\ in_flight = 0
    BY DEF TcpInv, InStep
  <2>2. BYTES_RECEIVED = written
    BY <2>1, TcpPerfAssumption DEF TcpInv, TypeOK, Conserved
  <2>3. ASSUME duration = 0
        PROVE  written = RoundedUp
    <3>1. written = i
      BY <2>1, <2>3 DEF TcpInv, HandedOver
    <3>2. PICK k \in Nat : i = k * FLAGS_chunk_size
      BY <2>3 DEF TcpInv, InChunks
    <3>3. /\ k * FLAGS_chunk_size >= FLAGS_total_transfer
          /\ k * FLAGS_chunk_size < FLAGS_total_transfer + FLAGS_chunk_size
      BY <2>1, <2>3, <3>2 DEF TcpInv, InChunks
    <3>4. k * FLAGS_chunk_size = RoundedUp
      BY <3>3, FirstMultipleIsRoundedUp, TcpPerfAssumption DEF RoundedUp
    <3> QED BY <3>1, <3>2, <3>4
  <2> QED BY <2>2, <2>3
<1> QED BY <1>1, TcpInvariant, PTL
=============================================================================

-------------------------- MODULE ServerLoopProofs --------------------------
(***************************************************************************)
(* Proofs about the server's event loop, for every set of connections and  *)
(* all buffer sizes: no wake-up is lost, and blocked writers take turns,   *)
(* whichever of them close.                                                *)
(***************************************************************************)
EXTENDS ServerLoop, SequenceTheorems, TLAPS

\* The writers on the list exist, and each is on it once; the one that is resumed
\* exists, and OnCanWrite is in its loop.
WritersOK ==
  /\ IsInjective(write_blocked_list)
  /\ ToSet(write_blocked_list) \subseteq LiveWriters
  /\ resumed \in LiveWriters \cup {NoWriter}
  /\ resumed # NoWriter => phase = "writing"

\* Who is going to call OnCanWrite.
WriteIsSignalled ==
  \/ woken
  \/ sending = SendBuffer
  \/ "EPOLLOUT" \in events_to_fake
  \/ phase \in {"on_event", "reading", "read"} /\ "EPOLLOUT" \in in_events
  \/ phase \in {"writing", "written"}

\* The kernel alone sees to a packet writer that is blocked: it met a full send
\* buffer, whose draining is an edge.  It needs neither the list, which is empty when
\* the blocked connections have closed, nor the event OnEvent fakes, which depends on
\* the list.
BlockedIsOwed ==
  write_blocked =>
    \/ woken
    \/ sending = SendBuffer
    \/ phase \in {"on_event", "reading", "read"} /\ "EPOLLOUT" \in in_events

\* The inductive invariant.
LoopInv ==
  /\ TypeOK
  /\ WritersOK
  /\ UnreadIsSignalled
  /\ (write_blocked_list # << >> => WriteIsSignalled)
  /\ BlockedIsOwed

-----------------------------------------------------------------------------
(* The list *)

\* What RemoveAt returns.
LEMMA RemoveAtElements ==
  ASSUME NEW S, NEW list \in Seq(S), NEW k \in DOMAIN list
  PROVE  /\ RemoveAt(list, k) \in Seq(S)
         /\ Len(RemoveAt(list, k)) = Len(list) - 1
         /\ \A i \in 1..(Len(list) - 1) :
              RemoveAt(list, k)[i] = IF i < k THEN list[i] ELSE list[i + 1]
<1> DEFINE front == SubSeq(list, 1, k - 1)
           back  == SubSeq(list, k + 1, Len(list))
<1>1. k \in 1..Len(list) /\ Len(list) \in Nat
  OBVIOUS
<1>2. /\ front \in Seq(S)
      /\ Len(front) = k - 1
      /\ \A i \in 1..(k - 1) : front[i] = list[i]
  BY <1>1, SubSeqProperties, SMT
<1>3. /\ back \in Seq(S)
      /\ Len(back) = Len(list) - k
      /\ \A i \in 1..(Len(list) - k) : back[i] = list[i + k]
  BY <1>1, SubSeqProperties, SMT
<1>4. /\ front \o back \in Seq(S)
      /\ Len(front \o back) = Len(front) + Len(back)
      /\ \A i \in 1..(Len(front) + Len(back)) :
           (front \o back)[i] = IF i <= Len(front) THEN front[i]
                                ELSE back[i - Len(front)]
  BY <1>2, <1>3, ConcatProperties
<1>5. RemoveAt(list, k) = front \o back
  BY DEF RemoveAt
<1> HIDE DEF front, back
<1>6. Len(front) + Len(back) = Len(list) - 1
  BY <1>1, <1>2, <1>3
<1>7. ASSUME NEW i \in 1..(Len(list) - 1)
      PROVE  (front \o back)[i] = IF i < k THEN list[i] ELSE list[i + 1]
  <2>0. i \in 1..(Len(front) + Len(back))
    BY <1>6
  <2>1. CASE i < k
    <3>1. i <= Len(front) /\ i \in 1..(k - 1)
      BY <1>1, <1>2, <2>1
    <3>2. (front \o back)[i] = front[i]
      BY <1>4, <2>0, <3>1
    <3>3. QED
      BY <1>2, <2>1, <3>1, <3>2
  <2>2. CASE ~ (i < k)
    <3>1. /\ ~ (i <= Len(front))
          /\ i - Len(front) \in 1..(Len(list) - k)
          /\ i - Len(front) + k = i + 1
      BY <1>1, <1>2, <2>2
    <3>2. (front \o back)[i] = back[i - Len(front)]
      BY <1>4, <2>0, <3>1
    <3>3. QED
      BY <1>3, <3>1, <3>2, <2>2
  <2>3. QED
    BY <2>1, <2>2
<1>8. QED
  BY <1>4, <1>5, <1>6, <1>7

\* What WritersTakeTurns says of a list and the next, whoever is gone: the others
\* keep their place or move up.
KeepsTurns(list, list2, gone) ==
  \A k \in DOMAIN list :
    list[k] \in gone \/ \E j \in (1..k) \cap DOMAIN list2 : list2[j] = list[k]

\* Nobody is on the empty list.
LEMMA EmptyList ==
  ASSUME NEW list \in Seq(Writers)
  PROVE  list = << >> <=> ToSet(list) = {}
<1>1. CASE list = << >>
  BY <1>1 DEF ToSet
<1>2. CASE list # << >>
  <2>1. 1 \in DOMAIN list
    BY <1>2, EmptySeq
  <2>2. QED
    BY <1>2, <2>1 DEF ToSet
<1>3. QED
  BY <1>1, <1>2

\* A list that stays keeps all turns.
LEMMA SameTurns ==
  ASSUME NEW list \in Seq(Writers), NEW gone
  PROVE  KeepsTurns(list, list, gone)
<1> SUFFICES ASSUME NEW k \in DOMAIN list
             PROVE  \E j \in (1..k) \cap DOMAIN list : list[j] = list[k]
  BY DEF KeepsTurns
<1>1. k \in Nat /\ k >= 1
  BY LenProperties
<1>2. k \in (1..k) \cap DOMAIN list
  BY <1>1
<1>3. QED
  BY <1>2

\* A refused writer is on the list, once, behind all others or where it was.
LEMMA RefusedList ==
  ASSUME NEW list \in Seq(Writers), IsInjective(list), NEW w \in Writers, NEW gone
  PROVE  /\ Refused(list, w) \in Seq(Writers)
         /\ IsInjective(Refused(list, w))
         /\ ToSet(Refused(list, w)) = ToSet(list) \cup {w}
         /\ KeepsTurns(list, Refused(list, w), gone)
<1>1. CASE w \in ToSet(list)
  BY <1>1, SameTurns DEF Refused
<1>2. CASE w \notin ToSet(list)
  <2> DEFINE longer == Append(list, w)
  <2>1. Refused(list, w) = longer
    BY <1>2 DEF Refused
  <2>2. /\ longer \in Seq(Writers)
        /\ DOMAIN list = 1..Len(list) /\ Len(list) \in Nat
        /\ DOMAIN longer = 1..(Len(list) + 1)
        /\ \A k \in 1..Len(list) : longer[k] = list[k]
        /\ longer[Len(list) + 1] = w
    BY AppendProperties, LenProperties
  <2> HIDE DEF longer
  <2>3. /\ DOMAIN longer = DOMAIN list \cup {Len(list) + 1}
        /\ \A k \in DOMAIN list : longer[k] = list[k] /\ k \in (1..k) \cap DOMAIN longer
    BY <2>2
  <2>4. IsInjective(longer)
    BY <1>2, <2>2, <2>3 DEF IsInjective, ToSet
  <2>5. ToSet(longer) = ToSet(list) \cup {w}
    BY <2>2, <2>3 DEF ToSet
  <2>6. KeepsTurns(list, longer, gone)
    BY <2>3 DEF KeepsTurns
  <2>7. QED
    BY <2>1, <2>2, <2>4, <2>5, <2>6
<1>3. QED
  BY <1>1, <1>2

\* A connection that is erased is gone, and those behind it move up.
LEMMA ErasedList ==
  ASSUME NEW list \in Seq(Writers), IsInjective(list), NEW c, NEW gone,
         c \in ToSet(list) => c \in gone
  PROVE  /\ Erased(list, c) \in Seq(Writers)
         /\ IsInjective(Erased(list, c))
         /\ ToSet(Erased(list, c)) = ToSet(list) \ {c}
         /\ KeepsTurns(list, Erased(list, c), gone)
<1>1. CASE c \notin ToSet(list)
  BY <1>1, SameTurns DEF Erased
<1>2. CASE c \in ToSet(list)
  <2> DEFINE p == CHOOSE k \in DOMAIN list : list[k] = c
             part == RemoveAt(list, p)
  <2>1. p \in DOMAIN list /\ list[p] = c
    BY <1>2 DEF ToSet
  <2>2. Erased(list, c) = part
    BY <1>2 DEF Erased
  <2> HIDE DEF p
  <2>3. /\ part \in Seq(Writers)
        /\ Len(part) = Len(list) - 1
        /\ \A i \in 1..(Len(list) - 1) :
             part[i] = IF i < p THEN list[i] ELSE list[i + 1]
    BY <2>1, RemoveAtElements
  <2> HIDE DEF part
  <2>4. /\ DOMAIN list = 1..Len(list) /\ Len(list) \in Nat
        /\ DOMAIN part = 1..(Len(list) - 1)
    BY <2>3
  <2> DEFINE was(i) == IF i < p THEN i ELSE i + 1
             is(j) == IF j < p THEN j ELSE j - 1
  <2>5. \A i \in DOMAIN part :
          was(i) \in DOMAIN list /\ was(i) # p /\ part[i] = list[was(i)]
    BY <2>1, <2>3, <2>4
  <2>6. \A i, j \in DOMAIN part : was(i) = was(j) => i = j
    BY <2>1, <2>4
  <2>7. \A j \in DOMAIN list : j # p =>
          is(j) \in DOMAIN part /\ was(is(j)) = j /\ is(j) \in 1..j
    BY <2>1, <2>4
  <2> HIDE DEF was, is
  <2>8. IsInjective(part)
    BY <2>5, <2>6 DEF IsInjective
  <2>9. \A j \in DOMAIN list : j # p =>
          is(j) \in (1..j) \cap DOMAIN part /\ part[is(j)] = list[j]
    BY <2>5, <2>7
  <2>10. \A j \in DOMAIN list : j # p <=> list[j] # c
    BY <2>1 DEF IsInjective
  <2>11. ToSet(part) = ToSet(list) \ {c}
    <3>1. ASSUME NEW x \in ToSet(part) PROVE x \in ToSet(list) \ {c}
      BY <2>5, <2>10 DEF ToSet
    <3>2. ASSUME NEW x \in ToSet(list) \ {c} PROVE x \in ToSet(part)
      BY <2>9, <2>10 DEF ToSet
    <3>3. QED
      BY <3>1, <3>2
  <2>12. KeepsTurns(list, part, gone)
    BY <1>2, <2>9, <2>10 DEF KeepsTurns
  <2>13. QED
    BY <2>2, <2>3, <2>8, <2>11, <2>12
<1>3. QED
  BY <1>1, <1>2

\* The list without its head: the others move up.
LEMMA TailList ==
  ASSUME NEW list \in Seq(Writers), IsInjective(list), list # << >>
  PROVE  /\ Tail(list) \in Seq(Writers)
         /\ IsInjective(Tail(list))
         /\ ToSet(Tail(list)) \subseteq ToSet(list)
         /\ Head(list) \in ToSet(list) /\ Head(list) = list[1]
         /\ \A k \in DOMAIN list : k # 1 =>
              \E j \in (1..k) \cap DOMAIN Tail(list) : Tail(list)[j] = list[k]
<1> DEFINE rest == Tail(list)
<1>1. /\ rest \in Seq(Writers)
      /\ Len(rest) = Len(list) - 1
      /\ \A i \in 1..Len(rest) : rest[i] = list[i + 1]
  BY HeadTailProperties
<1>2. Len(list) \in Nat \ {0} /\ DOMAIN list = 1..Len(list) /\ Head(list) = list[1]
  BY EmptySeq
<1> HIDE DEF rest
<1>3. /\ DOMAIN rest = 1..(Len(list) - 1)
      /\ 1 \in DOMAIN list
      /\ \A i \in DOMAIN rest : i + 1 \in DOMAIN list /\ rest[i] = list[i + 1]
  BY <1>1, <1>2
<1>4. \A k \in DOMAIN list : k # 1 =>
        k - 1 \in (1..k) \cap DOMAIN rest /\ rest[k - 1] = list[k]
  BY <1>1, <1>2, <1>3
<1>5. IsInjective(rest)
  <2>1. SUFFICES ASSUME NEW i \in DOMAIN rest, NEW j \in DOMAIN rest, rest[i] = rest[j]
                 PROVE  i = j
    BY DEF IsInjective
  <2>2. i + 1 = j + 1
    BY <1>3, <2>1 DEF IsInjective
  <2>3. QED
    BY <1>3, <2>2
<1>6. ToSet(rest) \subseteq ToSet(list) /\ Head(list) \in ToSet(list)
  BY <1>2, <1>3 DEF ToSet
<1>7. \A k \in DOMAIN list : k # 1 =>
        \E j \in (1..k) \cap DOMAIN rest : rest[j] = list[k]
  BY <1>4
<1>8. QED
  BY <1>1, <1>2, <1>5, <1>6, <1>7 DEF rest

-----------------------------------------------------------------------------
(* What a writer does *)

\* A write leaves the packet writer blocked only if it was or the socket is full.
LEMMA WritePacketKeeps ==
  ASSUME TypeOK, WritePacket \/ UNCHANGED <<sending, write_blocked>>
  PROVE  /\ sending' \in 0..SendBuffer
         /\ write_blocked' \in BOOLEAN
         /\ write_blocked' => write_blocked \/ sending' = SendBuffer
         /\ sending = SendBuffer => sending' = SendBuffer
<1>1. sending \in 0..SendBuffer /\ SendBuffer \in Nat /\ write_blocked \in BOOLEAN
  BY ServerLoopAssumption DEF TypeOK
<1>2. CASE UNCHANGED <<sending, write_blocked>>
  BY <1>1, <1>2
<1>3. CASE WritePacket /\ ~ write_blocked /\ sending < SendBuffer
  BY <1>1, <1>3 DEF WritePacket
<1>4. CASE WritePacket /\ ~ (~ write_blocked /\ sending < SendBuffer)
  <2>1. write_blocked' = TRUE /\ sending' = sending
    BY <1>4 DEF WritePacket
  <2>2. write_blocked \/ sending = SendBuffer
    BY <1>1, <1>4
  <2>3. QED
    BY <1>1, <2>1, <2>2
<1>5. QED
  BY <1>2, <1>3, <1>4

\* What is true after a writer has acted: its list is in order, those on it live, and
\* if there is something to wait for that was not before, the socket is full.
ActsWell ==
  /\ sending' \in 0..SendBuffer
  /\ connections' \subseteq Connections
  /\ write_blocked' \in BOOLEAN
  /\ write_blocked_list' \in Seq(Writers)
  /\ IsInjective(write_blocked_list')
  /\ ToSet(write_blocked_list') \subseteq LiveWriters'
  /\ write_blocked' => write_blocked \/ sending' = SendBuffer
  /\ write_blocked_list' # << >> =>
       write_blocked_list # << >> \/ write_blocked \/ sending' = SendBuffer
  /\ sending = SendBuffer => sending' = SendBuffer
  /\ KeepsTurns(write_blocked_list, write_blocked_list', connections \ connections')
  /\ ~ write_blocked' => ToSet(write_blocked_list') \subseteq ToSet(write_blocked_list)

\* A writer that exists, or a connection that is opened for it, acts well.
LEMMA WriterActsWell ==
  ASSUME LoopInv, NEW live \in SUBSET Connections, connections \subseteq live,
         NEW w \in live \cup {TimeWait},
         Acts(write_blocked_list, live, w)
  PROVE  ActsWell
<1> DEFINE list == write_blocked_list
<1>1. /\ list \in Seq(Writers) /\ IsInjective(list)
      /\ ToSet(list) \subseteq connections \cup {TimeWait}
      /\ w \in Writers /\ TypeOK /\ write_blocked \in BOOLEAN
  BY DEF LoopInv, TypeOK, WritersOK, LiveWriters, Writers
<1>2. /\ sending' \in 0..SendBuffer
      /\ write_blocked' \in BOOLEAN
      /\ write_blocked' => write_blocked \/ sending' = SendBuffer
      /\ sending = SendBuffer => sending' = SendBuffer
  BY <1>1, WritePacketKeeps DEF Acts, Writes, ConnectionCloses
<1> DEFINE Result == /\ connections' \subseteq Connections
                     /\ list' \in Seq(Writers)
                     /\ IsInjective(list')
                     /\ ToSet(list') \subseteq connections' \cup {TimeWait}
                     /\ KeepsTurns(list, list', connections \ connections')
                     /\ list' # << >> => list # << >> \/ write_blocked'
                     /\ ~ write_blocked' => ToSet(list') \subseteq ToSet(list)
<1>3. CASE list' = list /\ connections' = live
  <2>1. KeepsTurns(list, list', connections \ connections')
    BY <1>1, <1>3, SameTurns
  <2> HIDE DEF list
  <2>2. Result
    BY <1>1, <1>3, <2>1
  <2>3. QED
    BY <1>2, <2>2 DEF ActsWell, LiveWriters, list
<1>4. CASE /\ list' = Refused(list, w) /\ connections' = live /\ write_blocked'
  <2>1. /\ list' \in Seq(Writers) /\ IsInjective(list')
        /\ ToSet(list') = ToSet(list) \cup {w}
        /\ KeepsTurns(list, list', connections \ connections')
    BY <1>1, <1>4, RefusedList
  <2> HIDE DEF list
  <2>2. Result
    BY <1>1, <1>4, <2>1
  <2>3. QED
    BY <1>2, <2>2 DEF ActsWell, LiveWriters, list
<1>5. CASE list' = Erased(list, w) /\ connections' = live \ {w} /\ w # TimeWait
  <2>1. w \in ToSet(list) => w \in connections \ connections'
    BY <1>1, <1>5
  <2>2. /\ list' \in Seq(Writers) /\ IsInjective(list')
        /\ ToSet(list') = ToSet(list) \ {w}
        /\ KeepsTurns(list, list', connections \ connections')
    BY <1>1, <1>5, <2>1, ErasedList
  <2>3. list = << >> => list' = << >>
    BY <1>1, <2>2, EmptyList
  <2> HIDE DEF list
  <2>4. Result
    BY <1>1, <1>5, <2>2, <2>3
  <2>5. QED
    BY <1>2, <2>4 DEF ActsWell, LiveWriters, list
<1>6. QED
  BY <1>1, <1>2, <1>3, <1>4, <1>5 DEF Acts, Writes, ConnectionCloses

\* A packet and an alarm are for a writer that exists, or a new connection.
LEMMA HandlersActWell ==
  ASSUME LoopInv,
         \/ HandlePacket
         \/ \E c \in connections : Acts(write_blocked_list, connections, c)
         \/ ResumedActs
  PROVE  ActsWell
<1>1. connections \in SUBSET Connections
  BY DEF LoopInv, TypeOK
<1>2. ASSUME NEW w \in LiveWriters, Acts(write_blocked_list, connections, w)
      PROVE  ActsWell
  BY <1>1, <1>2, WriterActsWell DEF LiveWriters
<1>3. ASSUME NEW c \in Connections \ connections,
             Acts(write_blocked_list, connections \cup {c}, c)
      PROVE  ActsWell
  BY <1>1, <1>3, WriterActsWell
<1>4. CASE HandlePacket
  BY <1>2, <1>3, <1>4 DEF HandlePacket
<1>5. CASE \E c \in connections : Acts(write_blocked_list, connections, c)
  BY <1>2, <1>5 DEF LiveWriters
<1>6. CASE ResumedActs
  BY <1>2, <1>6 DEF ResumedActs, LoopInv, WritersOK
<1>7. QED
  BY <1>4, <1>5, <1>6

\* The signals for the writers survive what a writer does, wherever the thread is.
LEMMA ActingKeepsSignals ==
  ASSUME LoopInv, ActsWell,
         UNCHANGED <<woken, events_to_fake, in_events, phase>>
  PROVE  /\ BlockedIsOwed'
         /\ write_blocked_list' # << >> => WriteIsSignalled'
<1>1. BlockedIsOwed'
  BY DEF LoopInv, ActsWell, BlockedIsOwed
<1>2. write_blocked => WriteIsSignalled
  BY DEF LoopInv, BlockedIsOwed, WriteIsSignalled
<1>3. WriteIsSignalled => WriteIsSignalled'
  BY DEF ActsWell, WriteIsSignalled
<1>4. sending' = SendBuffer => WriteIsSignalled'
  BY DEF WriteIsSignalled
<1>5. QED
  BY <1>1, <1>2, <1>3, <1>4 DEF LoopInv, ActsWell

-----------------------------------------------------------------------------
\* Initially nobody waits for anything.
LEMMA LoopInitInv == Init => LoopInv
<1> SUFFICES ASSUME Init PROVE LoopInv
  OBVIOUS
<1>1. /\ 0 \in 0..ReceiveBuffer /\ 0 \in 0..SendBuffer /\ 0 \in 0..MaxBurst
      /\ << >> \in Seq(Writers) /\ 0 \in 0..MaxAlarms
      /\ IsInjective(<< >>) /\ ToSet(<< >>) = {}
  BY ServerLoopAssumption DEF IsInjective, ToSet
<1>2. TypeOK
  BY <1>1 DEF Init, TypeOK, Phases
<1>3. QED
  BY <1>1, <1>2 DEF Init, LoopInv, WritersOK, UnreadIsSignalled, BlockedIsOwed

\* Listen: whatever arrived before the socket was registered is reported.
LEMMA ListenInv ==
  LoopInv /\ (OpenSocket \/ Bind \/ ListenReturns \/ MainReturns) => LoopInv'
<1> SUFFICES ASSUME LoopInv, OpenSocket \/ Bind \/ ListenReturns \/ MainReturns
             PROVE  LoopInv'
  OBVIOUS
<1> USE DEF socketVars, writerVars, loopVars, Phases
<1>1. CASE OpenSocket \/ Bind
  <2>1. TypeOK' /\ WritersOK' /\ BlockedIsOwed'
    <3>1. /\ phase' \in Phases /\ phase \in {"created", "opened"}
          /\ UNCHANGED <<socketVars, writerVars, loopVars>>
      BY <1>1 DEF OpenSocket, SetSocketOptions, Bind
    <3>2. QED
      BY <3>1 DEF LoopInv, TypeOK, WritersOK, LiveWriters, BlockedIsOwed
  <2>2. UnreadIsSignalled'
    BY <1>1 DEF LoopInv, UnreadIsSignalled, OpenSocket, SetSocketOptions, Bind
  <2>3. write_blocked_list' # << >> => WriteIsSignalled'
    BY <1>1 DEF LoopInv, WriteIsSignalled, OpenSocket, SetSocketOptions, Bind
  <2>4. QED
    BY <2>1, <2>2, <2>3 DEF LoopInv
<1>2. CASE ListenReturns
  <2>1. TypeOK' /\ WritersOK' /\ BlockedIsOwed'
    <3>1. sending < SendBuffer \/ sending = SendBuffer
      BY ServerLoopAssumption DEF LoopInv, TypeOK
    <3>2. QED
      BY <1>2, <3>1 DEF LoopInv, TypeOK, WritersOK, LiveWriters, BlockedIsOwed,
                        ListenReturns, SocketEvents
  <2>2. UnreadIsSignalled'
    BY <1>2 DEF UnreadIsSignalled, ListenReturns, SocketEvents
  <2>3. WriteIsSignalled'
    <3>1. sending < SendBuffer \/ sending = SendBuffer
      BY ServerLoopAssumption DEF LoopInv, TypeOK
    <3>2. QED
      BY <1>2, <3>1 DEF WriteIsSignalled, ListenReturns, SocketEvents
  <2>4. QED
    BY <2>1, <2>2, <2>3 DEF LoopInv
<1>3. CASE MainReturns
  BY <1>3 DEF MainReturns, vars, LoopInv, TypeOK, WritersOK, LiveWriters,
              BlockedIsOwed, UnreadIsSignalled, WriteIsSignalled
<1>4. QED
  BY <1>1, <1>2, <1>3

\* epoll_wait: what woke the socket, or was faked, is among the events.
LEMMA EpollWaitInv == LoopInv /\ EpollWait => LoopInv'
<1> SUFFICES ASSUME LoopInv, EpollWait PROVE LoopInv'
  OBVIOUS
<1> DEFINE events == (IF woken THEN SocketEvents ELSE {}) \cup events_to_fake
<1>1. /\ phase = "outside" /\ in_events' = events
      /\ phase' = (IF events = {} THEN "alarms" ELSE "on_event")
      /\ woken' = FALSE /\ burst' = 0 /\ events_to_fake' = {}
      /\ UNCHANGED <<received, sending, connections, write_blocked, write_blocked_list,
                     resumed, alarms_run>>
  BY DEF EpollWait, writerVars
<1>2. events \subseteq {"EPOLLIN", "EPOLLOUT"}
  BY DEF LoopInv, TypeOK, SocketEvents
<1>3. TypeOK'
  <2>1. 0 \in 0..MaxBurst /\ phase' \in Phases
    BY <1>1, ServerLoopAssumption DEF Phases
  <2>2. in_events' \subseteq {"EPOLLIN", "EPOLLOUT"}
    BY <1>1, <1>2
  <2>3. QED
    BY <1>1, <2>1, <2>2 DEF LoopInv, TypeOK
<1>4. UnreadIsSignalled'
  <2>1. SUFFICES ASSUME received > 0 PROVE "EPOLLIN" \in events
    BY <1>1 DEF UnreadIsSignalled
  <2>2. woken
    BY <1>1, <2>1 DEF LoopInv, UnreadIsSignalled
  <2>3. QED
    BY <2>1, <2>2 DEF SocketEvents
<1>5. ASSUME sending # SendBuffer, woken \/ "EPOLLOUT" \in events_to_fake
      PROVE  "EPOLLOUT" \in in_events' /\ phase' = "on_event"
  <2>1. sending < SendBuffer
    BY <1>5, ServerLoopAssumption DEF LoopInv, TypeOK
  <2>2. "EPOLLOUT" \in events
    BY <1>5, <2>1 DEF SocketEvents
  <2>3. QED
    BY <1>1, <2>2
<1>6. write_blocked_list' # << >> => WriteIsSignalled'
  BY <1>1, <1>5 DEF LoopInv, WriteIsSignalled
<1>7. WritersOK' /\ BlockedIsOwed'
  BY <1>1, <1>5 DEF LoopInv, WritersOK, LiveWriters, BlockedIsOwed
<1>8. QED
  BY <1>3, <1>4, <1>6, <1>7 DEF LoopInv

\* Reading: each datagram may be answered or close its connection, and the loop
\* leaves none behind.
LEMMA ReadingInv ==
  LoopInv /\ (TestIn \/ ReadAndDispatch \/ NothingToRead) => LoopInv'
<1> SUFFICES ASSUME LoopInv, TestIn \/ ReadAndDispatch \/ NothingToRead
             PROVE  LoopInv'
  OBVIOUS
<1> USE DEF Goto, socketVars, writerVars, loopVars, Phases
<1>1. CASE TestIn
  <2>1. TypeOK' /\ WritersOK' /\ BlockedIsOwed'
    BY <1>1 DEF LoopInv, TypeOK, WritersOK, LiveWriters, BlockedIsOwed, TestIn
  <2>2. UnreadIsSignalled'
    BY <1>1 DEF LoopInv, UnreadIsSignalled, TestIn
  <2>3. write_blocked_list' # << >> => WriteIsSignalled'
    BY <1>1 DEF LoopInv, WriteIsSignalled, TestIn
  <2>4. QED
    BY <2>1, <2>2, <2>3 DEF LoopInv
<1>2. CASE ReadAndDispatch
  <2>1. /\ phase = "reading" /\ received > 0 /\ received' = received - 1
        /\ UNCHANGED <<burst, woken, loopVars, phase>>
    BY <1>2 DEF ReadAndDispatch, ReadPacket
  <2>2. ActsWell
    BY <1>2, HandlersActWell DEF ReadAndDispatch
  <2>3. resumed = NoWriter
    BY <2>1 DEF LoopInv, WritersOK
  <2>4. TypeOK' /\ WritersOK'
    BY <2>1, <2>2, <2>3, ServerLoopAssumption DEF LoopInv, TypeOK, WritersOK, ActsWell
  <2>5. UnreadIsSignalled'
    BY <2>1 DEF UnreadIsSignalled
  <2>6. QED
    BY <2>1, <2>2, <2>4, <2>5, ActingKeepsSignals DEF LoopInv
<1>3. CASE NothingToRead
  <2>1. TypeOK' /\ WritersOK' /\ BlockedIsOwed'
    BY <1>3 DEF LoopInv, TypeOK, WritersOK, LiveWriters, BlockedIsOwed, NothingToRead
  <2>2. UnreadIsSignalled'
    BY <1>3 DEF LoopInv, UnreadIsSignalled, NothingToRead
  <2>3. write_blocked_list' # << >> => WriteIsSignalled'
    BY <1>3 DEF LoopInv, WriteIsSignalled, NothingToRead
  <2>4. QED
    BY <2>1, <2>2, <2>3 DEF LoopInv
<1>4. QED
  BY <1>1, <1>2, <1>3

\* Writing: OnCanWrite leaves writers on the list only behind a blocked packet
\* writer, and then OnEvent asks to be called again.
LEMMA WritingInv ==
  LoopInv /\ (TestOut \/ ResumeWriter \/ ResumedActs \/ OnCanWriteReturns
              \/ OnEventReturns) => LoopInv'
<1> SUFFICES ASSUME LoopInv,
                    TestOut \/ ResumeWriter \/ ResumedActs \/ OnCanWriteReturns
                    \/ OnEventReturns
             PROVE  LoopInv'
  OBVIOUS
<1> USE DEF Goto, socketVars, writerVars, loopVars, Phases
<1>1. CASE TestOut
  <2>1. TypeOK' /\ WritersOK' /\ UnreadIsSignalled'
    BY <1>1 DEF LoopInv, TypeOK, WritersOK, LiveWriters, UnreadIsSignalled, TestOut
  <2>2. BlockedIsOwed'
    BY <1>1 DEF LoopInv, BlockedIsOwed, TestOut
  <2>3. write_blocked_list' # << >> => WriteIsSignalled'
    BY <1>1 DEF LoopInv, WriteIsSignalled, TestOut
  <2>4. QED
    BY <2>1, <2>2, <2>3 DEF LoopInv
<1>2. CASE ResumeWriter
  <2>1. /\ write_blocked_list \in Seq(Writers) /\ IsInjective(write_blocked_list)
        /\ write_blocked_list # << >>
        /\ ToSet(write_blocked_list) \subseteq LiveWriters
        /\ phase = "writing" /\ ~ write_blocked
        /\ resumed' = Head(write_blocked_list)
        /\ write_blocked_list' = Tail(write_blocked_list)
        /\ UNCHANGED <<socketVars, connections, write_blocked, events_to_fake,
                       in_events, alarms_run, phase>>
    BY <1>2 DEF ResumeWriter, LoopInv, TypeOK, WritersOK
  <2>2. /\ write_blocked_list' \in Seq(Writers)
        /\ IsInjective(write_blocked_list')
        /\ ToSet(write_blocked_list') \subseteq LiveWriters
        /\ resumed' \in LiveWriters
    BY <2>1, TailList
  <2>3. LiveWriters \subseteq Writers /\ LiveWriters' = LiveWriters
    BY <2>1 DEF LoopInv, TypeOK, LiveWriters, Writers
  <2>4. TypeOK'
    BY <2>1, <2>2, <2>3 DEF LoopInv, TypeOK
  <2>5. WritersOK'
    BY <2>1, <2>2, <2>3 DEF WritersOK
  <2>6. UnreadIsSignalled' /\ BlockedIsOwed' /\ WriteIsSignalled'
    BY <2>1 DEF LoopInv, UnreadIsSignalled, BlockedIsOwed, WriteIsSignalled
  <2>7. QED
    BY <2>4, <2>5, <2>6 DEF LoopInv
<1>3. CASE ResumedActs
  <2>1. /\ phase = "writing" /\ resumed' = NoWriter
        /\ UNCHANGED <<received, burst, woken, events_to_fake, in_events, alarms_run,
                       phase>>
    BY <1>3 DEF ResumedActs
  <2>2. ActsWell
    BY <1>3, HandlersActWell
  <2>3. TypeOK' /\ WritersOK'
    BY <2>1, <2>2 DEF LoopInv, TypeOK, WritersOK, ActsWell
  <2>4. UnreadIsSignalled'
    BY <2>1 DEF LoopInv, UnreadIsSignalled
  <2>5. QED
    BY <2>1, <2>2, <2>3, <2>4, ActingKeepsSignals DEF LoopInv
<1>4. CASE OnCanWriteReturns
  BY <1>4 DEF OnCanWriteReturns, LoopInv, TypeOK, WritersOK, LiveWriters,
              BlockedIsOwed, UnreadIsSignalled, WriteIsSignalled
<1>5. CASE OnEventReturns
  BY <1>5 DEF OnEventReturns, OutReadyMask, LoopInv, TypeOK, WritersOK, LiveWriters,
              BlockedIsOwed, UnreadIsSignalled, WriteIsSignalled
<1>6. QED
  BY <1>1, <1>2, <1>3, <1>4, <1>5

\* Alarms may write and close; whoever they block, a full socket will wake.
LEMMA AlarmsInv == LoopInv /\ (RunAlarm \/ RoundEnds) => LoopInv'
<1> SUFFICES ASSUME LoopInv, RunAlarm \/ RoundEnds PROVE LoopInv'
  OBVIOUS
<1>1. CASE RunAlarm
  <2>1. /\ phase = "alarms" /\ alarms_run < MaxAlarms /\ alarms_run' = alarms_run + 1
        /\ UNCHANGED <<received, burst, woken, events_to_fake, in_events, resumed, phase>>
    BY <1>1 DEF RunAlarm
  <2>2. ActsWell
    BY <1>1, HandlersActWell DEF RunAlarm
  <2>3. resumed = NoWriter
    BY <2>1 DEF LoopInv, WritersOK
  <2>4. alarms_run' \in 0..MaxAlarms
    BY <2>1, ServerLoopAssumption DEF LoopInv, TypeOK
  <2>5. TypeOK' /\ WritersOK'
    BY <2>1, <2>2, <2>3, <2>4 DEF LoopInv, TypeOK, WritersOK, ActsWell
  <2>6. UnreadIsSignalled'
    BY <2>1 DEF LoopInv, UnreadIsSignalled
  <2>7. QED
    BY <2>1, <2>2, <2>5, <2>6, ActingKeepsSignals DEF LoopInv
<1>2. CASE RoundEnds
  <2>1. 0 \in 0..MaxAlarms
    BY ServerLoopAssumption
  <2>2. TypeOK' /\ WritersOK'
    BY <1>2, <2>1 DEF RoundEnds, socketVars, writerVars, Phases, LoopInv, TypeOK,
                      WritersOK, LiveWriters
  <2>3. BlockedIsOwed' /\ UnreadIsSignalled'
         /\ (write_blocked_list' # << >> => WriteIsSignalled')
    BY <1>2 DEF RoundEnds, socketVars, writerVars, LoopInv, BlockedIsOwed,
                UnreadIsSignalled, WriteIsSignalled
  <2>4. QED
    BY <2>2, <2>3 DEF LoopInv
<1>3. QED
  BY <1>1, <1>2

\* The network only adds wake-ups.
LEMMA NetworkInv == LoopInv /\ (Arrives \/ Leaves) => LoopInv'
<1> SUFFICES ASSUME LoopInv, Arrives \/ Leaves PROVE LoopInv'
  OBVIOUS
<1> USE DEF writerVars, loopVars
<1>1. CASE Arrives
  <2>1. /\ received' = received + 1 /\ received < ReceiveBuffer
        /\ burst' = burst \/ (burst < MaxBurst /\ burst' = burst + 1)
        /\ UNCHANGED <<sending, writerVars, loopVars, phase>>
    BY <1>1 DEF Arrives
  <2>2. woken' \in BOOLEAN /\ (woken => woken') /\ (phase # "bound" => woken')
    BY <1>1, Zenon DEF Arrives
  <2>3. received' \in 0..ReceiveBuffer /\ burst' \in 0..MaxBurst
    BY <2>1, ServerLoopAssumption DEF LoopInv, TypeOK
  <2>4. TypeOK' /\ WritersOK'
    BY <2>1, <2>2, <2>3 DEF LoopInv, TypeOK, WritersOK, LiveWriters
  <2>5. /\ UnreadIsSignalled' /\ BlockedIsOwed'
        /\ write_blocked_list' # << >> => WriteIsSignalled'
    BY <2>1, <2>2 DEF LoopInv, UnreadIsSignalled, BlockedIsOwed, WriteIsSignalled
  <2>6. QED
    BY <2>4, <2>5 DEF LoopInv
<1>2. CASE Leaves
  <2>1. /\ sending > 0 /\ sending' = sending - 1
        /\ UNCHANGED <<received, burst, writerVars, loopVars, phase>>
    BY <1>2 DEF Leaves
  <2>2. woken' \in BOOLEAN /\ (woken => woken') /\ (sending = SendBuffer => woken')
    BY <1>2, Zenon DEF Leaves
  <2>3. sending' \in 0..SendBuffer
    BY <2>1, ServerLoopAssumption DEF LoopInv, TypeOK
  <2>4. TypeOK' /\ WritersOK'
    BY <2>1, <2>2, <2>3 DEF LoopInv, TypeOK, WritersOK, LiveWriters
  <2>5. /\ UnreadIsSignalled' /\ BlockedIsOwed'
        /\ write_blocked_list' # << >> => WriteIsSignalled'
    BY <2>1, <2>2 DEF LoopInv, UnreadIsSignalled, BlockedIsOwed, WriteIsSignalled
  <2>6. QED
    BY <2>4, <2>5 DEF LoopInv
<1>3. QED
  BY <1>1, <1>2

\* Every step of the loop and of its environment keeps the invariant.
LEMMA LoopNextInv == LoopInv /\ [Next]_vars => LoopInv'
<1> SUFFICES ASSUME LoopInv, [Next]_vars PROVE LoopInv'
  OBVIOUS
<1>1. CASE UNCHANGED vars
  BY <1>1 DEF vars, socketVars, writerVars, loopVars, LoopInv, TypeOK, WritersOK,
              LiveWriters, BlockedIsOwed, UnreadIsSignalled, WriteIsSignalled
<1>2. CASE Next
  BY <1>2, ListenInv, EpollWaitInv, ReadingInv, WritingInv, AlarmsInv, NetworkInv
  DEF Next, Server
<1>3. QED
  BY <1>1, <1>2

-----------------------------------------------------------------------------
(* Turns *)

\* What WritersTakeTurns says of a step.
TakesTurns ==
  /\ \A k \in DOMAIN write_blocked_list :
        \/ k = 1 /\ resumed' = write_blocked_list[k]
        \/ write_blocked_list[k] \in connections \ connections'
        \/ \E j \in (1..k) \cap DOMAIN write_blocked_list' :
             write_blocked_list'[j] = write_blocked_list[k]
  /\ phase = "writing" /\ ~ write_blocked' =>
        ToSet(write_blocked_list') \subseteq ToSet(write_blocked_list)

\* Every step lets writers take turns.
LEMMA StepTakesTurns == LoopInv /\ [Next]_vars => TakesTurns
<1> SUFFICES ASSUME LoopInv, [Next]_vars PROVE TakesTurns
  OBVIOUS
<1>1. CASE ReadAndDispatch \/ RunAlarm \/ ResumedActs
  <2>1. ActsWell
    BY <1>1, HandlersActWell DEF ReadAndDispatch, RunAlarm
  <2>2. QED
    BY <2>1 DEF ActsWell, KeepsTurns, TakesTurns
<1>2. CASE ResumeWriter
  <2>1. /\ write_blocked_list \in Seq(Writers) /\ IsInjective(write_blocked_list)
        /\ write_blocked_list # << >>
        /\ resumed' = Head(write_blocked_list)
        /\ write_blocked_list' = Tail(write_blocked_list)
    BY <1>2 DEF ResumeWriter, LoopInv, TypeOK, WritersOK
  <2>2. QED
    BY <2>1, TailList DEF TakesTurns
<1>3. CASE OpenSocket \/ Bind \/ ListenReturns \/ EpollWait \/ TestIn \/ NothingToRead
           \/ TestOut \/ OnCanWriteReturns \/ OnEventReturns \/ RoundEnds
           \/ MainReturns \/ Arrives \/ Leaves \/ UNCHANGED vars
  <2>1. write_blocked_list' = write_blocked_list
    BY <1>3
    DEF OpenSocket, Bind, ListenReturns, EpollWait, TestIn, NothingToRead, Goto,
        TestOut, OnCanWriteReturns, OnEventReturns, RoundEnds, MainReturns,
        Arrives, Leaves, vars, writerVars
  <2>2. KeepsTurns(write_blocked_list, write_blocked_list, {})
    BY SameTurns DEF LoopInv, TypeOK
  <2>3. QED
    BY <2>1, <2>2 DEF KeepsTurns, TakesTurns
<1>4. QED
  BY <1>1, <1>2, <1>3 DEF Next, Server

-----------------------------------------------------------------------------
\* The invariant holds in every state of the loop.
THEOREM LoopInvariant == Spec => []LoopInv
<1>1. Init => LoopInv
  BY LoopInitInv
<1>2. LoopInv /\ [Next]_vars => LoopInv'
  BY LoopNextInv
<1>3. QED
  BY <1>1, <1>2, PTL DEF Spec

\* Type correctness of the loop.
THEOREM LoopTypeCorrect == Spec => []TypeOK
<1>1. LoopInv => TypeOK
  BY DEF LoopInv
<1>2. QED
  BY <1>1, LoopInvariant, PTL

\* No datagram is left unread without a wake-up to come.
THEOREM LoopUnreadIsSignalled == Spec => []UnreadIsSignalled
<1>1. LoopInv => UnreadIsSignalled
  BY DEF LoopInv
<1>2. QED
  BY <1>1, LoopInvariant, PTL

\* Neither a writer on the list nor a blocked packet writer is left without an
\* OnCanWrite to come, whichever connections close.
THEOREM LoopBlockedIsSignalled == Spec => []BlockedIsSignalled
<1>1. LoopInv => BlockedIsSignalled
  BY DEF LoopInv, BlockedIsSignalled, BlockedIsOwed, WriteIsSignalled
<1>2. QED
  BY <1>1, LoopInvariant, PTL

\* The safety half of fairness to blocked writers: each has one chance to write in
\* a call of OnCanWrite, in the order in which they came, and only a connection that
\* closes loses its turn.
THEOREM LoopWritersTakeTurns == Spec => WritersTakeTurns
<1>1. LoopInv /\ [Next]_vars => [TakesTurns]_vars
  BY StepTakesTurns
<1>2. QED
  BY <1>1, LoopInvariant, PTL DEF Spec, WritersTakeTurns, TakesTurns
=============================================================================

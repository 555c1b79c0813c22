------------------------ MODULE EpollReadyListProofs ------------------------
(***************************************************************************)
(* Proofs about the descriptors of EpollServer, for every set of           *)
(* descriptors, callbacks and events: the ready list is never corrupted,   *)
(* no node is freed in use, the kernel and cb_map_ agree, and no reported  *)
(* edge is lost.                                                           *)
(***************************************************************************)
EXTENDS EpollServerLife, SequenceTheorems, FiniteSetTheorems, TLAPS

\* ready_list_ and tmp_list_ are two lists, no descriptor is on them twice, and
\* ready_list_size_ counts both.
ListsOK(l) ==
  /\ l \in [ready : Seq(Fds), tmp : Seq(Fds), size : Nat]
  /\ IsInjective(l.ready)
  /\ IsInjective(l.tmp)
  /\ ToSet(l.ready) \cap ToSet(l.tmp) = {}
  /\ l.size = Len(l.ready) + Len(l.tmp)

\* The descriptors that have a callback.
Registered == {fd \in DOMAIN cb_map : cb_map[fd].cb # NoCallback}

\* Where the round stands with an edge that is owed: its descriptor has been
\* reported in this round, and once the lists are swapped it waits on tmp_list_.
\* Without this a second report could replace a mask nobody was told of.
EdgeInRound(fd) ==
  /\ phase # "outside"
  /\ phase = "events" => fd \in reported
  /\ phase \in {"serving", "on_event"} => fd \in ToSet(lists.tmp)
  /\ fd \in Listed(lists)
  /\ owed[fd] \subseteq cb_map[fd].events_asserted

\* The inductive invariant.
ReadyInv ==
  /\ TypeOK
  /\ ListsOK(lists)
  /\ (phase \in {"outside", "events"} => lists.tmp = << >>)
  /\ Listed(lists) \subseteq Registered
  /\ NodeOutlivesOnEvent
  /\ KernelAgrees
  /\ \A fd \in Fds : owed[fd] # {} => EdgeInRound(fd)

-----------------------------------------------------------------------------
(* Sequences without repetitions *)

\* What RemoveAt returns.
LEMMA RemoveAtElements ==
  ASSUME NEW S, NEW list \in Seq(S), NEW k \in DOMAIN list
  PROVE  /\ RemoveAt(list, k) \in Seq(S)
         /\ Len(RemoveAt(list, k)) = Len(list) - 1
         /\ \A i \in 1..(Len(list) - 1) :
              RemoveAt(list, k)[i] = IF i < k THEN list[i] ELSE list[i + 1]
<1> DEFINE front == SubSeq(list, 1, k - 1)
           back  == SubSeq(list, k + 1, Len(list))
<1>1. k \in 1..Len(list) /\ Len(list) \in Nat
  OBVIOUS
<1>2. /\ front \in Seq(S)
      /\ Len(front) = k - 1
      /\ \A i \in 1..(k - 1) : front[i] = list[i]
  BY <1>1, SubSeqProperties, SMT
<1>3. /\ back \in Seq(S)
      /\ Len(back) = Len(list) - k
      /\ \A i \in 1..(Len(list) - k) : back[i] = list[i + k]
  BY <1>1, SubSeqProperties, SMT
<1>4. /\ front \o back \in Seq(S)
      /\ Len(front \o back) = Len(front) + Len(back)
      /\ \A i \in 1..(Len(front) + Len(back)) :
           (front \o back)[i] = IF i <= Len(front) THEN front[i]
                                ELSE back[i - Len(front)]
  BY <1>2, <1>3, ConcatProperties
<1>5. RemoveAt(list, k) = front \o back
  BY DEF RemoveAt
<1> HIDE DEF front, back
<1>6. Len(front) + Len(back) = Len(list) - 1
  BY <1>1, <1>2, <1>3
<1>7. ASSUME NEW i \in 1..(Len(list) - 1)
      PROVE  (front \o back)[i] = IF i < k THEN list[i] ELSE list[i + 1]
  <2>0. i \in 1..(Len(front) + Len(back))
    BY <1>6
  <2>1. CASE i < k
    <3>1. i <= Len(front) /\ i \in 1..(k - 1)
      BY <1>1, <1>2, <2>1
    <3>2. (front \o back)[i] = front[i]
      BY <1>4, <2>0, <3>1
    <3>3. QED
      BY <1>2, <2>1, <3>1, <3>2
  <2>2. CASE ~ (i < k)
    <3>1. /\ ~ (i <= Len(front))
          /\ i - Len(front) \in 1..(Len(list) - k)
          /\ i - Len(front) + k = i + 1
      BY <1>1, <1>2, <2>2
    <3>2. (front \o back)[i] = back[i - Len(front)]
      BY <1>4, <2>0, <3>1
    <3>3. QED
      BY <1>3, <3>1, <3>2, <2>2
  <2>3. QED
    BY <2>1, <2>2
<1>8. QED
  BY <1>4, <1>5, <1>6, <1>7

\* LIST_REMOVE takes one descriptor off a list, and nothing else changes.
LEMMA UnlinkedList ==
  ASSUME NEW list \in Seq(Fds), IsInjective(list), NEW fd \in Fds
  PROVE  /\ Unlinked(list, fd) \in Seq(Fds)
         /\ IsInjective(Unlinked(list, fd))
         /\ ToSet(Unlinked(list, fd)) = ToSet(list) \ {fd}
         /\ Len(Unlinked(list, fd)) =
              IF fd \in ToSet(list) THEN Len(list) - 1 ELSE Len(list)
<1>1. CASE fd \notin ToSet(list)
  BY <1>1 DEF Unlinked
<1>2. CASE fd \in ToSet(list)
  <2> DEFINE k == CHOOSE k \in DOMAIN list : list[k] = fd
             part == RemoveAt(list, k)
  <2>1. k \in DOMAIN list /\ list[k] = fd
    BY <1>2 DEF ToSet
  <2>2. Unlinked(list, fd) = part
    BY <1>2 DEF Unlinked
  <2> HIDE DEF k
  <2>3. /\ part \in Seq(Fds)
        /\ Len(part) = Len(list) - 1
        /\ \A i \in 1..(Len(list) - 1) :
             part[i] = IF i < k THEN list[i] ELSE list[i + 1]
    BY <2>1, RemoveAtElements
  <2> HIDE DEF part
  <2>4. /\ DOMAIN list = 1..Len(list) /\ Len(list) \in Nat
        /\ DOMAIN part = 1..(Len(list) - 1)
    BY <2>3
  <2> DEFINE was(i) == IF i < k THEN i ELSE i + 1
             is(j) == IF j < k THEN j ELSE j - 1
  <2>5. \A i \in DOMAIN part :
          was(i) \in DOMAIN list /\ was(i) # k /\ part[i] = list[was(i)]
    BY <2>1, <2>3, <2>4
  <2>6. \A i, j \in DOMAIN part : was(i) = was(j) => i = j
    BY <2>1, <2>4
  <2>7. \A j \in DOMAIN list : j # k => is(j) \in DOMAIN part /\ was(is(j)) = j
    BY <2>1, <2>4
  <2> HIDE DEF was, is
  <2>8. IsInjective(part)
    BY <2>5, <2>6 DEF IsInjective
  <2>9. ToSet(part) = ToSet(list) \ {fd}
    <3>1. ASSUME NEW x \in ToSet(part) PROVE x \in ToSet(list) \ {fd}
      BY <2>1, <2>5 DEF ToSet, IsInjective
    <3>2. ASSUME NEW x \in ToSet(list) \ {fd} PROVE x \in ToSet(part)
      <4>1. PICK j \in DOMAIN list : x = list[j]
        BY DEF ToSet
      <4>2. j # k
        BY <2>1, <4>1
      <4>3. is(j) \in DOMAIN part /\ part[is(j)] = x
        BY <2>5, <2>7, <4>1, <4>2
      <4>4. QED
        BY <4>3 DEF ToSet
    <3>3. QED
      BY <3>1, <3>2
  <2>10. QED
    BY <1>2, <2>2, <2>3, <2>8, <2>9
<1>3. QED
  BY <1>1, <1>2

\* LIST_INSERT_HEAD of a descriptor that is not on the list.
LEMMA InsertedHead ==
  ASSUME NEW list \in Seq(Fds), IsInjective(list), NEW fd \in Fds,
         fd \notin ToSet(list)
  PROVE  /\ <<fd>> \o list \in Seq(Fds)
         /\ IsInjective(<<fd>> \o list)
         /\ ToSet(<<fd>> \o list) = ToSet(list) \cup {fd}
         /\ Len(<<fd>> \o list) = Len(list) + 1
<1> DEFINE longer == <<fd>> \o list
<1>1. <<fd>> \in Seq(Fds) /\ Len(<<fd>>) = 1 /\ <<fd>>[1] = fd
  OBVIOUS
<1>2. /\ longer \in Seq(Fds)
      /\ Len(longer) = 1 + Len(list)
      /\ \A i \in 1..(1 + Len(list)) :
           longer[i] = IF i <= 1 THEN <<fd>>[i] ELSE list[i - 1]
  BY <1>1, ConcatProperties
<1> HIDE DEF longer
<1>3. /\ DOMAIN list = 1..Len(list) /\ Len(list) \in Nat
      /\ DOMAIN longer = 1..(Len(list) + 1)
      /\ Len(longer) = Len(list) + 1
  BY <1>2
<1>4. /\ 1 \in DOMAIN longer /\ longer[1] = fd
      /\ \A i \in DOMAIN longer :
           i # 1 => i - 1 \in DOMAIN list /\ longer[i] = list[i - 1]
      /\ \A j \in DOMAIN list : j + 1 \in DOMAIN longer /\ longer[j + 1] = list[j]
  BY <1>1, <1>2, <1>3
<1>5. ToSet(longer) = ToSet(list) \cup {fd}
  <2>1. ASSUME NEW x \in ToSet(longer) PROVE x \in ToSet(list) \cup {fd}
    BY <1>4 DEF ToSet
  <2>2. ASSUME NEW x \in ToSet(list) \cup {fd} PROVE x \in ToSet(longer)
    BY <1>4 DEF ToSet
  <2>3. QED
    BY <2>1, <2>2
<1>6. IsInjective(longer)
  <2>1. SUFFICES ASSUME NEW i \in DOMAIN longer, NEW j \in DOMAIN longer,
                        longer[i] = longer[j]
                 PROVE  i = j
    BY DEF IsInjective
  <2>2. \A n \in DOMAIN longer : n # 1 => longer[n] # fd
    BY <1>4 DEF ToSet
  <2>3. CASE i = 1 \/ j = 1
    BY <1>4, <2>1, <2>2, <2>3
  <2>4. CASE i # 1 /\ j # 1
    <3>1. i - 1 = j - 1
      BY <1>4, <2>1, <2>4 DEF IsInjective
    <3>2. QED
      BY <1>3, <3>1
  <2>5. QED
    BY <2>3, <2>4
<1>7. QED
  BY <1>2, <1>3, <1>5, <1>6 DEF longer

\* A list without repetitions is as long as it has members.
LEMMA DistinctSize ==
  ASSUME NEW list \in Seq(Fds), IsInjective(list)
  PROVE  IsFiniteSet(ToSet(list)) /\ Cardinality(ToSet(list)) = Len(list)
<1>1. /\ DOMAIN list = 1..Len(list) /\ Len(list) \in Nat
      /\ list \in [1..Len(list) -> ToSet(list)]
  BY DEF ToSet
<1>2. list \in Bijection(1..Len(list), ToSet(list))
  BY <1>1 DEF Bijection, Injection, Surjection, IsInjective, ToSet
<1>3. ExistsBijection(1..Len(list), ToSet(list))
  BY <1>2 DEF ExistsBijection
<1>4. IsFiniteSet(1..Len(list)) /\ Cardinality(1..Len(list)) = Len(list)
  <2>1. Len(list) \in Int /\ 1 \in Int /\ ~ (1 > Len(list) /\ Len(list) # 0)
    BY <1>1
  <2>2. /\ IsFiniteSet(1..Len(list))
        /\ Cardinality(1..Len(list)) = IF 1 > Len(list) THEN 0 ELSE Len(list) - 1 + 1
    BY <2>1, FS_Interval
  <2>3. QED
    BY <1>1, <2>2
<1>5. QED
  BY <1>3, <1>4, FS_Bijection

-----------------------------------------------------------------------------
(* The ready list *)

\* ready_list_size_ is the number of descriptors that are listed.
LEMMA ListedSize ==
  ASSUME NEW l, ListsOK(l)
  PROVE  l.size = Cardinality(Listed(l))
<1>1. /\ IsFiniteSet(ToSet(l.ready)) /\ Cardinality(ToSet(l.ready)) = Len(l.ready)
      /\ IsFiniteSet(ToSet(l.tmp)) /\ Cardinality(ToSet(l.tmp)) = Len(l.tmp)
  BY DistinctSize DEF ListsOK
<1>2. Cardinality(ToSet(l.ready) \cap ToSet(l.tmp)) = 0
  BY FS_EmptySet DEF ListsOK
<1>3. Cardinality(ToSet(l.ready) \cup ToSet(l.tmp)) =
        Cardinality(ToSet(l.ready)) + Cardinality(ToSet(l.tmp)) -
        Cardinality(ToSet(l.ready) \cap ToSet(l.tmp))
  BY <1>1, FS_Union
<1>4. Len(l.ready) \in Nat /\ Len(l.tmp) \in Nat
  BY DEF ListsOK
<1>5. QED
  BY <1>1, <1>2, <1>3, <1>4 DEF ListsOK, Listed

\* AddToReadyList adds the descriptor to ready_list_, once.
LEMMA AddedToList ==
  ASSUME NEW l, ListsOK(l), NEW fd \in Fds
  PROVE  /\ ListsOK(AddToReadyList(l, fd))
         /\ Listed(AddToReadyList(l, fd)) = Listed(l) \cup {fd}
         /\ AddToReadyList(l, fd).tmp = l.tmp
<1>1. CASE fd \in Listed(l)
  BY <1>1 DEF AddToReadyList
<1>2. CASE fd \notin Listed(l)
  <2>1. /\ l.ready \in Seq(Fds) /\ l.tmp \in Seq(Fds) /\ l.size \in Nat
        /\ fd \notin ToSet(l.ready) /\ fd \notin ToSet(l.tmp)
        /\ Len(l.ready) \in Nat /\ Len(l.tmp) \in Nat
    BY <1>2 DEF ListsOK, Listed
  <2> DEFINE head == <<fd>> \o l.ready
  <2>2. /\ head \in Seq(Fds) /\ IsInjective(head)
        /\ ToSet(head) = ToSet(l.ready) \cup {fd}
        /\ Len(head) = Len(l.ready) + 1
    BY <2>1, InsertedHead DEF ListsOK
  <2>3. AddToReadyList(l, fd) = [ready |-> head, tmp |-> l.tmp, size |-> l.size + 1]
    BY <1>2 DEF AddToReadyList, ListsOK
  <2> HIDE DEF head
  <2>4. QED
    BY <2>1, <2>2, <2>3 DEF ListsOK, Listed
<1>3. QED
  BY <1>1, <1>2

\* RemoveFromReadyList takes the descriptor off whichever list it is on.
LEMMA RemovedFromList ==
  ASSUME NEW l, ListsOK(l), NEW fd \in Fds
  PROVE  /\ ListsOK(RemoveFromReadyList(l, fd))
         /\ Listed(RemoveFromReadyList(l, fd)) = Listed(l) \ {fd}
         /\ ToSet(RemoveFromReadyList(l, fd).tmp) = ToSet(l.tmp) \ {fd}
         /\ l.tmp = << >> => RemoveFromReadyList(l, fd).tmp = << >>
<1>1. CASE fd \notin Listed(l)
  BY <1>1 DEF RemoveFromReadyList, Listed
<1>2. CASE fd \in Listed(l)
  <2> DEFINE r == Unlinked(l.ready, fd)
             t == Unlinked(l.tmp, fd)
  <2>1. /\ l.ready \in Seq(Fds) /\ l.tmp \in Seq(Fds) /\ l.size \in Nat
        /\ Len(l.ready) \in Nat /\ Len(l.tmp) \in Nat
    BY DEF ListsOK
  <2>2. /\ r \in Seq(Fds) /\ IsInjective(r)
        /\ ToSet(r) = ToSet(l.ready) \ {fd}
        /\ Len(r) = IF fd \in ToSet(l.ready) THEN Len(l.ready) - 1 ELSE Len(l.ready)
    BY <2>1, UnlinkedList DEF ListsOK
  <2>3. /\ t \in Seq(Fds) /\ IsInjective(t)
        /\ ToSet(t) = ToSet(l.tmp) \ {fd}
        /\ Len(t) = IF fd \in ToSet(l.tmp) THEN Len(l.tmp) - 1 ELSE Len(l.tmp)
    BY <2>1, UnlinkedList DEF ListsOK
  <2>4. l.tmp = << >> => t = << >>
    BY DEF Unlinked, ToSet
  <2>5. RemoveFromReadyList(l, fd) = [ready |-> r, tmp |-> t, size |-> l.size - 1]
    BY <1>2 DEF RemoveFromReadyList
  <2> HIDE DEF r, t
  <2>6. Len(r) \in Nat /\ Len(t) \in Nat
    BY <2>2, <2>3
  <2>7. l.size - 1 \in Nat /\ l.size - 1 = Len(r) + Len(t)
    <3>1. l.size = Len(l.ready) + Len(l.tmp)
      BY DEF ListsOK
    <3>2. \/ fd \in ToSet(l.ready) /\ fd \notin ToSet(l.tmp)
          \/ fd \notin ToSet(l.ready) /\ fd \in ToSet(l.tmp)
      BY <1>2 DEF ListsOK, Listed
    <3> DEFINE a == Len(l.ready)
               b == Len(l.tmp)
               c == Len(r)
               d == Len(t)
               n == l.size
    <3>3. a \in Nat /\ b \in Nat /\ c \in Nat /\ d \in Nat /\ n \in Nat /\ n = a + b
      BY <2>1, <2>6, <3>1
    <3>4. CASE fd \in ToSet(l.ready) /\ fd \notin ToSet(l.tmp)
      <4>1. c = a - 1 /\ d = b
        BY <2>2, <2>3, <3>4
      <4> HIDE DEF a, b, c, d, n
      <4>2. n - 1 \in Nat /\ n - 1 = c + d
        BY <3>3, <4>1
      <4>3. QED
        BY <4>2 DEF n, c, d
    <3>5. CASE fd \notin ToSet(l.ready) /\ fd \in ToSet(l.tmp)
      <4>1. c = a /\ d = b - 1
        BY <2>2, <2>3, <3>5
      <4> HIDE DEF a, b, c, d, n
      <4>2. n - 1 \in Nat /\ n - 1 = c + d
        BY <3>3, <4>1
      <4>3. QED
        BY <4>2 DEF n, c, d
    <3>6. QED
      BY <3>2, <3>4, <3>5
  <2>8. ToSet(r) \cap ToSet(t) = {}
    BY <2>2, <2>3 DEF ListsOK
  <2>9. ListsOK([ready |-> r, tmp |-> t, size |-> l.size - 1])
    BY <2>2, <2>3, <2>7, <2>8 DEF ListsOK
  <2>10. QED
    BY <2>2, <2>3, <2>4, <2>5, <2>9 DEF Listed
<1>3. QED
  BY <1>1, <1>2

\* Swapping the two lists changes neither who is listed nor the size.
LEMMA SwappedLists ==
  ASSUME NEW l, ListsOK(l)
  PROVE  /\ ListsOK(Swapped(l))
         /\ Listed(Swapped(l)) = Listed(l)
         /\ l.tmp = << >> =>
              Swapped(l).ready = << >> /\ ToSet(Swapped(l).tmp) = Listed(l)
<1>1. Len(l.ready) \in Nat /\ Len(l.tmp) \in Nat
  BY DEF ListsOK
<1>2. ToSet(<< >>) = {}
  BY DEF ToSet
<1>3. QED
  BY <1>1, <1>2 DEF ListsOK, Listed, Swapped

-----------------------------------------------------------------------------
(* The calls of clients *)

\* Registration gives the descriptor a callback and touches no other node.
LEMMA RegisteredMap ==
  ASSUME TypeOK, NEW fd \in Fds, NEW cb \in Callbacks, NEW mask \in Masks
  PROVE  LET node == RegisteredNode(fd, cb, mask) IN
         /\ node \in Node
         /\ node.cb = cb /\ node.event_mask = mask
         /\ fd \in DOMAIN cb_map => node.in_use = cb_map[fd].in_use
         /\ fd \notin DOMAIN cb_map => ~ node.in_use
<1>1. mask \in SUBSET Events
  BY ReadyListAssumption
<1>2. CASE fd \in DOMAIN cb_map
  <2>1. cb_map[fd] \in Node
    BY <1>2 DEF TypeOK
  <2>2. QED
    BY <1>1, <1>2, <2>1 DEF RegisteredNode, Node
<1>3. CASE fd \notin DOMAIN cb_map
  BY <1>1, <1>3 DEF RegisteredNode, Node
<1>4. QED
  BY <1>2, <1>3

LEMMA RegisterFDInv ==
  ASSUME ReadyInv, NEW fd \in Fds, NEW cb \in Callbacks, NEW mask \in Masks,
         RegisterFD(fd, cb, mask)
  PROVE  ReadyInv'
<1> DEFINE node == RegisteredNode(fd, cb, mask)
<1>1. /\ node \in Node
      /\ node.cb = cb /\ node.event_mask = mask
      /\ fd \in DOMAIN cb_map => node.in_use = cb_map[fd].in_use
      /\ fd \notin DOMAIN cb_map => ~ node.in_use
  BY RegisteredMap DEF ReadyInv
<1> HIDE DEF node
<1>2. /\ DOMAIN cb_map' = DOMAIN cb_map \cup {fd}
      /\ cb_map'[fd] = node
      /\ \A f \in DOMAIN cb_map : f # fd => cb_map'[f] = cb_map[f]
  BY DEF RegisterFD, With, node
<1>3. UNCHANGED <<phase, running, reported>>
  BY DEF RegisterFD, roundVars
<1>4. cb \notin {NoCallback} /\ mask \in SUBSET Events
  BY ReadyListAssumption
<1>5. Registered' = Registered \cup {fd}
  BY <1>1, <1>2, <1>4 DEF Registered
<1>6. /\ DOMAIN interest' = DOMAIN interest \cup {fd}
      /\ interest'[fd] = mask
      /\ \A f \in DOMAIN interest : f # fd => interest'[f] = interest[f]
  <2>1. IsRegistered(fd) <=> fd \in DOMAIN interest
    BY DEF IsRegistered, ReadyInv, KernelAgrees
  <2>2. CASE fd \in DOMAIN interest
    BY <2>1, <2>2 DEF RegisterFD, ModFD
  <2>3. CASE fd \notin DOMAIN interest
    BY <2>1, <2>3 DEF RegisterFD, AddFD, With
  <2>4. QED
    BY <2>2, <2>3
<1>7. /\ ListsOK(lists')
      /\ Listed(lists') \subseteq Listed(lists)
      /\ Listed(lists) \ {fd} \subseteq Listed(lists')
      /\ ToSet(lists.tmp) \ {fd} \subseteq ToSet(lists.tmp')
      /\ lists.tmp = << >> => lists.tmp' = << >>
  <2>1. CASE IsRegistered(fd)
    BY <2>1, RemovedFromList DEF RegisterFD, ReadyInv
  <2>2. CASE ~ IsRegistered(fd)
    BY <2>2 DEF RegisterFD, ReadyInv
  <2>3. QED
    BY <2>1, <2>2
<1>8. owed' = [owed EXCEPT ![fd] = {}] /\ stale' \subseteq stale \cup {fd}
  BY DEF RegisterFD
<1>9. TypeOK'
  <2>1. DOMAIN cb_map' \subseteq Fds /\ \A f \in DOMAIN cb_map' : cb_map'[f] \in Node
    BY <1>1, <1>2 DEF ReadyInv, TypeOK
  <2>2. DOMAIN interest' \subseteq Fds /\ \A f \in DOMAIN interest' : interest'[f] \in SUBSET Events
    BY <1>4, <1>6 DEF ReadyInv, TypeOK
  <2>3. lists' \in [ready : Seq(Fds), tmp : Seq(Fds), size : Nat]
    BY <1>7 DEF ListsOK
  <2>4. owed' \in [Fds -> SUBSET Events] /\ stale' \subseteq Fds
    BY <1>8 DEF ReadyInv, TypeOK
  <2>5. QED
    BY <1>3, <2>1, <2>2, <2>3, <2>4 DEF ReadyInv, TypeOK
<1>10. phase' \in {"outside", "events"} => lists.tmp' = << >>
  BY <1>3, <1>7 DEF ReadyInv
<1>11. Listed(lists') \subseteq Registered'
  BY <1>5, <1>7 DEF ReadyInv
<1>12. NodeOutlivesOnEvent'
  BY <1>1, <1>2, <1>3, <1>4 DEF ReadyInv, NodeOutlivesOnEvent
<1>13. KernelAgrees'
  <2>1. DOMAIN interest' = Registered'
    BY <1>5, <1>6 DEF ReadyInv, KernelAgrees, Registered
  <2>2. \A f \in DOMAIN interest' : interest'[f] = cb_map'[f].event_mask
    BY <1>1, <1>2, <1>6 DEF ReadyInv, KernelAgrees
  <2>3. QED
    BY <2>1, <2>2 DEF KernelAgrees, Registered
<1>14. ASSUME NEW f \in Fds, owed'[f] # {} PROVE EdgeInRound(f)'
  <2>1. f # fd /\ owed'[f] = owed[f]
    BY <1>8, <1>14 DEF ReadyInv, TypeOK
  <2>2. EdgeInRound(f) /\ f \in Registered
    BY <1>14, <2>1 DEF ReadyInv, EdgeInRound
  <2>3. QED
    BY <1>2, <1>3, <1>7, <2>1, <2>2 DEF EdgeInRound, Registered
<1>15. QED
  BY <1>7, <1>9, <1>10, <1>11, <1>12, <1>13, <1>14 DEF ReadyInv

\* Unregistration takes the callback away, and the node too unless OnEvent uses
\* it.
LEMMA UnregisterFDInv ==
  ASSUME ReadyInv, NEW fd \in Fds, UnregisterFD(fd)
  PROVE  ReadyInv'
<1>1. fd \in DOMAIN cb_map /\ cb_map[fd] \in Node /\ cb_map[fd].cb # NoCallback
  BY DEF UnregisterFD, IsRegistered, ReadyInv, TypeOK
<1>2. UNCHANGED <<phase, running, reported>>
  BY DEF UnregisterFD, roundVars
<1>3. /\ \A f \in DOMAIN cb_map : f # fd => f \in DOMAIN cb_map' /\ cb_map'[f] = cb_map[f]
      /\ \/ cb_map[fd].in_use /\ DOMAIN cb_map' = DOMAIN cb_map
         \/ ~ cb_map[fd].in_use /\ DOMAIN cb_map' = DOMAIN cb_map \ {fd}
      /\ fd \in DOMAIN cb_map' =>
           /\ cb_map'[fd] \in Node
           /\ cb_map'[fd].cb = NoCallback
           /\ cb_map'[fd].in_use = cb_map[fd].in_use
  <2>1. CASE cb_map[fd].in_use
    <3>1. cb_map' = [cb_map EXCEPT ![fd] =
             [[[cb_map[fd] EXCEPT !.cb = NoCallback] EXCEPT !.event_mask = {}]
                EXCEPT !.events_to_fake = {}]]
      BY <1>1, <2>1 DEF UnregisterFD, Unregistered
    <3>2. QED
      BY <1>1, <2>1, <3>1 DEF Node
  <2>2. CASE ~ cb_map[fd].in_use
    BY <1>1, <2>2 DEF UnregisterFD, Unregistered, Without
  <2>3. QED
    BY <2>1, <2>2
<1>4. Registered' = Registered \ {fd}
  BY <1>1, <1>3 DEF Registered
<1>5. /\ DOMAIN interest' = DOMAIN interest \ {fd}
      /\ \A f \in DOMAIN interest' : interest'[f] = interest[f]
  BY DEF UnregisterFD, DelFD, Without
<1>6. /\ ListsOK(lists')
      /\ Listed(lists') = Listed(lists) \ {fd}
      /\ ToSet(lists.tmp') = ToSet(lists.tmp) \ {fd}
      /\ lists.tmp = << >> => lists.tmp' = << >>
  BY RemovedFromList DEF UnregisterFD, ReadyInv
<1>7. owed' = [owed EXCEPT ![fd] = {}] /\ stale' = stale \ {fd}
  BY DEF UnregisterFD
<1>8. TypeOK'
  <2>1. DOMAIN cb_map' \subseteq Fds /\ \A f \in DOMAIN cb_map' : cb_map'[f] \in Node
    BY <1>3 DEF ReadyInv, TypeOK
  <2>2. DOMAIN interest' \subseteq Fds /\ \A f \in DOMAIN interest' : interest'[f] \in SUBSET Events
    BY <1>5 DEF ReadyInv, TypeOK
  <2>3. lists' \in [ready : Seq(Fds), tmp : Seq(Fds), size : Nat]
    BY <1>6 DEF ListsOK
  <2>4. owed' \in [Fds -> SUBSET Events] /\ stale' \subseteq Fds
    BY <1>7 DEF ReadyInv, TypeOK
  <2>5. QED
    BY <1>2, <2>1, <2>2, <2>3, <2>4 DEF ReadyInv, TypeOK
<1>9. phase' \in {"outside", "events"} => lists.tmp' = << >>
  BY <1>2, <1>6 DEF ReadyInv
<1>10. Listed(lists') \subseteq Registered'
  BY <1>4, <1>6 DEF ReadyInv
<1>11. NodeOutlivesOnEvent'
  BY <1>1, <1>2, <1>3 DEF ReadyInv, NodeOutlivesOnEvent
<1>12. KernelAgrees'
  <2>1. DOMAIN interest' = Registered'
    BY <1>4, <1>5 DEF ReadyInv, KernelAgrees, Registered
  <2>2. \A f \in DOMAIN interest' : interest'[f] = cb_map'[f].event_mask
    BY <1>3, <1>5 DEF ReadyInv, KernelAgrees
  <2>3. QED
    BY <2>1, <2>2 DEF KernelAgrees, Registered
<1>13. ASSUME NEW f \in Fds, owed'[f] # {} PROVE EdgeInRound(f)'
  <2>1. f # fd /\ owed'[f] = owed[f]
    BY <1>7, <1>13 DEF ReadyInv, TypeOK
  <2>2. EdgeInRound(f) /\ f \in Registered
    BY <1>13, <2>1 DEF ReadyInv, EdgeInRound
  <2>3. QED
    BY <1>2, <1>3, <1>6, <2>1, <2>2 DEF EdgeInRound, Registered
<1>14. QED
  BY <1>6, <1>8, <1>9, <1>10, <1>11, <1>12, <1>13 DEF ReadyInv

\* The mask changes in cb_map_ and in the kernel alike.
LEMMA ModifyFDInv ==
  ASSUME ReadyInv, NEW fd \in Fds,
         NEW remove_event \in Masks \cup {{}}, NEW add_event \in Masks \cup {{}},
         ModifyFD(fd, remove_event, add_event)
  PROVE  ReadyInv'
<1> DEFINE mask == (cb_map[fd].event_mask \ remove_event) \cup add_event
<1>1. fd \in DOMAIN cb_map /\ cb_map[fd] \in Node /\ cb_map[fd].cb # NoCallback
  BY DEF ModifyFD, IsRegistered, ReadyInv, TypeOK
<1>2. mask \in SUBSET Events
  BY <1>1, ReadyListAssumption DEF Node
<1>3. /\ cb_map' = [cb_map EXCEPT ![fd].event_mask = mask]
      /\ interest' = [interest EXCEPT ![fd] = mask]
      /\ UNCHANGED <<lists, phase, running, reported, owed, stale>>
  BY DEF ModifyFD, ModFD, roundVars
<1> HIDE DEF mask
<1>4. /\ DOMAIN cb_map' = DOMAIN cb_map
      /\ cb_map'[fd] = [cb_map[fd] EXCEPT !.event_mask = mask]
      /\ \A f \in DOMAIN cb_map : f # fd => cb_map'[f] = cb_map[f]
  BY <1>1, <1>3
<1>5. /\ cb_map'[fd] \in Node
      /\ cb_map'[fd].event_mask = mask
      /\ cb_map'[fd].cb = cb_map[fd].cb
      /\ cb_map'[fd].in_use = cb_map[fd].in_use
      /\ cb_map'[fd].events_asserted = cb_map[fd].events_asserted
  BY <1>1, <1>2, <1>4 DEF Node
<1>6. Registered' = Registered
  BY <1>4, <1>5 DEF Registered
<1>7. fd \in DOMAIN interest
  BY <1>1 DEF ReadyInv, KernelAgrees
<1>8. /\ DOMAIN interest' = DOMAIN interest
      /\ interest'[fd] = mask
      /\ \A f \in DOMAIN interest : f # fd => interest'[f] = interest[f]
  BY <1>3, <1>7
<1>9. TypeOK'
  <2>1. DOMAIN cb_map' \subseteq Fds /\ \A f \in DOMAIN cb_map' : cb_map'[f] \in Node
    BY <1>4, <1>5 DEF ReadyInv, TypeOK
  <2>2. DOMAIN interest' \subseteq Fds /\ \A f \in DOMAIN interest' : interest'[f] \in SUBSET Events
    BY <1>2, <1>8 DEF ReadyInv, TypeOK
  <2>3. QED
    BY <1>3, <2>1, <2>2 DEF ReadyInv, TypeOK
<1>10. Listed(lists') \subseteq Registered'
  BY <1>3, <1>6 DEF ReadyInv
<1>11. NodeOutlivesOnEvent'
  BY <1>3, <1>4, <1>5 DEF ReadyInv, NodeOutlivesOnEvent
<1>12. KernelAgrees'
  BY <1>4, <1>5, <1>8 DEF ReadyInv, KernelAgrees
<1>13. ASSUME NEW f \in Fds, owed'[f] # {} PROVE EdgeInRound(f)'
  <2>1. EdgeInRound(f) /\ f \in DOMAIN cb_map
    BY <1>3, <1>13 DEF ReadyInv, EdgeInRound, Registered
  <2>2. cb_map'[f].events_asserted = cb_map[f].events_asserted
    BY <1>4, <1>5, <2>1
  <2>3. QED
    BY <1>3, <2>1, <2>2 DEF EdgeInRound
<1>14. QED
  BY <1>3, <1>9, <1>10, <1>11, <1>12, <1>13 DEF ReadyInv

\* What the calls that only touch the list and the masks of one node's events
\* preserve: registration, the kernel's copy and the use of nodes.
LEMMA EventsOfOneNode ==
  ASSUME ReadyInv, NEW fd \in DOMAIN cb_map,
         DOMAIN cb_map' = DOMAIN cb_map,
         \A f \in DOMAIN cb_map : f # fd => cb_map'[f] = cb_map[f],
         cb_map'[fd] \in Node,
         cb_map'[fd].cb = cb_map[fd].cb,
         cb_map'[fd].event_mask = cb_map[fd].event_mask,
         cb_map'[fd].in_use = cb_map[fd].in_use,
         UNCHANGED <<interest, phase, running>>
  PROVE  /\ DOMAIN cb_map' \subseteq Fds
         /\ \A f \in DOMAIN cb_map' : cb_map'[f] \in Node
         /\ Registered' = Registered
         /\ NodeOutlivesOnEvent'
         /\ KernelAgrees'
<1>1. DOMAIN cb_map' \subseteq Fds /\ \A f \in DOMAIN cb_map' : cb_map'[f] \in Node
  BY DEF ReadyInv, TypeOK
<1>2. Registered' = Registered
  BY DEF Registered
<1>3. NodeOutlivesOnEvent'
  BY DEF ReadyInv, NodeOutlivesOnEvent
<1>4. KernelAgrees'
  BY DEF ReadyInv, KernelAgrees
<1>5. QED
  BY <1>1, <1>2, <1>3, <1>4

\* A client makes a descriptor ready: nothing that is owed changes.
LEMMA SetFDReadyInv ==
  ASSUME ReadyInv, NEW fd \in Fds, NEW mask \in Masks, SetFDReady(fd, mask)
  PROVE  ReadyInv'
<1>1. fd \in DOMAIN cb_map /\ cb_map[fd] \in Node /\ fd \in Registered
  BY DEF SetFDReady, IsRegistered, ReadyInv, TypeOK, Registered
<1>2. mask \in SUBSET Events
  BY ReadyListAssumption
<1>3. /\ cb_map' = [cb_map EXCEPT ![fd].events_to_fake = mask]
      /\ lists' = AddToReadyList(lists, fd)
      /\ UNCHANGED <<interest, phase, running, reported, owed, stale>>
  BY DEF SetFDReady, roundVars
<1>4. /\ DOMAIN cb_map' = DOMAIN cb_map
      /\ cb_map'[fd] = [cb_map[fd] EXCEPT !.events_to_fake = mask]
      /\ \A f \in DOMAIN cb_map : f # fd => cb_map'[f] = cb_map[f]
  BY <1>1, <1>3
<1>5. /\ cb_map'[fd] \in Node
      /\ cb_map'[fd].cb = cb_map[fd].cb
      /\ cb_map'[fd].event_mask = cb_map[fd].event_mask
      /\ cb_map'[fd].in_use = cb_map[fd].in_use
      /\ cb_map'[fd].events_asserted = cb_map[fd].events_asserted
  BY <1>1, <1>2, <1>4 DEF Node
<1>6. /\ DOMAIN cb_map' \subseteq Fds
      /\ \A f \in DOMAIN cb_map' : cb_map'[f] \in Node
      /\ Registered' = Registered
      /\ NodeOutlivesOnEvent'
      /\ KernelAgrees'
  BY <1>1, <1>3, <1>4, <1>5, EventsOfOneNode
<1>7. /\ ListsOK(lists')
      /\ Listed(lists') = Listed(lists) \cup {fd}
      /\ lists.tmp' = lists.tmp
  BY <1>3, AddedToList DEF ReadyInv
<1>8. TypeOK'
  BY <1>3, <1>6, <1>7 DEF ReadyInv, TypeOK, ListsOK
<1>9. Listed(lists') \subseteq Registered'
  BY <1>1, <1>6, <1>7 DEF ReadyInv
<1>10. ASSUME NEW f \in Fds, owed'[f] # {} PROVE EdgeInRound(f)'
  <2>1. EdgeInRound(f) /\ f \in DOMAIN cb_map
    BY <1>3, <1>10 DEF ReadyInv, EdgeInRound, Registered
  <2>2. cb_map'[f].events_asserted = cb_map[f].events_asserted
    BY <1>4, <1>5, <2>1
  <2>3. QED
    BY <1>3, <1>7, <2>1, <2>2 DEF EdgeInRound
<1>11. QED
  BY <1>3, <1>6, <1>7, <1>8, <1>9, <1>10 DEF ReadyInv

\* A client takes back what was asserted: nothing is owed for it.
LEMMA SetFDNotReadyInv ==
  ASSUME ReadyInv, NEW fd \in Fds, SetFDNotReady(fd)
  PROVE  ReadyInv'
<1>1. /\ lists' = RemoveFromReadyList(lists, fd)
      /\ owed' = [owed EXCEPT ![fd] = {}]
      /\ UNCHANGED <<cb_map, interest, phase, running, reported, stale>>
  BY DEF SetFDNotReady, roundVars
<1>2. /\ ListsOK(lists')
      /\ Listed(lists') = Listed(lists) \ {fd}
      /\ ToSet(lists.tmp') = ToSet(lists.tmp) \ {fd}
      /\ lists.tmp = << >> => lists.tmp' = << >>
  BY <1>1, RemovedFromList DEF ReadyInv
<1>3. TypeOK'
  BY <1>1, <1>2 DEF ReadyInv, TypeOK, ListsOK
<1>4. Listed(lists') \subseteq Registered'
  BY <1>1, <1>2 DEF ReadyInv, Registered
<1>5. NodeOutlivesOnEvent' /\ KernelAgrees'
  BY <1>1 DEF ReadyInv, NodeOutlivesOnEvent, KernelAgrees
<1>6. ASSUME NEW f \in Fds, owed'[f] # {} PROVE EdgeInRound(f)'
  <2>1. f # fd /\ owed'[f] = owed[f]
    BY <1>1, <1>6 DEF ReadyInv, TypeOK
  <2>2. EdgeInRound(f)
    BY <1>6, <2>1 DEF ReadyInv
  <2>3. QED
    BY <1>1, <1>2, <2>1, <2>2 DEF EdgeInRound
<1>7. QED
  BY <1>1, <1>2, <1>3, <1>4, <1>5, <1>6 DEF ReadyInv

\* HandleEvent replaces the mask of one registered descriptor and lists it.
LEMMA HandledEvent ==
  ASSUME ReadyInv, NEW fd \in Fds, NEW event_mask \in SUBSET Events,
         HandleEvent(fd, event_mask),
         UNCHANGED <<interest, phase, running>>
  PROVE  /\ DOMAIN cb_map' \subseteq Fds
         /\ \A f \in DOMAIN cb_map' : cb_map'[f] \in Node
         /\ ListsOK(lists')
         /\ Listed(lists') = Listed(lists) \cup {fd}
         /\ lists.tmp' = lists.tmp
         /\ Listed(lists') \subseteq Registered'
         /\ NodeOutlivesOnEvent'
         /\ KernelAgrees'
         /\ stale' \subseteq Fds
         /\ cb_map'[fd].events_asserted = event_mask
         /\ \A f \in DOMAIN cb_map : f # fd => cb_map'[f] = cb_map[f]
<1>1. fd \in DOMAIN cb_map /\ cb_map[fd] \in Node /\ fd \in Registered
  BY DEF HandleEvent, IsRegistered, ReadyInv, TypeOK, Registered
<1>2. /\ DOMAIN cb_map' = DOMAIN cb_map
      /\ cb_map'[fd] = [cb_map[fd] EXCEPT !.events_asserted = event_mask]
      /\ \A f \in DOMAIN cb_map : f # fd => cb_map'[f] = cb_map[f]
  BY <1>1 DEF HandleEvent
<1>3. /\ cb_map'[fd] \in Node
      /\ cb_map'[fd].cb = cb_map[fd].cb
      /\ cb_map'[fd].event_mask = cb_map[fd].event_mask
      /\ cb_map'[fd].in_use = cb_map[fd].in_use
      /\ cb_map'[fd].events_asserted = event_mask
  BY <1>1, <1>2 DEF Node
<1>4. /\ DOMAIN cb_map' \subseteq Fds
      /\ \A f \in DOMAIN cb_map' : cb_map'[f] \in Node
      /\ Registered' = Registered
      /\ NodeOutlivesOnEvent'
      /\ KernelAgrees'
  BY <1>1, <1>2, <1>3, EventsOfOneNode
<1>5. /\ ListsOK(lists')
      /\ Listed(lists') = Listed(lists) \cup {fd}
      /\ lists.tmp' = lists.tmp
  BY AddedToList DEF HandleEvent, ReadyInv
<1>6. Listed(lists') \subseteq Registered'
  BY <1>1, <1>4, <1>5 DEF ReadyInv
<1>7. stale' \subseteq Fds
  BY DEF HandleEvent, ReadyInv, TypeOK
<1>8. QED
  BY <1>2, <1>3, <1>4, <1>5, <1>6, <1>7

\* An event that a client fakes takes the place of what the kernel reported.
LEMMA FakeEventInv ==
  ASSUME ReadyInv, NEW fd \in Fds, NEW mask \in Masks, FakeEvent(fd, mask)
  PROVE  ReadyInv'
<1>1. /\ HandleEvent(fd, mask)
      /\ owed' = [owed EXCEPT ![fd] = {}]
      /\ UNCHANGED <<interest, phase, running, reported>>
  BY DEF FakeEvent, roundVars
<1>2. mask \in SUBSET Events
  BY ReadyListAssumption
<1>3. /\ DOMAIN cb_map' \subseteq Fds
      /\ \A f \in DOMAIN cb_map' : cb_map'[f] \in Node
      /\ ListsOK(lists')
      /\ Listed(lists') = Listed(lists) \cup {fd}
      /\ lists.tmp' = lists.tmp
      /\ Listed(lists') \subseteq Registered'
      /\ NodeOutlivesOnEvent'
      /\ KernelAgrees'
      /\ stale' \subseteq Fds
      /\ \A f \in DOMAIN cb_map : f # fd => cb_map'[f] = cb_map[f]
  BY <1>1, <1>2, HandledEvent
<1>4. TypeOK'
  BY <1>1, <1>3 DEF ReadyInv, TypeOK, ListsOK
<1>5. ASSUME NEW f \in Fds, owed'[f] # {} PROVE EdgeInRound(f)'
  <2>1. f # fd /\ owed'[f] = owed[f]
    BY <1>1, <1>5 DEF ReadyInv, TypeOK
  <2>2. EdgeInRound(f) /\ f \in DOMAIN cb_map
    BY <1>5, <2>1 DEF ReadyInv, EdgeInRound, Registered
  <2>3. QED
    BY <1>1, <1>3, <2>1, <2>2 DEF EdgeInRound
<1>6. QED
  BY <1>1, <1>3, <1>4, <1>5 DEF ReadyInv

-----------------------------------------------------------------------------
(* A round *)

\* epoll_wait reports a descriptor once a round, so its mask replaces none that
\* is owed.
LEMMA EpollReportsInv ==
  ASSUME ReadyInv, NEW fd \in Fds, NEW event_mask \in SUBSET Events,
         EpollReports(fd, event_mask)
  PROVE  ReadyInv'
<1>1. /\ phase = "events" /\ fd \notin reported
      /\ HandleEvent(fd, event_mask)
      /\ reported' = reported \cup {fd}
      /\ owed' = [owed EXCEPT ![fd] = owed[fd] \cup event_mask]
      /\ UNCHANGED <<interest, phase, running>>
  BY DEF EpollReports
<1>2. /\ DOMAIN cb_map' \subseteq Fds
      /\ \A f \in DOMAIN cb_map' : cb_map'[f] \in Node
      /\ ListsOK(lists')
      /\ Listed(lists') = Listed(lists) \cup {fd}
      /\ lists.tmp' = lists.tmp
      /\ Listed(lists') \subseteq Registered'
      /\ NodeOutlivesOnEvent'
      /\ KernelAgrees'
      /\ stale' \subseteq Fds
      /\ cb_map'[fd].events_asserted = event_mask
      /\ \A f \in DOMAIN cb_map : f # fd => cb_map'[f] = cb_map[f]
  BY <1>1, HandledEvent
<1>3. owed \in [Fds -> SUBSET Events] /\ owed[fd] = {}
  BY <1>1 DEF ReadyInv, TypeOK, EdgeInRound
<1>4. /\ owed' \in [Fds -> SUBSET Events]
      /\ owed'[fd] = event_mask
      /\ \A f \in Fds : f # fd => owed'[f] = owed[f]
  BY <1>1, <1>3
<1>5. reported' \subseteq Fds
  BY <1>1 DEF ReadyInv, TypeOK
<1>6. TypeOK'
  BY <1>1, <1>2, <1>4, <1>5 DEF ReadyInv, TypeOK, ListsOK
<1>7. ASSUME NEW f \in Fds, owed'[f] # {} PROVE EdgeInRound(f)'
  <2>1. CASE f = fd
    BY <1>1, <1>2, <1>4, <2>1 DEF EdgeInRound
  <2>2. CASE f # fd
    <3>1. EdgeInRound(f) /\ f \in DOMAIN cb_map
      BY <1>4, <1>7, <2>2 DEF ReadyInv, EdgeInRound, Registered
    <3>2. QED
      BY <1>1, <1>2, <1>4, <2>2, <3>1 DEF EdgeInRound
  <2>3. QED
    BY <2>1, <2>2
<1>8. QED
  BY <1>1, <1>2, <1>6, <1>7 DEF ReadyInv

\* The steps between the parts of a round: when a round begins nothing is owed,
\* and it ends only when nothing is.
LEMMA RoundTurnsInv ==
  ASSUME ReadyInv, EpollWait \/ SwapLists \/ RoundEnds
  PROVE  ReadyInv'
<1>1. CASE EpollWait
  <2>1. /\ phase = "outside" /\ phase' = "events"
        /\ UNCHANGED <<cb_map, interest, lists, running, reported, owed, stale>>
    BY <1>1 DEF EpollWait
  <2>2. TypeOK'
    BY <2>1 DEF ReadyInv, TypeOK, Phases
  <2>3. \A f \in Fds : owed'[f] = {}
    BY <2>1 DEF ReadyInv, EdgeInRound
  <2>4. QED
    BY <2>1, <2>2, <2>3 DEF ReadyInv, Registered, NodeOutlivesOnEvent, KernelAgrees
<1>2. CASE SwapLists
  <2>1. /\ phase = "events" /\ phase' = "serving"
        /\ lists' = Swapped(lists)
        /\ reported' = {}
        /\ UNCHANGED <<cb_map, interest, running, owed, stale>>
    BY <1>2 DEF SwapLists
  <2>2. /\ ListsOK(lists')
        /\ Listed(lists') = Listed(lists)
        /\ ToSet(lists.tmp') = Listed(lists)
    BY <2>1, SwappedLists DEF ReadyInv
  <2>3. TypeOK'
    BY <2>1, <2>2 DEF ReadyInv, TypeOK, ListsOK, Phases
  <2>4. ASSUME NEW f \in Fds, owed'[f] # {} PROVE EdgeInRound(f)'
    BY <2>1, <2>2, <2>4 DEF ReadyInv, EdgeInRound
  <2>5. NodeOutlivesOnEvent' /\ KernelAgrees'
    BY <2>1 DEF ReadyInv, NodeOutlivesOnEvent, KernelAgrees
  <2>6. Listed(lists') \subseteq Registered'
    BY <2>1, <2>2 DEF ReadyInv, Registered
  <2>7. QED
    BY <2>1, <2>2, <2>3, <2>4, <2>5, <2>6 DEF ReadyInv
<1>3. CASE RoundEnds
  <2>1. /\ phase = "serving" /\ phase' = "outside" /\ lists.tmp = << >>
        /\ UNCHANGED <<cb_map, interest, lists, running, reported, owed, stale>>
    BY <1>3 DEF RoundEnds
  <2>2. TypeOK'
    BY <2>1 DEF ReadyInv, TypeOK, Phases
  <2>3. \A f \in Fds : owed'[f] = {}
    BY <2>1 DEF ReadyInv, EdgeInRound, ToSet
  <2>4. QED
    BY <2>1, <2>2, <2>3 DEF ReadyInv, Registered, NodeOutlivesOnEvent, KernelAgrees
<1>4. QED
  BY <1>1, <1>2, <1>3

\* OnEvent is told what is owed to the descriptor at the head; its node is in
\* use from then on.
LEMMA CallOnEventInv ==
  ASSUME ReadyInv, CallOnEvent
  PROVE  ReadyInv'
<1> DEFINE fd == Head(lists.tmp)
<1>1. /\ phase = "serving" /\ phase' = "on_event" /\ lists.tmp # << >>
      /\ lists' = RemoveFromReadyList(lists, fd)
      /\ cb_map' = Taken(fd)
      /\ running' = fd
      /\ owed' = [owed EXCEPT ![fd] = {}]
      /\ stale' = stale \ {fd}
      /\ UNCHANGED <<interest, reported>>
  BY DEF CallOnEvent
<1>2. fd \in Fds /\ fd \in Listed(lists)
  <2>1. lists.tmp \in Seq(Fds)
    BY DEF ReadyInv, TypeOK
  <2>2. fd \in Fds /\ 1 \in DOMAIN lists.tmp /\ fd = lists.tmp[1]
    BY <1>1, <2>1
  <2>3. QED
    BY <2>2 DEF Listed, ToSet
<1> HIDE DEF fd
<1>3. fd \in DOMAIN cb_map /\ cb_map[fd] \in Node /\ cb_map[fd].cb # NoCallback
  BY <1>2 DEF ReadyInv, Registered, TypeOK
<1>4. /\ DOMAIN cb_map' = DOMAIN cb_map
      /\ cb_map'[fd] = [[[cb_map[fd] EXCEPT !.events_asserted = {}]
                           EXCEPT !.events_to_fake = {}] EXCEPT !.in_use = TRUE]
      /\ \A f \in DOMAIN cb_map : f # fd => cb_map'[f] = cb_map[f]
  BY <1>1, <1>3 DEF Taken
<1>5. /\ cb_map'[fd] \in Node
      /\ cb_map'[fd].cb = cb_map[fd].cb
      /\ cb_map'[fd].event_mask = cb_map[fd].event_mask
      /\ cb_map'[fd].in_use
  BY <1>3, <1>4 DEF Node
<1>6. Registered' = Registered
  BY <1>4, <1>5 DEF Registered
<1>7. /\ ListsOK(lists')
      /\ Listed(lists') = Listed(lists) \ {fd}
      /\ ToSet(lists.tmp') = ToSet(lists.tmp) \ {fd}
  BY <1>1, <1>2, RemovedFromList DEF ReadyInv
<1>8. TypeOK'
  <2>1. DOMAIN cb_map' \subseteq Fds /\ \A f \in DOMAIN cb_map' : cb_map'[f] \in Node
    BY <1>4, <1>5 DEF ReadyInv, TypeOK
  <2>2. owed' \in [Fds -> SUBSET Events] /\ stale' \subseteq Fds
    BY <1>1 DEF ReadyInv, TypeOK
  <2>3. QED
    BY <1>1, <1>2, <1>7, <2>1, <2>2 DEF ReadyInv, TypeOK, ListsOK, Phases
<1>9. Listed(lists') \subseteq Registered'
  BY <1>6, <1>7 DEF ReadyInv
<1>10. NodeOutlivesOnEvent'
  <2>1. running' \in DOMAIN cb_map'
    BY <1>1, <1>3, <1>4
  <2>2. ASSUME NEW f \in DOMAIN cb_map'
        PROVE  /\ cb_map'[f].in_use <=> f = fd
               /\ cb_map'[f].cb = NoCallback => cb_map'[f].in_use
    <3>1. CASE f = fd
      BY <1>3, <1>5, <3>1
    <3>2. CASE f # fd
      BY <1>1, <1>4, <3>2 DEF ReadyInv, NodeOutlivesOnEvent
    <3>3. QED
      BY <3>1, <3>2
  <2>3. QED
    BY <1>1, <2>1, <2>2 DEF NodeOutlivesOnEvent
<1>11. KernelAgrees'
  <2>1. DOMAIN interest' = Registered'
    BY <1>1, <1>6 DEF ReadyInv, KernelAgrees, Registered
  <2>2. \A f \in DOMAIN interest' : interest'[f] = cb_map'[f].event_mask
    BY <1>1, <1>4, <1>5 DEF ReadyInv, KernelAgrees
  <2>3. QED
    BY <2>1, <2>2 DEF KernelAgrees, Registered
<1>12. ASSUME NEW f \in Fds, owed'[f] # {} PROVE EdgeInRound(f)'
  <2>1. f # fd /\ owed'[f] = owed[f]
    BY <1>1, <1>12 DEF ReadyInv, TypeOK
  <2>2. EdgeInRound(f) /\ f \in DOMAIN cb_map
    BY <1>12, <2>1 DEF ReadyInv, EdgeInRound, Registered
  <2>3. QED
    BY <1>1, <1>4, <1>7, <2>1, <2>2 DEF EdgeInRound
<1>13. QED
  BY <1>1, <1>7, <1>8, <1>9, <1>10, <1>11, <1>12 DEF ReadyInv

\* OnEvent returns: a node that lost its callback goes, and one that asked for
\* more is listed again.
LEMMA OnEventReturnsInv ==
  ASSUME ReadyInv, NEW mask \in Masks \cup {{}}, OnEventReturns(mask)
  PROVE  ReadyInv'
<1> DEFINE fd == running
<1>1. /\ phase = "on_event" /\ phase' = "serving" /\ running' = NoFd
      /\ cb_map' = AfterOnEvent(fd, mask)
      /\ lists' = IF IsRegistered(fd) /\ mask # {}
                  THEN AddToReadyList(lists, fd) ELSE lists
      /\ UNCHANGED <<interest, reported, owed, stale>>
  BY DEF OnEventReturns
<1>2. fd \in Fds /\ fd \in DOMAIN cb_map /\ cb_map[fd] \in Node
  BY <1>1 DEF ReadyInv, NodeOutlivesOnEvent, TypeOK
<1> HIDE DEF fd
<1>3. mask \in SUBSET Events
  BY ReadyListAssumption
<1>4. /\ \A f \in DOMAIN cb_map : f # fd => f \in DOMAIN cb_map' /\ cb_map'[f] = cb_map[f]
      /\ fd \in DOMAIN cb_map' <=> cb_map[fd].cb # NoCallback
      /\ DOMAIN cb_map' \subseteq DOMAIN cb_map
      /\ fd \in DOMAIN cb_map' =>
           /\ cb_map'[fd] \in Node
           /\ cb_map'[fd].cb = cb_map[fd].cb
           /\ cb_map'[fd].event_mask = cb_map[fd].event_mask
           /\ cb_map'[fd].events_asserted = cb_map[fd].events_asserted
           /\ ~ cb_map'[fd].in_use
  <2> DEFINE node == [cb_map[fd] EXCEPT !.in_use = FALSE]
  <2>1. /\ node \in Node /\ node.cb = cb_map[fd].cb /\ ~ node.in_use
        /\ node.event_mask = cb_map[fd].event_mask
        /\ node.events_asserted = cb_map[fd].events_asserted
    BY <1>2 DEF Node
  <2>2. cb_map' = IF node.cb = NoCallback THEN Without(cb_map, fd)
                  ELSE IF mask # {}
                       THEN [cb_map EXCEPT ![fd] = [node EXCEPT !.events_to_fake = mask]]
                       ELSE [cb_map EXCEPT ![fd] = node]
    BY <1>1 DEF AfterOnEvent
  <2> HIDE DEF node
  <2>3. CASE node.cb = NoCallback
    BY <1>2, <2>1, <2>2, <2>3 DEF Without
  <2>4. CASE node.cb # NoCallback /\ mask # {}
    <3>1. cb_map' = [cb_map EXCEPT ![fd] = [node EXCEPT !.events_to_fake = mask]]
      BY <2>2, <2>4
    <3>2. QED
      BY <1>2, <1>3, <2>1, <2>4, <3>1 DEF Node
  <2>5. CASE node.cb # NoCallback /\ mask = {}
    BY <1>2, <2>1, <2>2, <2>5
  <2>6. QED
    BY <2>3, <2>4, <2>5
<1>5. Registered' = Registered
  BY <1>2, <1>4 DEF Registered
<1>6. /\ ListsOK(lists')
      /\ Listed(lists) \subseteq Listed(lists')
      /\ Listed(lists') \subseteq Registered
      /\ lists.tmp' = lists.tmp
  <2>1. CASE IsRegistered(fd) /\ mask # {}
    BY <1>1, <1>2, <2>1, AddedToList DEF ReadyInv, IsRegistered, Registered
  <2>2. CASE ~ (IsRegistered(fd) /\ mask # {})
    BY <1>1, <2>2 DEF ReadyInv
  <2>3. QED
    BY <2>1, <2>2
<1>7. TypeOK'
  <2>1. DOMAIN cb_map' \subseteq Fds /\ \A f \in DOMAIN cb_map' : cb_map'[f] \in Node
    BY <1>4 DEF ReadyInv, TypeOK
  <2>2. QED
    BY <1>1, <1>6, <2>1 DEF ReadyInv, TypeOK, ListsOK, Phases
<1>8. NodeOutlivesOnEvent'
  BY <1>1, <1>2, <1>4 DEF ReadyInv, NodeOutlivesOnEvent, fd
<1>9. KernelAgrees'
  <2>1. DOMAIN interest' = Registered'
    BY <1>1, <1>5 DEF ReadyInv, KernelAgrees, Registered
  <2>2. \A f \in DOMAIN interest' : interest'[f] = cb_map'[f].event_mask
    BY <1>1, <1>4 DEF ReadyInv, KernelAgrees
  <2>3. QED
    BY <2>1, <2>2 DEF KernelAgrees, Registered
<1>10. ASSUME NEW f \in Fds, owed'[f] # {} PROVE EdgeInRound(f)'
  <2>1. EdgeInRound(f) /\ f \in DOMAIN cb_map /\ cb_map[f].cb # NoCallback
    BY <1>1, <1>10 DEF ReadyInv, EdgeInRound, Registered
  <2>2. cb_map'[f].events_asserted = cb_map[f].events_asserted
    BY <1>4, <2>1
  <2>3. QED
    BY <1>1, <1>6, <2>1, <2>2 DEF EdgeInRound
<1>11. QED
  BY <1>1, <1>5, <1>6, <1>7, <1>8, <1>9, <1>10 DEF ReadyInv

-----------------------------------------------------------------------------
\* Initially no descriptor is registered.
LEMMA ReadyInitInv == Init => ReadyInv
<1> SUFFICES ASSUME Init PROVE ReadyInv
  OBVIOUS
<1>1. /\ cb_map = << >> /\ interest = << >> /\ phase = "outside" /\ running = NoFd
      /\ lists = [ready |-> << >>, tmp |-> << >>, size |-> 0]
      /\ reported = {} /\ stale = {} /\ owed = [fd \in Fds |-> {}]
  BY DEF Init
<1>2. DOMAIN << >> = {} /\ << >> \in Seq(Fds) /\ Len(<< >>) = 0 /\ 0 \in Nat
  OBVIOUS
<1>3. ToSet(<< >>) = {} /\ IsInjective(<< >>)
  BY <1>2 DEF ToSet, IsInjective
<1>4. ListsOK(lists) /\ Listed(lists) = {}
  BY <1>1, <1>2, <1>3 DEF ListsOK, Listed
<1>5. owed \in [Fds -> SUBSET Events]
  BY <1>1
<1>6. TypeOK
  BY <1>1, <1>2, <1>4, <1>5 DEF TypeOK, ListsOK, Phases
<1>7. NodeOutlivesOnEvent /\ KernelAgrees
  BY <1>1, <1>2 DEF NodeOutlivesOnEvent, KernelAgrees
<1>8. QED
  BY <1>1, <1>4, <1>6, <1>7 DEF ReadyInv

LEMMA ReadyNextInv == ReadyInv /\ [Next]_vars => ReadyInv'
<1> SUFFICES ASSUME ReadyInv, [Next]_vars PROVE ReadyInv'
  OBVIOUS
<1>1. CASE UNCHANGED vars
  BY <1>1 DEF vars, ReadyInv, TypeOK, Registered, NodeOutlivesOnEvent,
              KernelAgrees, EdgeInRound
<1>2. CASE ClientCalls
  BY <1>2, RegisterFDInv, UnregisterFDInv, ModifyFDInv, SetFDReadyInv,
     SetFDNotReadyInv, FakeEventInv
  DEF ClientCalls
<1>3. CASE Round
  BY <1>3, RoundTurnsInv, CallOnEventInv, OnEventReturnsInv DEF Round
<1>4. CASE \E fd \in Fds, mask \in SUBSET Events : EpollReports(fd, mask)
  BY <1>4, EpollReportsInv
<1>5. QED
  BY <1>1, <1>2, <1>3, <1>4 DEF Next

\* The invariant holds in every state, whatever clients call from inside and
\* outside of callbacks.
THEOREM ReadyListInvariant == Spec => []ReadyInv
<1>1. Init => ReadyInv
  BY ReadyInitInv
<1>2. ReadyInv /\ [Next]_vars => ReadyInv'
  BY ReadyNextInv
<1>3. QED
  BY <1>1, <1>2, PTL DEF Spec

\* Type correctness of the descriptors' side of EpollServer: in particular
\* ready_list_size_ never drops below zero.
THEOREM ReadyListTypeCorrect == Spec => []TypeOK
<1>1. ReadyInv => TypeOK
  BY DEF ReadyInv
<1>2. QED
  BY <1>1, ReadyListInvariant, PTL

\* VerifyReadyList never fails, and CallReadyListCallbacks finds a callback in
\* every node, for any number of descriptors.
THEOREM ReadyListIsVerified == Spec => []ReadyListVerified
<1>1. ReadyInv => ReadyListVerified
  <2> SUFFICES ASSUME ReadyInv PROVE ReadyListVerified
    OBVIOUS
  <2>1. lists.size = Cardinality(Listed(lists))
    BY ListedSize DEF ReadyInv
  <2>2. lists.size = Len(lists.ready) + Len(lists.tmp)
    BY DEF ReadyInv, ListsOK
  <2>3. \A fd \in Listed(lists) : IsRegistered(fd)
    BY DEF ReadyInv, Registered, IsRegistered
  <2>4. QED
    BY <2>1, <2>2, <2>3 DEF ReadyInv, ReadyListVerified
<1>2. QED
  BY <1>1, ReadyListInvariant, PTL

\* No node is freed while OnEvent uses it, and none without a callback is left
\* behind.
THEOREM ReadyListNodeOutlivesOnEvent == Spec => []NodeOutlivesOnEvent
<1>1. ReadyInv => NodeOutlivesOnEvent
  BY DEF ReadyInv
<1>2. QED
  BY <1>1, ReadyListInvariant, PTL

\* No epoll_ctl fails, and none is left out.
THEOREM ReadyListKernelAgrees == Spec => []KernelAgrees
<1>1. ReadyInv => KernelAgrees
  BY DEF ReadyInv
<1>2. QED
  BY <1>1, ReadyListInvariant, PTL

\* No edge that epoll_wait reported is lost on its way to OnEvent.
THEOREM ReadyListNoEdgeIsLost == Spec => []NoEdgeIsLost
<1>1. ReadyInv => NoEdgeIsLost
  BY DEF ReadyInv, EdgeInRound, NoEdgeIsLost
<1>2. QED
  BY <1>1, ReadyListInvariant, PTL

\* While a round is being served its list only gets shorter, by the descriptor
\* whose callback runs or one that a client takes off.
RoundShrinks ==
  phase \in {"serving", "on_event"} =>
    /\ ToSet(lists.tmp') \subseteq ToSet(lists.tmp)
    /\ running' \notin {running, NoFd} =>
         running' \in ToSet(lists.tmp) \ ToSet(lists.tmp')

LEMMA RoundStepShrinks == ReadyInv /\ [Next]_vars => RoundShrinks
<1> SUFFICES ASSUME ReadyInv, [Next]_vars, phase \in {"serving", "on_event"}
             PROVE  /\ ToSet(lists.tmp') \subseteq ToSet(lists.tmp)
                    /\ running' \notin {running, NoFd} =>
                         running' \in ToSet(lists.tmp) \ ToSet(lists.tmp')
  BY DEF RoundShrinks
<1>1. ListsOK(lists)
  BY DEF ReadyInv
<1>2. ASSUME NEW fd \in Fds,
             \/ lists' = lists
             \/ lists' = AddToReadyList(lists, fd)
             \/ lists' = RemoveFromReadyList(lists, fd)
      PROVE  ToSet(lists.tmp') \subseteq ToSet(lists.tmp)
  <2>1. CASE lists' = lists
    BY <2>1
  <2>2. CASE lists' = AddToReadyList(lists, fd)
    <3>1. AddToReadyList(lists, fd).tmp = lists.tmp
      BY <1>1, AddedToList
    <3>2. QED
      BY <2>2, <3>1
  <2>3. CASE lists' = RemoveFromReadyList(lists, fd)
    <3>1. ToSet(RemoveFromReadyList(lists, fd).tmp) = ToSet(lists.tmp) \ {fd}
      BY <1>1, RemovedFromList
    <3>2. QED
      BY <2>3, <3>1
  <2>4. QED
    BY <1>2, <2>1, <2>2, <2>3
<1>3. CASE ClientCalls
  <2>1. running' = running
    BY <1>3 DEF ClientCalls, RegisterFD, UnregisterFD, ModifyFD, SetFDReady, SetFDNotReady,
                FakeEvent, roundVars
  <2>2. PICK fd \in Fds :
          \/ \E cb \in Callbacks, mask \in Masks : RegisterFD(fd, cb, mask)
          \/ UnregisterFD(fd)
          \/ \E remove_event, add_event \in Masks \cup {{}} :
               ModifyFD(fd, remove_event, add_event)
          \/ \E mask \in Masks : SetFDReady(fd, mask)
          \/ SetFDNotReady(fd)
          \/ \E mask \in Masks : FakeEvent(fd, mask)
    BY <1>3 DEF ClientCalls
  <2>3. \/ lists' = lists
        \/ lists' = AddToReadyList(lists, fd)
        \/ lists' = RemoveFromReadyList(lists, fd)
    BY <2>2 DEF RegisterFD, UnregisterFD, ModifyFD, SetFDReady, SetFDNotReady, FakeEvent,
                HandleEvent
  <2>4. QED
    BY <1>2, <2>1, <2>3
<1>4. CASE CallOnEvent
  <2> DEFINE fd == Head(lists.tmp)
  <2>1. /\ lists.tmp # << >> /\ lists' = RemoveFromReadyList(lists, fd) /\ running' = fd
    BY <1>4 DEF CallOnEvent
  <2>2. lists.tmp \in Seq(Fds)
    BY <1>1 DEF ListsOK
  <2>3. fd \in ToSet(lists.tmp) /\ fd \in Fds
    <3>1. 1 \in DOMAIN lists.tmp /\ fd = lists.tmp[1]
      BY <2>1, <2>2
    <3>2. QED
      BY <2>2, <3>1 DEF ToSet
  <2> HIDE DEF fd
  <2>4. ToSet(lists.tmp') = ToSet(lists.tmp) \ {fd}
    BY <1>1, <2>1, <2>3, RemovedFromList
  <2>5. QED
    BY <2>1, <2>3, <2>4
<1>5. ASSUME NEW mask \in Masks \cup {{}}, OnEventReturns(mask)
      PROVE  /\ ToSet(lists.tmp') \subseteq ToSet(lists.tmp)
             /\ running' = NoFd
  <2>1. running \in Fds
    BY <1>5, <1>1 DEF OnEventReturns, ReadyInv, NodeOutlivesOnEvent, TypeOK
  <2>2. lists' = lists \/ lists' = AddToReadyList(lists, running)
    BY <1>5 DEF OnEventReturns
  <2>3. QED
    BY <1>2, <1>5, <2>1, <2>2 DEF OnEventReturns
<1>6. CASE RoundEnds \/ UNCHANGED vars
  BY <1>6 DEF RoundEnds, vars
<1>7. /\ ~ EpollWait /\ ~ SwapLists
      /\ ~ \E fd \in Fds, mask \in SUBSET Events : EpollReports(fd, mask)
  BY DEF EpollWait, SwapLists, EpollReports
<1>8. QED
  BY <1>3, <1>4, <1>5, <1>6, <1>7 DEF Next, Round

\* A round serves a descriptor once, whatever its callback registers, asserts and
\* asks for: the safety half of EveryReadyFdIsServed.
THEOREM ReadyListServedOncePerRound == Spec => ServedOncePerRound
<1>1. ReadyInv /\ [Next]_vars => [RoundShrinks]_vars
  BY RoundStepShrinks
<1>2. QED
  BY <1>1, ReadyListInvariant, PTL DEF Spec, ServedOncePerRound, RoundShrinks

-----------------------------------------------------------------------------
(* A server with its pipe *)

\* The pipe's read end keeps the registration the constructor gave it, whatever
\* clients register, and reading it never blocks: what WakeIsHeard needs of every
\* state.
PipeIsWatched ==
  /\ read_fd \in DOMAIN cb_map
  /\ cb_map[read_fd].cb = wake_cb
  /\ cb_map[read_fd].event_mask = WakeMask
  /\ ~ pipe_blocks

\* Only the callback of the pipe is done with reading, so each of its calls begins to
\* read, and what a late Wake writes behind the last read waits for the next call.
EachCallReads == drained => InPipeCallback

LifeInv ==
  /\ ReadyInv
  /\ PipeIsWatched
  /\ EachCallReads
  /\ pipe \in 0..PipeSize
  /\ late \in 0..MaxLate

LEMMA LifeInitInv == LifeInit => LifeInv
<1> SUFFICES ASSUME LifeInit PROVE LifeInv
  OBVIOUS
<1> DEFINE node == [cb |-> wake_cb, event_mask |-> WakeMask, events_asserted |-> {},
                    events_to_fake |-> {}, in_use |-> FALSE]
<1>1. /\ cb_map = [fd \in {read_fd} |-> node] /\ interest = [fd \in {read_fd} |-> WakeMask]
      /\ phase = "outside" /\ running = NoFd
      /\ lists = [ready |-> << >>, tmp |-> << >>, size |-> 0]
      /\ reported = {} /\ stale = {} /\ owed = [fd \in Fds |-> {}]
      /\ pipe = 0 /\ pipe_blocks = FALSE /\ late = 0 /\ drained = FALSE
  BY DEF LifeInit, BlocksAfterRegistration
<1>2. DOMAIN << >> = {} /\ << >> \in Seq(Fds) /\ Len(<< >>) = 0 /\ 0 \in Nat
  OBVIOUS
<1>3. ToSet(<< >>) = {} /\ IsInjective(<< >>)
  BY <1>2 DEF ToSet, IsInjective
<1>4. ListsOK(lists) /\ Listed(lists) = {}
  BY <1>1, <1>2, <1>3 DEF ListsOK, Listed
<1>5. /\ node \in Node /\ node.cb = wake_cb /\ node.cb # NoCallback /\ ~ node.in_use
      /\ node.event_mask = WakeMask /\ WakeMask \in SUBSET Events /\ read_fd \in Fds
  BY LifeAssumption, ReadyListAssumption DEF Node, WakeMask
<1> HIDE DEF node
<1>6. TypeOK
  <2>1. owed \in [Fds -> SUBSET Events]
    BY <1>1
  <2>2. QED
    BY <1>1, <1>2, <1>4, <1>5, <2>1 DEF TypeOK, ListsOK, Phases
<1>7. NodeOutlivesOnEvent /\ KernelAgrees
  BY <1>1, <1>5 DEF NodeOutlivesOnEvent, KernelAgrees
<1>8. ReadyInv
  BY <1>1, <1>4, <1>6, <1>7 DEF ReadyInv
<1>9. PipeIsWatched
  BY <1>1, <1>5 DEF PipeIsWatched
<1>10. pipe \in 0..PipeSize /\ late \in 0..MaxLate /\ EachCallReads
  BY <1>1, LifeAssumption DEF EachCallReads, InPipeCallback
<1>11. QED
  BY <1>8, <1>9, <1>10 DEF LifeInv

\* Every step of a server with its pipe is one of EpollReadyList, or leaves the
\* descriptors alone.
LEMMA LifeIsReadyList == LifeNext => [Next]_vars
<1> SUFFICES ASSUME LifeNext PROVE [Next]_vars
  OBVIOUS
<1>1. CASE Wake
  BY <1>1 DEF Wake
<1>2. CASE Clients
  BY <1>2 DEF Clients, Next, ClientCalls
<1>3. CASE LifeRound
  <2>1. EpollWait \/ CallOnEvent \/ RoundEnds => Next
    BY DEF Next, Round
  <2>2. EpollWaitReturns => Next
    BY DEF EpollWaitReturns, Next, Round
  <2>3. ReadPipe \/ LastRead => UNCHANGED vars
    BY DEF ReadPipe, LastRead
  <2>4. ReadPipeReturns => Next
    BY DEF ReadPipeReturns, Next, Round
  <2>5. OnEventOfClientReturns => Next
    BY DEF OnEventOfClientReturns, Next, Round
  <2>6. QED
    BY <1>3, <2>1, <2>2, <2>3, <2>4, <2>5 DEF LifeRound
<1>4. CASE PipeIsReported
  BY <1>4, LifeAssumption DEF PipeIsReported, Next
<1>5. CASE \E fd \in Fds \ {read_fd}, mask \in SUBSET Events : EpollReports(fd, mask)
  BY <1>5 DEF Next
<1>6. QED
  BY <1>1, <1>2, <1>3, <1>4, <1>5 DEF LifeNext

\* No step of a client or of a round changes the callback or the mask of the
\* pipe's read end.
LEMMA PipeStaysWatched ==
  ASSUME LifeInv, LifeNext
  PROVE  PipeIsWatched'
<1>1. /\ read_fd \in DOMAIN cb_map /\ read_fd \in Fds
      /\ cb_map[read_fd].cb = wake_cb /\ wake_cb # NoCallback
      /\ cb_map[read_fd].event_mask = WakeMask
      /\ ~ pipe_blocks
  BY LifeAssumption, ReadyListAssumption DEF LifeInv, PipeIsWatched
<1>2. \A fd \in DOMAIN cb_map : cb_map[fd] \in Node
  BY DEF LifeInv, ReadyInv, TypeOK
<1>3. pipe_blocks' = pipe_blocks
  BY DEF LifeNext, Wake, Clients, LifeRound, EpollWaitReturns, ReadPipe, LastRead,
         ReadPipeReturns, OnEventOfClientReturns, PipeIsReported, pipeVars
<1> DEFINE Kept == /\ read_fd \in DOMAIN cb_map'
                   /\ cb_map'[read_fd].cb = cb_map[read_fd].cb
                   /\ cb_map'[read_fd].event_mask = cb_map[read_fd].event_mask
<1> SUFFICES Kept
  BY <1>1, <1>3 DEF PipeIsWatched, WakeMask
<1>4. cb_map' = cb_map => Kept
  BY <1>1
<1>5. ASSUME NEW fd \in Fds, NEW mask, HandleEvent(fd, mask)
      PROVE  Kept
  <2>1. fd \in DOMAIN cb_map /\ cb_map' = [cb_map EXCEPT ![fd].events_asserted = mask]
    BY <1>5 DEF HandleEvent, IsRegistered
  <2>2. QED
    BY <1>1, <1>2, <2>1 DEF Node
<1>6. CASE Wake \/ ReadPipe \/ LastRead
  BY <1>4, <1>6 DEF Wake, ReadPipe, LastRead, vars
<1>7. CASE Clients
  <2>1. PICK fd \in Fds \ {read_fd} :
          \/ \E cb \in Callbacks \ {wake_cb}, mask \in Masks : RegisterFD(fd, cb, mask)
          \/ UnregisterFD(fd)
          \/ \E mask \in Masks : SetFDReady(fd, mask)
          \/ SetFDNotReady(fd)
          \/ \E mask \in Masks : FakeEvent(fd, mask)
    BY <1>7 DEF Clients
  <2>2. CASE \E cb \in Callbacks \ {wake_cb}, mask \in Masks : RegisterFD(fd, cb, mask)
    BY <1>1, <2>2 DEF RegisterFD, With
  <2>3. CASE UnregisterFD(fd)
    BY <1>1, <2>3 DEF UnregisterFD, Unregistered, Without
  <2>4. CASE \E mask \in Masks : SetFDReady(fd, mask)
    BY <1>1, <2>4 DEF SetFDReady
  <2>5. CASE SetFDNotReady(fd)
    BY <1>4, <2>5 DEF SetFDNotReady
  <2>6. CASE \E mask \in Masks : FakeEvent(fd, mask)
    BY <1>5, <2>6 DEF FakeEvent
  <2>7. QED
    BY <2>1, <2>2, <2>3, <2>4, <2>5, <2>6
<1>8. CASE EpollWait \/ EpollWaitReturns \/ RoundEnds
  BY <1>4, <1>8 DEF EpollWait, EpollWaitReturns, SwapLists, RoundEnds
<1>9. CASE CallOnEvent
  <2>1. cb_map' = Taken(Head(lists.tmp)) /\ Head(lists.tmp) \in Listed(lists)
    BY <1>9 DEF CallOnEvent, LifeInv, ReadyInv, ListsOK, Listed, ToSet
  <2>2. Head(lists.tmp) \in DOMAIN cb_map
    BY <2>1 DEF LifeInv, ReadyInv, Registered
  <2>3. QED
    BY <1>1, <1>2, <2>1, <2>2 DEF Taken, Node
<1>10. ASSUME NEW mask, OnEventReturns(mask)
       PROVE  Kept
  <2>1. cb_map' = AfterOnEvent(running, mask) /\ phase = "on_event"
    BY <1>10 DEF OnEventReturns
  <2>2. running \in DOMAIN cb_map
    BY <2>1 DEF LifeInv, ReadyInv, NodeOutlivesOnEvent
  <2> DEFINE node == [cb_map[running] EXCEPT !.in_use = FALSE]
  <2>3. node.cb = cb_map[running].cb /\ node.event_mask = cb_map[running].event_mask
        /\ [node EXCEPT !.events_to_fake = mask].cb = cb_map[running].cb
        /\ [node EXCEPT !.events_to_fake = mask].event_mask = cb_map[running].event_mask
    BY <1>2, <2>2 DEF Node
  <2> HIDE DEF node
  <2>4. CASE node.cb = NoCallback
    <3>1. running # read_fd /\ cb_map' = Without(cb_map, running)
      BY <1>1, <2>1, <2>3, <2>4 DEF AfterOnEvent, node
    <3>2. QED
      BY <1>1, <3>1 DEF Without
  <2>5. CASE node.cb # NoCallback
    <3>1. \/ cb_map' = [cb_map EXCEPT ![running] = [node EXCEPT !.events_to_fake = mask]]
          \/ cb_map' = [cb_map EXCEPT ![running] = node]
      BY <2>1, <2>5 DEF AfterOnEvent, node
    <3>2. QED
      BY <1>1, <2>2, <2>3, <3>1
  <2>6. QED
    BY <2>4, <2>5
<1>11. CASE ReadPipeReturns \/ OnEventOfClientReturns
  BY <1>10, <1>11 DEF ReadPipeReturns, OnEventOfClientReturns
<1>12. ASSUME NEW fd \in Fds, NEW mask \in SUBSET Events, EpollReports(fd, mask)
       PROVE  Kept
  BY <1>5, <1>12 DEF EpollReports
<1>13. CASE PipeIsReported
  BY <1>1, <1>12, <1>13, LifeAssumption DEF PipeIsReported
<1> HIDE DEF Kept
<1>14. LifeRound => Kept
  BY <1>6, <1>8, <1>9, <1>11 DEF LifeRound
<1>15. QED
  BY <1>6, <1>7, <1>12, <1>13, <1>14 DEF LifeNext

\* What Wake and the callback of the pipe do to it.
LEMMA PipeStep ==
  ASSUME LifeInv, LifeNext
  PROVE  pipe' \in 0..PipeSize /\ late' \in 0..MaxLate /\ EachCallReads'
<1>1. /\ pipe \in 0..PipeSize /\ PipeSize \in Nat /\ ReadSize \in Nat
      /\ late \in 0..MaxLate /\ MaxLate \in Nat /\ read_fd # NoFd
      /\ drained => phase = "on_event" /\ running = read_fd
  BY LifeAssumption, ReadyListAssumption DEF LifeInv, EachCallReads, InPipeCallback
<1>2. CASE Wake
  <2>1. pipe < PipeSize /\ pipe' = pipe + 1
    BY <1>2 DEF Wake
  <2>2. late' = late \/ (late < MaxLate /\ late' = late + 1)
    BY <1>2 DEF Wake
  <2>3. drained' = drained /\ phase' = phase /\ running' = running
    BY <1>2 DEF Wake, vars
  <2>4. QED
    BY <1>1, <2>1, <2>2, <2>3 DEF EachCallReads, InPipeCallback
<1>3. CASE ReadPipe
  <2>1. /\ pipe > 0 /\ pipe' = (IF pipe > ReadSize THEN pipe - ReadSize ELSE 0)
        /\ late' = late
    BY <1>3 DEF ReadPipe
  <2>2. drained' = drained /\ ~ drained
    BY <1>3 DEF ReadPipe
  <2>3. QED
    BY <1>1, <2>1, <2>2 DEF EachCallReads, InPipeCallback
<1>4. CASE LastRead
  <2>1. pipe' = pipe /\ late' = late /\ running' = read_fd /\ phase' = phase
    BY <1>4 DEF LastRead, InPipeCallback, vars
  <2>2. phase = "on_event"
    BY <1>4 DEF LastRead, InPipeCallback
  <2>3. QED
    BY <1>1, <2>1, <2>2 DEF EachCallReads, InPipeCallback
<1>5. CASE ReadPipeReturns
  BY <1>1, <1>5 DEF ReadPipeReturns, EachCallReads, InPipeCallback
<1>6. CASE Clients
  <2>1. pipe' = pipe /\ late' = late /\ drained' = drained /\ running # read_fd
    BY <1>6 DEF Clients, pipeVars
  <2>2. QED
    BY <1>1, <2>1 DEF EachCallReads, InPipeCallback
<1>7. CASE OnEventOfClientReturns
  <2>1. pipe' = pipe /\ late' = late /\ drained' = drained /\ running # read_fd
    BY <1>7 DEF OnEventOfClientReturns, pipeVars
  <2>2. QED
    BY <1>1, <2>1 DEF EachCallReads, InPipeCallback
<1>8. CASE \/ EpollWait /\ UNCHANGED pipeVars
           \/ EpollWaitReturns
           \/ CallOnEvent /\ UNCHANGED pipeVars
           \/ RoundEnds /\ UNCHANGED pipeVars
           \/ PipeIsReported
           \/ \E fd \in Fds \ {read_fd}, mask \in SUBSET Events :
                EpollReports(fd, mask) /\ UNCHANGED pipeVars
  <2>1. pipe' = pipe /\ late' = late /\ drained' = drained
    BY <1>8 DEF EpollWaitReturns, PipeIsReported, pipeVars
  <2>2. phase # "on_event"
    BY <1>8 DEF EpollWait, EpollWaitReturns, SwapLists, CallOnEvent, RoundEnds,
                PipeIsReported, EpollReports
  <2>3. QED
    BY <1>1, <2>1, <2>2 DEF EachCallReads, InPipeCallback
<1>9. QED
  BY <1>2, <1>3, <1>4, <1>5, <1>6, <1>7, <1>8 DEF LifeNext, LifeRound

\* A server with its pipe keeps every promise of EpollReadyList, and its clients
\* never take the pipe away from it: the read end stays registered with the
\* server's own callback for reading, and that callback never blocks and never
\* begins with its reading done, whenever another thread calls Wake.
THEOREM ServerLifeInvariant == LifeSpec => []LifeInv
<1>1. LifeInit => LifeInv
  BY LifeInitInv
<1>2. LifeInv /\ [LifeNext]_lifeVars => LifeInv'
  <2> SUFFICES ASSUME LifeInv, [LifeNext]_lifeVars PROVE LifeInv'
    OBVIOUS
  <2>1. CASE LifeNext
    <3>1. ReadyInv'
      BY <2>1, LifeIsReadyList, ReadyNextInv DEF LifeInv
    <3>2. QED
      BY <2>1, <3>1, PipeStep, PipeStaysWatched DEF LifeInv
  <2>2. CASE UNCHANGED lifeVars
    <3>1. /\ UNCHANGED vars /\ UNCHANGED <<pipe, pipe_blocks, late, drained>>
          /\ cb_map' = cb_map /\ phase' = phase /\ running' = running
      BY <2>2 DEF lifeVars, pipeVars, vars
    <3>2. ReadyInv'
      BY <3>1, ReadyNextInv DEF LifeInv
    <3>3. QED
      BY <3>1, <3>2 DEF LifeInv, PipeIsWatched, EachCallReads, InPipeCallback, WakeMask
  <2>3. QED
    BY <2>1, <2>2
<1>3. QED
  BY <1>1, <1>2, PTL DEF LifeSpec

\* Nor does a round of a server with its pipe go on for as long as another thread
\* calls Wake.
THEOREM ServerLifeServedOncePerRound == LifeSpec => ServedOncePerRound
<1>1. LifeInv /\ [LifeNext]_lifeVars => [RoundShrinks]_vars
  <2>1. [LifeNext]_lifeVars => [Next]_vars
    BY LifeIsReadyList DEF lifeVars
  <2>2. QED
    BY <2>1, RoundStepShrinks DEF LifeInv
<1>2. QED
  BY <1>1, ServerLifeInvariant, PTL DEF LifeSpec, ServedOncePerRound, RoundShrinks
=============================================================================

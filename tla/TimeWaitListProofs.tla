------------------------- MODULE TimeWaitListProofs -------------------------
(***************************************************************************)
(* Proofs about QuicTimeWaitListManager, for every period, maximum, clock  *)
(* and set of connection ids: its list and its alarm first, then what      *)
(* ShouldSendResponse computes for every count and, with it, how often an  *)
(* id is answered.                                                         *)
(***************************************************************************)
EXTENDS TimeWaitThrottle, SequenceTheorems, WellFoundedInduction, TLAPS

\* OldestFirst, of any list.
Ordered(list) ==
  \A i, j \in DOMAIN list :
    i < j => /\ list[i].id # list[j].id
             /\ list[i].time_added <= list[j].time_added

\* part is list with some records taken out.
PartOf(part, list) ==
  /\ part \in Seq(Entry)
  /\ Ordered(part)
  /\ \A i \in DOMAIN part : \E k \in DOMAIN list : part[i] = list[k]
  /\ Len(part) <= Len(list)

\* Records were added in the past, and the alarm is at most one period away:
\* what makes the properties inductive.
InThePast ==
  /\ \A k \in DOMAIN connection_id_map : connection_id_map[k].time_added <= now
  /\ connection_id_clean_up_alarm <= now + TimeWaitPeriod

TwInv ==
  /\ TwTypeOK
  /\ OldestFirst
  /\ InThePast
  /\ AlarmCoversEveryRecord
  /\ WithinMaximum

\* Why the record at k of a list may be missing in the next one.
LeavesAsPromised(list, next, k) ==
  \/ list[k].time_added + TimeWaitPeriod <= now
  \/ /\ k = 1
     /\ Len(list) = MaxConnections
     /\ Len(next) = MaxConnections

-----------------------------------------------------------------------------
(* The operations on the list *)

\* The time a record was added.
LEMMA TimesAreNat ==
  ASSUME NEW list \in Seq(Entry), NEW k \in DOMAIN list
  PROVE  list[k] \in Entry /\ list[k].time_added \in Nat
<1>1. list[k] \in Entry
  OBVIOUS
<1>2. QED
  BY <1>1 DEF Entry

\* A tail of an ordered list is part of it.
LEMMA TailPart ==
  ASSUME NEW list \in Seq(Entry), Ordered(list), NEW k \in Nat, k <= Len(list)
  PROVE  /\ PartOf(SubSeq(list, k + 1, Len(list)), list)
         /\ Len(SubSeq(list, k + 1, Len(list))) = Len(list) - k
         /\ \A i \in DOMAIN SubSeq(list, k + 1, Len(list)) :
              SubSeq(list, k + 1, Len(list))[i] = list[i + k]
<1> DEFINE part == SubSeq(list, k + 1, Len(list))
<1>1. Len(list) \in Nat /\ DOMAIN list = 1..Len(list)
  OBVIOUS
<1>2. /\ part \in Seq(Entry)
      /\ Len(part) = Len(list) - k
      /\ \A i \in 1..Len(part) : part[i] = list[k + i]
  <2>1. /\ k + 1 \in Int /\ Len(list) \in Int
        /\ \A i \in (k + 1)..Len(list) : list[i] \in Entry
    BY <1>1
  <2>2. /\ part \in Seq(Entry)
        /\ Len(part) = IF k + 1 <= Len(list) THEN Len(list) - (k + 1) + 1 ELSE 0
        /\ \A i \in 1..(Len(list) - (k + 1) + 1) : part[i] = list[k + 1 + i - 1]
    BY <2>1, SubSeqProperties
  <2> HIDE DEF part
  <2>3. k + 1 <= Len(list) \/ Len(list) = k
    <3>1. \A n, m \in Nat : m <= n => m + 1 <= n \/ n = m
      OBVIOUS
    <3>2. Len(list) \in Nat
      BY <1>1
    <3>3. QED
      BY <3>1, <3>2
  <2>4. Len(part) = Len(list) - k
    BY <2>2, <2>3
  <2>5. ASSUME NEW i \in 1..Len(part) PROVE part[i] = list[k + i]
    <3>1. i \in 1..(Len(list) - (k + 1) + 1) /\ k + 1 + i - 1 = k + i
      BY <1>1, <2>4
    <3>2. QED
      BY <2>2, <3>1
  <2>6. QED
    BY <2>2, <2>4, <2>5
<1> HIDE DEF part
<1>3. DOMAIN part = 1..Len(part)
  BY <1>2
<1>4. \A i \in DOMAIN part : i + k \in DOMAIN list /\ part[i] = list[i + k]
  BY <1>1, <1>2, <1>3
<1>5. Ordered(part)
  <2>1. SUFFICES ASSUME NEW i \in DOMAIN part, NEW j \in DOMAIN part, i < j
                 PROVE  /\ part[i].id # part[j].id
                        /\ part[i].time_added <= part[j].time_added
    BY DEF Ordered
  <2>2. i + k < j + k
    BY <1>3, <1>2, <2>1
  <2>3. QED
    BY <1>4, <2>1, <2>2 DEF Ordered
<1>6. PartOf(part, list)
  BY <1>1, <1>2, <1>4, <1>5 DEF PartOf
<1>7. QED
  BY <1>2, <1>4, <1>6 DEF part

\* TrimTimeWaitListIfNeeded leaves room for one more record, and takes out no
\* record but the oldest of a full list.
LEMMA TrimPart ==
  ASSUME NEW list \in Seq(Entry), Ordered(list),
         MaxConnections > 0 => Len(list) <= MaxConnections
  PROVE  /\ PartOf(TrimTimeWaitListIfNeeded(list), list)
         /\ MaxConnections > 0 =>
              Len(TrimTimeWaitListIfNeeded(list)) < MaxConnections
         /\ \A j \in DOMAIN list :
              \/ \E i \in DOMAIN TrimTimeWaitListIfNeeded(list) :
                   TrimTimeWaitListIfNeeded(list)[i] = list[j]
              \/ /\ j = 1
                 /\ Len(list) = MaxConnections
                 /\ Len(TrimTimeWaitListIfNeeded(list)) = MaxConnections - 1
<1>1. CASE MaxConnections > 0 /\ Len(list) >= MaxConnections
  <2>1. Len(list) = MaxConnections
    BY <1>1, TimeWaitAssumption
  <2>2. TrimTimeWaitListIfNeeded(list) = SubSeq(list, 1 + 1, Len(list))
    BY <1>1, <2>1, TimeWaitAssumption DEF TrimTimeWaitListIfNeeded
  <2>3. 1 \in Nat /\ 1 <= Len(list)
    BY <1>1, TimeWaitAssumption
  <2> DEFINE part == SubSeq(list, 1 + 1, Len(list))
  <2>4. /\ PartOf(part, list)
        /\ Len(part) = Len(list) - 1
        /\ \A i \in DOMAIN part : part[i] = list[i + 1]
    BY <2>3, TailPart
  <2> HIDE DEF part
  <2>5. DOMAIN part = 1..(Len(list) - 1) /\ Len(list) \in Nat
    BY <2>4 DEF PartOf
  <2>6. ASSUME NEW j \in DOMAIN list, j # 1
        PROVE  \E i \in DOMAIN part : part[i] = list[j]
    <3>1. j - 1 \in DOMAIN part /\ (j - 1) + 1 = j
      BY <2>5, <2>6
    <3>2. QED
      BY <2>4, <3>1
  <2>7. MaxConnections > 0 => Len(part) < MaxConnections
    BY <2>1, <2>4, <2>5
  <2>8. QED
    BY <2>1, <2>2, <2>4, <2>6, <2>7 DEF part
<1>2. CASE ~ (MaxConnections > 0 /\ Len(list) >= MaxConnections)
  <2>1. TrimTimeWaitListIfNeeded(list) = list
    BY <1>2 DEF TrimTimeWaitListIfNeeded
  <2>2. MaxConnections > 0 => Len(list) < MaxConnections
    BY <1>2, TimeWaitAssumption
  <2>3. QED
    BY <2>1, <2>2 DEF PartOf
<1>3. QED
  BY <1>1, <1>2

\* What RemoveAt returns.
LEMMA RemoveAtElements ==
  ASSUME NEW S, NEW list \in Seq(S), NEW k \in DOMAIN list
  PROVE  /\ RemoveAt(list, k) \in Seq(S)
         /\ Len(RemoveAt(list, k)) = Len(list) - 1
         /\ \A i \in 1..(Len(list) - 1) :
              RemoveAt(list, k)[i] = IF i < k THEN list[i] ELSE list[i + 1]
<1> DEFINE front == SubSeq(list, 1, k - 1)
           back  == SubSeq(list, k + 1, Len(list))
<1>1. k \in 1..Len(list) /\ Len(list) \in Nat
  OBVIOUS
<1>2. /\ front \in Seq(S)
      /\ Len(front) = k - 1
      /\ \A i \in 1..(k - 1) : front[i] = list[i]
  BY <1>1, SubSeqProperties, SMT
<1>3. /\ back \in Seq(S)
      /\ Len(back) = Len(list) - k
      /\ \A i \in 1..(Len(list) - k) : back[i] = list[i + k]
  BY <1>1, SubSeqProperties, SMT
<1>4. RemoveAt(list, k) = front \o back
  BY DEF RemoveAt
<1>5. /\ front \o back \in Seq(S)
      /\ Len(front \o back) = Len(front) + Len(back)
      /\ \A i \in 1..(Len(front) + Len(back)) :
           (front \o back)[i] = IF i <= Len(front) THEN front[i]
                                ELSE back[i - Len(front)]
  BY <1>2, <1>3, ConcatProperties
<1> HIDE DEF front, back
<1>6. Len(front) + Len(back) = Len(list) - 1
  BY <1>1, <1>2, <1>3
<1>7. ASSUME NEW i \in 1..(Len(list) - 1)
      PROVE  (front \o back)[i] = IF i < k THEN list[i] ELSE list[i + 1]
  <2>0. i \in 1..(Len(front) + Len(back))
    BY <1>6
  <2>1. CASE i < k
    <3>1. i <= Len(front) /\ i \in 1..(k - 1)
      BY <1>1, <1>2, <2>1
    <3>2. (front \o back)[i] = front[i]
      BY <1>5, <2>0, <3>1
    <3>3. QED
      BY <1>2, <2>1, <3>1, <3>2
  <2>2. CASE ~ (i < k)
    <3>1. /\ ~ (i <= Len(front))
          /\ i - Len(front) \in 1..(Len(list) - k)
          /\ i - Len(front) + k = i + 1
      BY <1>1, <1>2, <2>2
    <3>2. (front \o back)[i] = back[i - Len(front)]
      BY <1>5, <2>0, <3>1
    <3>3. QED
      BY <1>3, <3>1, <3>2, <2>2
  <2>3. QED
    BY <2>1, <2>2
<1>8. QED
  BY <1>4, <1>5, <1>6, <1>7

\* Erasing the record of a reinserted id: no record of the id is left, and every
\* other record is.
LEMMA ErasePart ==
  ASSUME NEW list \in Seq(Entry), Ordered(list), NEW id \in ConnectionIds
  PROVE  /\ PartOf(EraseReinserted(list, id), list)
         /\ \A i \in DOMAIN EraseReinserted(list, id) :
              EraseReinserted(list, id)[i].id # id
         /\ \A j \in DOMAIN list : list[j].id # id =>
              \E i \in DOMAIN EraseReinserted(list, id) :
                EraseReinserted(list, id)[i] = list[j]
         /\ id \in Ids(list) => Len(EraseReinserted(list, id)) = Len(list) - 1
         /\ id \notin Ids(list) => EraseReinserted(list, id) = list
<1>1. CASE id \in Ids(list)
  <2> DEFINE k == Find(list, id)
             part == RemoveAt(list, k)
  <2>1. k \in DOMAIN list /\ list[k].id = id
    BY <1>1 DEF Ids, Find
  <2> HIDE DEF k
  <2>2. /\ part \in Seq(Entry)
        /\ Len(part) = Len(list) - 1
        /\ \A i \in 1..(Len(list) - 1) :
             part[i] = IF i < k THEN list[i] ELSE list[i + 1]
    BY <2>1, RemoveAtElements
  <2> HIDE DEF part
  <2>3. /\ DOMAIN part = 1..(Len(list) - 1)
        /\ DOMAIN list = 1..Len(list)
        /\ Len(list) \in Nat
    BY <2>2
  <2> DEFINE was(i) == IF i < k THEN i ELSE i + 1
             is(j) == IF j < k THEN j ELSE j - 1
  <2>4. \A i \in DOMAIN part :
          was(i) \in DOMAIN list /\ was(i) # k /\ part[i] = list[was(i)]
    BY <2>1, <2>2, <2>3
  <2>5. \A i, j \in DOMAIN part : i < j => was(i) < was(j)
    BY <2>1, <2>3
  <2>6. \A j \in DOMAIN list : j # k => is(j) \in DOMAIN part /\ was(is(j)) = j
    BY <2>1, <2>3
  <2> HIDE DEF was, is
  <2>7. \A j \in DOMAIN list : j # k => \E i \in DOMAIN part : part[i] = list[j]
    BY <2>4, <2>6
  <2>8. \A i \in DOMAIN part : \E j \in DOMAIN list :
          part[i] = list[j] /\ j # k
    BY <2>4
  <2>9. Ordered(part)
    BY <2>4, <2>5 DEF Ordered
  <2>10. PartOf(part, list)
    BY <2>2, <2>3, <2>8, <2>9 DEF PartOf
  <2>11. \A j \in DOMAIN list : j # k => list[j].id # id
    BY <2>1, <2>3 DEF Ordered
  <2>12. EraseReinserted(list, id) = part
    BY <1>1 DEF EraseReinserted, part, k
  <2>13. QED
    BY <1>1, <2>1, <2>2, <2>8, <2>10, <2>11, <2>12, <2>7
<1>2. CASE id \notin Ids(list)
  <2>1. EraseReinserted(list, id) = list
    BY <1>2 DEF EraseReinserted
  <2>2. QED
    BY <1>2, <2>1 DEF PartOf, Ids
<1>3. QED
  BY <1>1, <1>2

\* A record that is found is a record of the list.
LEMMA FindFinds ==
  ASSUME NEW list \in Seq(Entry), NEW id \in Ids(list)
  PROVE  Find(list, id) \in DOMAIN list /\ list[Find(list, id)].id = id
BY DEF Ids, Find

\* The count that a reinsertion keeps is a count.
LEMMA PacketsCountedType ==
  ASSUME NEW list \in Seq(Entry), NEW id \in ConnectionIds
  PROVE  PacketsCounted(list, id) \in Nat
<1>1. CASE id \in Ids(list)
  <2>1. Find(list, id) \in DOMAIN list
    BY <1>1, FindFinds
  <2>2. list[Find(list, id)] \in Entry
    BY <2>1
  <2>3. QED
    BY <1>1, <2>2 DEF PacketsCounted, Entry
<1>2. CASE id \notin Ids(list)
  BY <1>2 DEF PacketsCounted
<1>3. QED
  BY <1>1, <1>2

\* A list with a younger record of another id at its end.
LEMMA AppendOrdered ==
  ASSUME NEW list \in Seq(Entry), Ordered(list), NEW e \in Entry,
         \A i \in DOMAIN list : list[i].id # e.id /\ list[i].time_added <= e.time_added
  PROVE  /\ Append(list, e) \in Seq(Entry)
         /\ Len(Append(list, e)) = Len(list) + 1
         /\ Ordered(Append(list, e))
         /\ \A i \in DOMAIN Append(list, e) :
              \/ i \in DOMAIN list /\ Append(list, e)[i] = list[i]
              \/ i = Len(list) + 1 /\ Append(list, e)[i] = e
<1> DEFINE longer == Append(list, e)
<1>1. /\ longer \in Seq(Entry)
      /\ Len(longer) = Len(list) + 1
      /\ Len(list) \in Nat
      /\ \A i \in 1..Len(list) : longer[i] = list[i]
      /\ longer[Len(list) + 1] = e
  BY AppendProperties
<1> HIDE DEF longer
<1>2. DOMAIN longer = 1..(Len(list) + 1) /\ DOMAIN list = 1..Len(list)
  BY <1>1
<1>3. \A i \in DOMAIN longer :
        \/ i \in DOMAIN list /\ longer[i] = list[i]
        \/ i = Len(list) + 1 /\ longer[i] = e
  BY <1>1, <1>2
<1>4. Ordered(longer)
  <2>1. SUFFICES ASSUME NEW i \in DOMAIN longer, NEW j \in DOMAIN longer, i < j
                 PROVE  /\ longer[i].id # longer[j].id
                        /\ longer[i].time_added <= longer[j].time_added
    BY DEF Ordered
  <2>2. i \in DOMAIN list /\ longer[i] = list[i]
    BY <1>1, <1>2, <1>3, <2>1
  <2>3. CASE j \in DOMAIN list /\ longer[j] = list[j]
    BY <2>1, <2>2, <2>3 DEF Ordered
  <2>4. CASE longer[j] = e
    BY <2>2, <2>4
  <2>5. QED
    BY <1>3, <2>3, <2>4
<1>5. QED
  BY <1>1, <1>3, <1>4 DEF longer

\* AddConnectionIdToTimeWait keeps the list ordered and within the maximum, and
\* adds one record, of now; no id leaves but the oldest of a full list.
LEMMA AddedList ==
  ASSUME NEW list \in Seq(Entry), Ordered(list), now \in Nat,
         MaxConnections > 0 => Len(list) <= MaxConnections,
         \A k \in DOMAIN list : list[k].time_added <= now,
         NEW id \in ConnectionIds, NEW close_packet \in BOOLEAN
  PROVE  /\ Added(list, id, close_packet) \in Seq(Entry)
         /\ Ordered(Added(list, id, close_packet))
         /\ MaxConnections > 0 => Len(Added(list, id, close_packet)) <= MaxConnections
         /\ \A i \in DOMAIN Added(list, id, close_packet) :
              \/ /\ Added(list, id, close_packet)[i].id = id
                 /\ Added(list, id, close_packet)[i].time_added = now
                 /\ Added(list, id, close_packet)[i].num_packets =
                      PacketsCounted(list, id)
              \/ \E k \in DOMAIN list : Added(list, id, close_packet)[i] = list[k]
         /\ id \in Ids(Added(list, id, close_packet))
         /\ \A k \in DOMAIN list :
              list[k].id \notin Ids(Added(list, id, close_packet)) =>
                /\ k = 1
                /\ Len(list) = MaxConnections
                /\ Len(Added(list, id, close_packet)) = MaxConnections
<1> DEFINE erased == EraseReinserted(list, id)
           trimmed == TrimTimeWaitListIfNeeded(erased)
           e == [id |-> id, num_packets |-> PacketsCounted(list, id),
                 time_added |-> now, close_packet |-> close_packet]
<1>1. /\ PartOf(erased, list)
      /\ \A i \in DOMAIN erased : erased[i].id # id
      /\ \A j \in DOMAIN list : list[j].id # id =>
           \E i \in DOMAIN erased : erased[i] = list[j]
      /\ id \in Ids(list) => Len(erased) = Len(list) - 1
      /\ id \notin Ids(list) => erased = list
  BY ErasePart
<1>2. MaxConnections > 0 => Len(erased) <= MaxConnections
  <2>1. Len(erased) <= Len(list) /\ Len(erased) \in Nat /\ Len(list) \in Nat
    BY <1>1 DEF PartOf
  <2> HIDE DEF erased
  <2>2. QED
    BY <2>1, TimeWaitAssumption
<1>3. /\ PartOf(trimmed, erased)
      /\ MaxConnections > 0 => Len(trimmed) < MaxConnections
      /\ \A j \in DOMAIN erased :
           \/ \E i \in DOMAIN trimmed : trimmed[i] = erased[j]
           \/ /\ j = 1
              /\ Len(erased) = MaxConnections
              /\ Len(trimmed) = MaxConnections - 1
  BY <1>1, <1>2, TrimPart DEF PartOf
<1>4. e \in Entry
  BY PacketsCountedType DEF Entry
<1>5. e.id = id /\ e.time_added = now /\ e.num_packets = PacketsCounted(list, id)
  OBVIOUS
<1>6. Added(list, id, close_packet) = Append(trimmed, e)
  BY DEF Added
<1> HIDE DEF erased, trimmed, e
<1>7. \A i \in DOMAIN trimmed : \E k \in DOMAIN list : trimmed[i] = list[k]
  BY <1>1, <1>3 DEF PartOf
<1>8. \A i \in DOMAIN trimmed : trimmed[i].id # e.id
  BY <1>1, <1>3, <1>5 DEF PartOf
<1>9. \A i \in DOMAIN trimmed : trimmed[i].time_added <= e.time_added
  BY <1>5, <1>7
<1>10. /\ Append(trimmed, e) \in Seq(Entry)
       /\ Len(Append(trimmed, e)) = Len(trimmed) + 1
       /\ Ordered(Append(trimmed, e))
       /\ \A i \in DOMAIN Append(trimmed, e) :
            \/ i \in DOMAIN trimmed /\ Append(trimmed, e)[i] = trimmed[i]
            \/ i = Len(trimmed) + 1 /\ Append(trimmed, e)[i] = e
  BY <1>3, <1>4, <1>8, <1>9, AppendOrdered DEF PartOf
<1>11. MaxConnections > 0 => Len(Append(trimmed, e)) <= MaxConnections
  <2>1. Len(trimmed) \in Nat
    BY <1>3 DEF PartOf
  <2>2. QED
    BY <1>3, <1>10, <2>1, TimeWaitAssumption
<1>12. \A i \in DOMAIN Append(trimmed, e) :
         \/ /\ Append(trimmed, e)[i].id = id
            /\ Append(trimmed, e)[i].time_added = now
            /\ Append(trimmed, e)[i].num_packets = PacketsCounted(list, id)
         \/ \E k \in DOMAIN list : Append(trimmed, e)[i] = list[k]
  BY <1>5, <1>7, <1>10
<1>13. id \in Ids(Append(trimmed, e))
  <2>1. Len(trimmed) + 1 \in DOMAIN Append(trimmed, e)
    BY <1>3, <1>10 DEF PartOf
  <2>2. Append(trimmed, e)[Len(trimmed) + 1] = e
    BY <1>3, AppendProperties, <1>4 DEF PartOf
  <2>3. QED
    BY <1>5, <2>1, <2>2 DEF Ids
<1>14. ASSUME NEW k \in DOMAIN list, list[k].id \notin Ids(Append(trimmed, e))
       PROVE  /\ k = 1
              /\ Len(list) = MaxConnections
              /\ Len(Append(trimmed, e)) = MaxConnections
  <2>1. PICK j \in DOMAIN erased : erased[j] = list[k]
    BY <1>1, <1>13, <1>14
  <2>2. \A i \in DOMAIN trimmed : trimmed[i] # list[k]
    <3>1. \A i \in DOMAIN trimmed :
            i \in DOMAIN Append(trimmed, e) /\ Append(trimmed, e)[i] = trimmed[i]
      BY <1>3, <1>4, <1>10, AppendProperties DEF PartOf
    <3>2. QED
      BY <1>14, <3>1 DEF Ids
  <2>3. j = 1 /\ Len(erased) = MaxConnections /\ Len(trimmed) = MaxConnections - 1
    BY <1>3, <2>1, <2>2
  <2>4. Len(list) \in Nat /\ MaxConnections > 0
    <3>1. Len(erased) \in Nat /\ j \in 1..Len(erased)
      BY <1>1, <2>1 DEF PartOf
    <3>2. QED
      BY <2>3, <3>1, TimeWaitAssumption
  <2>5. id \notin Ids(list)
    BY <1>1, <2>3, <2>4, TimeWaitAssumption
  <2>6. erased = list
    BY <1>1, <2>5
  <2>7. k = 1
    <3>1. list[1] = list[k] /\ 1 \in DOMAIN list
      BY <2>1, <2>3, <2>6
    <3>2. QED
      BY <3>1 DEF Ordered
  <2>8. Len(Append(trimmed, e)) = MaxConnections
    BY <1>10, <2>3, TimeWaitAssumption
  <2>9. QED
    BY <2>3, <2>6, <2>7, <2>8
<1>15. QED
  BY <1>6, <1>10, <1>11, <1>12, <1>13, <1>14

\* ProcessPacket changes a packet count and nothing else.
LEMMA CountedList ==
  ASSUME NEW list \in Seq(Entry), NEW id \in Ids(list)
  PROVE  /\ Counted(list, id) \in Seq(Entry)
         /\ Len(Counted(list, id)) = Len(list)
         /\ DOMAIN Counted(list, id) = DOMAIN list
         /\ \A i \in DOMAIN list :
              /\ Counted(list, id)[i].id = list[i].id
              /\ Counted(list, id)[i].time_added = list[i].time_added
              /\ Counted(list, id)[i].num_packets =
                   IF i = Find(list, id) THEN list[i].num_packets + 1
                   ELSE list[i].num_packets
<1> DEFINE k == Find(list, id)
           e == [list[k] EXCEPT !.num_packets = @ + 1]
<1>1. k \in DOMAIN list /\ list[k] \in Entry
  BY FindFinds
<1>2. /\ e \in Entry /\ e.id = list[k].id /\ e.time_added = list[k].time_added
      /\ e.num_packets = list[k].num_packets + 1
  <2>1. ASSUME NEW r \in Entry
        PROVE  LET q == [r EXCEPT !.num_packets = @ + 1]
               IN  /\ q \in Entry /\ q.id = r.id /\ q.time_added = r.time_added
                   /\ q.num_packets = r.num_packets + 1
    BY DEF Entry
  <2>2. QED
    BY <1>1, <2>1
<1>3. Counted(list, id) = [list EXCEPT ![k] = e]
  BY <1>1 DEF Counted
<1> HIDE DEF e
<1>4. QED
  <2> HIDE DEF k
  <2>1. /\ Counted(list, id) \in Seq(Entry)
        /\ Len(Counted(list, id)) = Len(list)
        /\ DOMAIN Counted(list, id) = DOMAIN list
        /\ \A i \in DOMAIN list : Counted(list, id)[i] = IF i = k THEN e ELSE list[i]
    BY <1>1, <1>2, <1>3, ExceptSeq
  <2>2. k = Find(list, id)
    BY DEF k
  <2>3. QED
    BY <1>2, <2>1, <2>2

-----------------------------------------------------------------------------
(* The invariant *)

\* The alarm that CleanUpOldConnectionIds or the constructor sets.
LEMMA DeadlineCovers ==
  ASSUME NEW list \in Seq(Entry), Ordered(list), now \in Nat,
         \A k \in DOMAIN list : list[k].time_added <= now,
         \A k \in DOMAIN list : list[k].time_added > now - TimeWaitPeriod
  PROVE  /\ CleanUpDeadline(list) \in Nat
         /\ CleanUpDeadline(list) <= now + TimeWaitPeriod
         /\ CleanUpDeadline(list) > now
         /\ \A k \in DOMAIN list :
              CleanUpDeadline(list) <= list[k].time_added + TimeWaitPeriod
<1>1. CASE list = << >>
  BY <1>1, TimeWaitAssumption DEF CleanUpDeadline
<1>2. CASE list # << >>
  <2>1. 1 \in DOMAIN list /\ list[1] \in Entry
    BY <1>2
  <2>2. /\ list[1].time_added \in Nat
        /\ list[1].time_added <= now
        /\ list[1].time_added > now - TimeWaitPeriod
    BY <2>1 DEF Entry
  <2>3. CleanUpDeadline(list) = list[1].time_added + TimeWaitPeriod
    BY <1>2, <2>2, TimeWaitAssumption DEF CleanUpDeadline
  <2>4. \A k \in DOMAIN list :
          list[k].time_added \in Nat /\ list[1].time_added <= list[k].time_added
    <3>1. SUFFICES ASSUME NEW k \in DOMAIN list
                   PROVE  /\ list[k].time_added \in Nat
                          /\ list[1].time_added <= list[k].time_added
      OBVIOUS
    <3>2. list[k] \in Entry /\ (k = 1 \/ 1 < k)
      OBVIOUS
    <3>3. QED
      BY <2>1, <2>2, <3>2 DEF Ordered, Entry
  <2>5. QED
    BY <2>2, <2>3, <2>4, TimeWaitAssumption
<1>3. QED
  BY <1>1, <1>2

\* The constructor sets the alarm one period ahead of an empty list.
LEMMA TwInitInv == TwInit => TwInv
<1> SUFFICES ASSUME TwInit PROVE TwInv
  OBVIOUS
<1>1. now = 0 /\ connection_id_map = << >> /\ connection_id_clean_up_alarm = TimeWaitPeriod
  BY TimeWaitAssumption DEF TwInit, CleanUpDeadline
<1>2. /\ << >> \in Seq(Entry) /\ Len(<< >>) = 0
      /\ \A k \in DOMAIN connection_id_map : FALSE
  BY <1>1
<1>3. QED
  BY <1>1, <1>2, TimeWaitAssumption
  DEF TwInv, TwTypeOK, OldestFirst, InThePast, AlarmCoversEveryRecord, WithinMaximum

\* A list of old records and of records of now, all ordered and within the
\* maximum, keeps the invariant: the alarm that is set covers a new record.
LEMMA NewListInv ==
  ASSUME TwInv, connection_id_map' \in Seq(Entry),
         Ordered(connection_id_map'),
         MaxConnections > 0 => Len(connection_id_map') <= MaxConnections,
         \A i \in DOMAIN connection_id_map' :
           \/ connection_id_map'[i].time_added = now
           \/ \E k \in DOMAIN connection_id_map :
                connection_id_map'[i].time_added = connection_id_map[k].time_added,
         UNCHANGED <<now, connection_id_clean_up_alarm>>
  PROVE  TwInv'
<1>1. now \in Nat /\ connection_id_clean_up_alarm \in Nat
  BY DEF TwInv, TwTypeOK
<1>2. InThePast'
  BY <1>1 DEF TwInv, InThePast
<1>3. AlarmCoversEveryRecord'
  BY <1>1 DEF TwInv, InThePast, AlarmCoversEveryRecord
<1>4. TwTypeOK' /\ OldestFirst' /\ WithinMaximum'
  BY <1>1 DEF TwTypeOK, OldestFirst, WithinMaximum, Ordered
<1>5. QED
  BY <1>2, <1>3, <1>4 DEF TwInv

\* AddConnectionIdToTimeWait keeps the invariant: the alarm, set for an older
\* record, is early enough for the new one.
LEMMA AddInv ==
  ASSUME TwInv, NEW id \in ConnectionIds, NEW close_packet \in BOOLEAN,
         AddConnectionIdToTimeWait(id, close_packet)
  PROVE  TwInv'
<1>1. /\ connection_id_map \in Seq(Entry) /\ Ordered(connection_id_map) /\ now \in Nat
      /\ MaxConnections > 0 => Len(connection_id_map) <= MaxConnections
      /\ \A k \in DOMAIN connection_id_map : connection_id_map[k].time_added <= now
  BY DEF TwInv, TwTypeOK, OldestFirst, Ordered, WithinMaximum, InThePast
<1> DEFINE new == Added(connection_id_map, id, close_packet)
<1>2. /\ new \in Seq(Entry) /\ Ordered(new)
      /\ MaxConnections > 0 => Len(new) <= MaxConnections
      /\ \A i \in DOMAIN new :
           \/ new[i].id = id /\ new[i].time_added = now
           \/ \E k \in DOMAIN connection_id_map : new[i] = connection_id_map[k]
  BY <1>1, AddedList
<1> HIDE DEF new
<1>3. connection_id_map' = new /\ UNCHANGED <<now, connection_id_clean_up_alarm>>
  BY DEF AddConnectionIdToTimeWait, new
<1>4. QED
  BY <1>2, <1>3, NewListInv

\* ProcessPacket keeps the invariant: it changes no time and no order.
LEMMA CountInv ==
  ASSUME TwInv, NEW id \in ConnectionIds, CountPacket(id)
  PROVE  TwInv'
<1>1. connection_id_map \in Seq(Entry) /\ Ordered(connection_id_map)
  BY DEF TwInv, TwTypeOK, OldestFirst, Ordered
<1>2. id \in Ids(connection_id_map)
  BY DEF CountPacket, IsConnectionIdInTimeWait
<1> DEFINE new == Counted(connection_id_map, id)
<1>3. /\ new \in Seq(Entry) /\ Len(new) = Len(connection_id_map)
      /\ DOMAIN new = DOMAIN connection_id_map
      /\ \A i \in DOMAIN connection_id_map :
           /\ new[i].id = connection_id_map[i].id
           /\ new[i].time_added = connection_id_map[i].time_added
  BY <1>1, <1>2, CountedList
<1> HIDE DEF new
<1>4. connection_id_map' = new /\ UNCHANGED <<now, connection_id_clean_up_alarm>>
  BY DEF CountPacket, new
<1>5. Ordered(new)
  BY <1>1, <1>3 DEF Ordered
<1>6. QED
  BY <1>3, <1>4, <1>5, NewListInv DEF TwInv, WithinMaximum

\* So do both in one call chain, for a rejected packet.
LEMMA AddAndCountInv ==
  ASSUME TwInv, NEW id \in ConnectionIds, AddAndCountPacket(id)
  PROVE  TwInv'
<1>1. /\ connection_id_map \in Seq(Entry) /\ Ordered(connection_id_map) /\ now \in Nat
      /\ MaxConnections > 0 => Len(connection_id_map) <= MaxConnections
      /\ \A k \in DOMAIN connection_id_map : connection_id_map[k].time_added <= now
  BY DEF TwInv, TwTypeOK, OldestFirst, Ordered, WithinMaximum, InThePast
<1> DEFINE added == Added(connection_id_map, id, FALSE)
           new == Counted(added, id)
<1>2. /\ added \in Seq(Entry) /\ Ordered(added) /\ id \in Ids(added)
      /\ MaxConnections > 0 => Len(added) <= MaxConnections
      /\ \A i \in DOMAIN added :
           \/ added[i].id = id /\ added[i].time_added = now
           \/ \E k \in DOMAIN connection_id_map : added[i] = connection_id_map[k]
  <2>1. FALSE \in BOOLEAN
    OBVIOUS
  <2>2. added \in Seq(Entry) /\ Ordered(added) /\ id \in Ids(added)
    BY <1>1, <2>1, AddedList
  <2>3. MaxConnections > 0 => Len(added) <= MaxConnections
    BY <1>1, <2>1, AddedList
  <2>4. \A i \in DOMAIN added :
           \/ added[i].id = id /\ added[i].time_added = now
           \/ \E k \in DOMAIN connection_id_map : added[i] = connection_id_map[k]
    <3>1. \A i \in DOMAIN added :
             \/ /\ added[i].id = id
                /\ added[i].time_added = now
                /\ added[i].num_packets = PacketsCounted(connection_id_map, id)
             \/ \E k \in DOMAIN connection_id_map : added[i] = connection_id_map[k]
      BY <1>1, <2>1, AddedList
    <3> HIDE DEF added
    <3>2. QED
      BY <3>1
  <2>5. QED
    BY <2>2, <2>3, <2>4
<1>3. connection_id_map' = new /\ UNCHANGED <<now, connection_id_clean_up_alarm>>
  BY DEF AddAndCountPacket
<1> HIDE DEF added
<1>4. /\ new \in Seq(Entry) /\ Len(new) = Len(added)
      /\ DOMAIN new = DOMAIN added
      /\ \A i \in DOMAIN added :
           /\ new[i].id = added[i].id
           /\ new[i].time_added = added[i].time_added
  BY <1>2, CountedList
<1> HIDE DEF new
<1>5. Ordered(new)
  BY <1>2, <1>4 DEF Ordered
<1>6. QED
  BY <1>2, <1>3, <1>4, <1>5, NewListInv

\* CleanUpOldConnectionIds keeps the invariant: it retires a prefix, and sets
\* the alarm for the record that is then the oldest.
LEMMA CleanUpInv ==
  ASSUME TwInv, CleanUpOldConnectionIds
  PROVE  TwInv' /\ connection_id_clean_up_alarm' > now
<1>1. /\ connection_id_map \in Seq(Entry) /\ Ordered(connection_id_map) /\ now \in Nat
      /\ MaxConnections > 0 => Len(connection_id_map) <= MaxConnections
      /\ \A k \in DOMAIN connection_id_map : connection_id_map[k].time_added <= now
  BY DEF TwInv, TwTypeOK, OldestFirst, Ordered, WithinMaximum, InThePast
<1>2. PICK n \in 0..Len(connection_id_map) :
        /\ ExpiredUpTo(connection_id_map, now - TimeWaitPeriod, n)
        /\ connection_id_map' = SubSeq(connection_id_map, n + 1, Len(connection_id_map))
  BY DEF CleanUpOldConnectionIds
<1> DEFINE rest == SubSeq(connection_id_map, n + 1, Len(connection_id_map))
<1>3. n \in Nat /\ n <= Len(connection_id_map) /\ Len(connection_id_map) \in Nat
  BY <1>1
<1>4. /\ PartOf(rest, connection_id_map)
      /\ Len(rest) = Len(connection_id_map) - n
      /\ \A i \in DOMAIN rest : rest[i] = connection_id_map[i + n]
  BY <1>1, <1>3, TailPart
<1> HIDE DEF rest
<1>5. connection_id_map' = rest
  BY <1>2 DEF rest
<1>6. rest \in Seq(Entry) /\ Ordered(rest) /\ DOMAIN rest = 1..Len(rest)
  BY <1>4 DEF PartOf
<1>7. \A k \in DOMAIN rest : rest[k].time_added <= now
  BY <1>1, <1>4 DEF PartOf
<1>8. \A k \in DOMAIN rest : rest[k].time_added > now - TimeWaitPeriod
  <2>1. SUFFICES ASSUME NEW k \in DOMAIN rest
                 PROVE  rest[k].time_added > now - TimeWaitPeriod
    OBVIOUS
  <2>2. 1 \in DOMAIN rest /\ n < Len(connection_id_map) /\ (k = 1 \/ 1 < k)
    BY <1>3, <1>4, <1>6, <2>1
  <2>3. rest[1] = connection_id_map[n + 1]
    <3>1. rest[1] = connection_id_map[1 + n]
      BY <1>4, <2>2
    <3>2. QED
      BY <3>1, <1>3
  <2>4. rest[1].time_added > now - TimeWaitPeriod
    BY <1>2, <2>2, <2>3 DEF ExpiredUpTo
  <2>5. rest[1].time_added \in Nat /\ rest[k].time_added \in Nat
    BY <1>6, <2>1, <2>2, TimesAreNat
  <2>6. rest[1].time_added <= rest[k].time_added
    <3>1. CASE 1 < k
      BY <1>6, <2>1, <2>2, <3>1 DEF Ordered
    <3>2. CASE k = 1
      BY <2>5, <3>2
    <3>3. QED
      BY <2>2, <3>1, <3>2
  <2>7. QED
    BY <1>1, <2>4, <2>5, <2>6, TimeWaitAssumption
<1>9. connection_id_clean_up_alarm' = CleanUpDeadline(rest) /\ now' = now
  BY <1>5 DEF CleanUpOldConnectionIds
<1>10. /\ CleanUpDeadline(rest) \in Nat
       /\ CleanUpDeadline(rest) <= now + TimeWaitPeriod
       /\ CleanUpDeadline(rest) > now
       /\ \A k \in DOMAIN rest :
            CleanUpDeadline(rest) <= rest[k].time_added + TimeWaitPeriod
  BY <1>1, <1>6, <1>7, <1>8, DeadlineCovers
<1>11. MaxConnections > 0 => Len(rest) <= MaxConnections
  <2>1. Len(rest) <= Len(connection_id_map) /\ Len(rest) \in Nat
    BY <1>4, <1>6 DEF PartOf
  <2>2. QED
    BY <1>1, <1>3, <2>1, TimeWaitAssumption
<1>12. TwTypeOK' /\ OldestFirst' /\ WithinMaximum'
  BY <1>1, <1>5, <1>6, <1>9, <1>10, <1>11
  DEF TwTypeOK, OldestFirst, WithinMaximum, Ordered
<1>13. InThePast' /\ AlarmCoversEveryRecord'
  BY <1>5, <1>7, <1>9, <1>10 DEF InThePast, AlarmCoversEveryRecord
<1>14. QED
  BY <1>9, <1>10, <1>12, <1>13 DEF TwInv

\* The clock only makes the records older.
LEMMA TickInv ==
  ASSUME TwInv, Tick
  PROVE  TwInv'
<1>1. /\ now \in Nat /\ now' = now + 1
      /\ connection_id_map \in Seq(Entry)
      /\ UNCHANGED <<connection_id_map, connection_id_clean_up_alarm>>
  BY DEF TwInv, TwTypeOK, Tick
<1>2. connection_id_clean_up_alarm \in Nat
  BY DEF TwInv, TwTypeOK
<1>3. InThePast'
  <2>1. \A k \in DOMAIN connection_id_map : connection_id_map[k].time_added \in Nat
    BY <1>1, TimesAreNat
  <2>2. QED
    BY <1>1, <1>2, <2>1, TimeWaitAssumption DEF TwInv, InThePast
<1>4. QED
  BY <1>1, <1>2, <1>3
  DEF TwInv, TwTypeOK, OldestFirst, AlarmCoversEveryRecord, WithinMaximum

\* Every step of the manager keeps the invariant.
LEMMA TwNextInv == TwInv /\ [TwNext]_twVars => TwInv'
<1> SUFFICES ASSUME TwInv, [TwNext]_twVars PROVE TwInv'
  OBVIOUS
<1>1. CASE \E id \in ConnectionIds, close_packet \in BOOLEAN :
             AddConnectionIdToTimeWait(id, close_packet)
  BY <1>1, AddInv
<1>2. CASE \E id \in ConnectionIds : CountPacket(id)
  BY <1>2, CountInv
<1>3. CASE \E id \in ConnectionIds : AddAndCountPacket(id)
  BY <1>3, AddAndCountInv
<1>4. CASE CleanUpOldConnectionIds
  BY <1>4, CleanUpInv
<1>5. CASE Tick
  BY <1>5, TickInv
<1>6. CASE UNCHANGED twVars
  BY <1>6 DEF twVars, TwInv, TwTypeOK, OldestFirst, InThePast,
              AlarmCoversEveryRecord, WithinMaximum
<1>7. QED
  BY <1>1, <1>2, <1>3, <1>4, <1>5, <1>6 DEF TwNext

\* A step of the manager loses no id before its time.
LEMMA TwNextLeaves ==
  ASSUME TwInv, TwNext, NEW k \in DOMAIN connection_id_map,
         connection_id_map[k].id \notin Ids(connection_id_map')
  PROVE  LeavesAsPromised(connection_id_map, connection_id_map', k)
<1>1. /\ connection_id_map \in Seq(Entry) /\ Ordered(connection_id_map) /\ now \in Nat
      /\ MaxConnections > 0 => Len(connection_id_map) <= MaxConnections
      /\ \A j \in DOMAIN connection_id_map : connection_id_map[j].time_added <= now
  BY DEF TwInv, TwTypeOK, OldestFirst, Ordered, WithinMaximum, InThePast
<1>2. ASSUME NEW id \in ConnectionIds, NEW close_packet \in BOOLEAN,
             AddConnectionIdToTimeWait(id, close_packet)
      PROVE  LeavesAsPromised(connection_id_map, connection_id_map', k)
  <2> DEFINE new == Added(connection_id_map, id, close_packet)
  <2>1. connection_id_map[k].id \notin Ids(new) =>
          k = 1 /\ Len(connection_id_map) = MaxConnections /\ Len(new) = MaxConnections
    BY <1>1, AddedList
  <2>2. connection_id_map' = new
    BY <1>2 DEF AddConnectionIdToTimeWait
  <2> HIDE DEF new
  <2>3. QED
    BY <2>1, <2>2 DEF LeavesAsPromised
<1>3. ASSUME NEW id \in ConnectionIds, CountPacket(id)
      PROVE  FALSE
  <2>1. id \in Ids(connection_id_map)
    BY <1>3 DEF CountPacket, IsConnectionIdInTimeWait
  <2>2. connection_id_map' = Counted(connection_id_map, id)
    BY <1>3 DEF CountPacket
  <2>3. /\ DOMAIN connection_id_map' = DOMAIN connection_id_map
        /\ connection_id_map'[k].id = connection_id_map[k].id
    BY <1>1, <2>1, <2>2, CountedList
  <2>4. QED
    BY <2>3 DEF Ids
<1>4. ASSUME NEW id \in ConnectionIds, AddAndCountPacket(id)
      PROVE  LeavesAsPromised(connection_id_map, connection_id_map', k)
  <2> DEFINE added == Added(connection_id_map, id, FALSE)
  <2>1. /\ added \in Seq(Entry) /\ id \in Ids(added)
        /\ connection_id_map[k].id \notin Ids(added) =>
             k = 1 /\ Len(connection_id_map) = MaxConnections /\ Len(added) = MaxConnections
    BY <1>1, AddedList
  <2>2. connection_id_map' = Counted(added, id)
    BY <1>4 DEF AddAndCountPacket
  <2> HIDE DEF added
  <2>3. /\ DOMAIN connection_id_map' = DOMAIN added
        /\ Len(connection_id_map') = Len(added)
        /\ \A i \in DOMAIN added : connection_id_map'[i].id = added[i].id
    BY <2>1, <2>2, CountedList
  <2>4. connection_id_map[k].id \notin Ids(added)
    BY <2>3 DEF Ids
  <2>5. QED
    BY <2>1, <2>3, <2>4 DEF LeavesAsPromised
<1>5. CASE CleanUpOldConnectionIds
  <2>1. PICK n \in 0..Len(connection_id_map) :
          /\ ExpiredUpTo(connection_id_map, now - TimeWaitPeriod, n)
          /\ connection_id_map' = SubSeq(connection_id_map, n + 1, Len(connection_id_map))
    BY <1>5 DEF CleanUpOldConnectionIds
  <2>2. n \in Nat /\ n <= Len(connection_id_map) /\ Len(connection_id_map) \in Nat
    BY <1>1
  <2>3. k \in 1..Len(connection_id_map)
    BY <1>1
  <2>4. k \in 1..n
    <3>1. /\ PartOf(connection_id_map', connection_id_map)
          /\ Len(connection_id_map') = Len(connection_id_map) - n
          /\ \A i \in DOMAIN connection_id_map' :
               connection_id_map'[i] = connection_id_map[i + n]
      BY <1>1, <2>1, <2>2, TailPart
    <3>2. DOMAIN connection_id_map' = 1..(Len(connection_id_map) - n)
      BY <3>1 DEF PartOf
    <3>3. CASE k > n
      <4>1. k - n \in DOMAIN connection_id_map' /\ (k - n) + n = k
        BY <2>2, <2>3, <3>2, <3>3
      <4>2. QED
        BY <3>1, <4>1 DEF Ids
    <3>4. QED
      BY <2>2, <2>3, <3>3
  <2>5. connection_id_map[k].time_added <= now - TimeWaitPeriod
    BY <2>1, <2>4 DEF ExpiredUpTo
  <2>6. connection_id_map[k].time_added \in Nat
    BY <1>1, TimesAreNat
  <2>7. QED
    BY <1>1, <2>5, <2>6, TimeWaitAssumption DEF LeavesAsPromised
<1>6. CASE Tick
  BY <1>6 DEF Tick, Ids
<1>7. QED
  BY <1>2, <1>3, <1>4, <1>5, <1>6 DEF TwNext

-----------------------------------------------------------------------------
(* Numbers.  The induction theorems of the library take an operator as a   *)
(* parameter; a set of numbers and its least missing element do as well.   *)

\* A set of natural numbers that is not empty has a least element.
LEMMA LeastNumber ==
  ASSUME NEW S \in SUBSET Nat, NEW n \in S
  PROVE  \E m \in S : \A k \in S : m <= k
<1> DEFINE R == OpToRel(<, Nat)
<1>1. IsWellFoundedOn(R, Nat)
  BY NatLessThanWellFounded
<1>2. \E x \in S : \A y \in S : ~ (<<y, x>> \in R)
  <2> HIDE DEF R
  <2> QED BY <1>1, WFMin
<1>3. \A x, y \in Nat : y < x => <<y, x>> \in R
  BY DEF OpToRel
<1> HIDE DEF R
<1>4. PICK m \in S : \A y \in S : ~ (<<y, m>> \in R)
  BY <1>2
<1>5. ASSUME NEW k \in S PROVE m <= k
  <2>1. ~ (k < m)
    BY <1>3, <1>4
  <2>2. k \in Nat /\ m \in Nat
    OBVIOUS
  <2>3. QED
    BY <2>1, <2>2
<1>6. QED
  BY <1>5

\* Induction, for a set.
LEMMA InductionOnSet ==
  ASSUME NEW S, 0 \in S, \A n \in Nat : (\A m \in 0..n : m \in S) => n + 1 \in S
  PROVE  Nat \subseteq S
<1>1. SUFFICES ASSUME NEW n \in Nat \ S PROVE FALSE
  OBVIOUS
<1>2. PICK m \in Nat \ S : \A k \in Nat \ S : m <= k
  <2>1. Nat \ S \in SUBSET Nat
    OBVIOUS
  <2>2. QED
    BY <2>1, LeastNumber
<1>3. m # 0 /\ m - 1 \in Nat /\ \A k \in 0..(m - 1) : k \in S
  BY <1>2
<1>4. m \in S
  BY <1>3
<1>5. QED
  BY <1>2, <1>4

\* The same from each number to the next.
LEMMA StepsOnSet ==
  ASSUME NEW S, 0 \in S, \A n \in Nat : n \in S => n + 1 \in S
  PROVE  Nat \subseteq S
<1>1. ASSUME NEW n \in Nat, \A m \in 0..n : m \in S PROVE n + 1 \in S
  <2>1. n \in 0..n
    OBVIOUS
  <2>2. n \in S
    BY <1>1, <2>1
  <2>3. QED
    BY <2>2
<1>2. QED
  BY <1>1, InductionOnSet

\* The recursion of PowerOfTwo has a solution: one for every beginning of the
\* natural numbers, and all of them agree.
PowersUpTo(n) ==
  {f \in [0..n -> Nat] : \A k \in 0..n : f[k] = IF k = 0 THEN 1 ELSE 2 * f[k - 1]}

\* Two solutions agree where both are defined.
LEMMA PowersAgree ==
  ASSUME NEW m \in Nat, NEW n \in Nat, NEW f \in PowersUpTo(m), NEW g \in PowersUpTo(n)
  PROVE  \A k \in 0..m : k \in 0..n => f[k] = g[k]
<1> DEFINE S == {k \in Nat : k \in 0..m /\ k \in 0..n => f[k] = g[k]}
<1>1. 0 \in S
  BY DEF PowersUpTo
<1>2. ASSUME NEW k \in Nat, k \in S PROVE k + 1 \in S
  <2>1. SUFFICES ASSUME k + 1 \in 0..m, k + 1 \in 0..n PROVE f[k + 1] = g[k + 1]
    OBVIOUS
  <2>2. f[k] = g[k]
    BY <1>2, <2>1
  <2>3. f[k + 1] = 2 * f[k] /\ g[k + 1] = 2 * g[k]
    BY <2>1 DEF PowersUpTo
  <2>4. QED
    BY <2>2, <2>3
<1> HIDE DEF S
<1>3. Nat \subseteq S
  BY <1>1, <1>2, StepsOnSet
<1>4. QED
  BY <1>3 DEF S

\* Every beginning of the natural numbers has one.
LEMMA PowersExist ==
  ASSUME NEW n \in Nat
  PROVE  PowersUpTo(n) # {}
<1> DEFINE S == {m \in Nat : PowersUpTo(m) # {}}
<1>1. 0 \in S
  <2>1. [k \in 0..0 |-> 1] \in PowersUpTo(0)
    BY DEF PowersUpTo
  <2>2. QED
    BY <2>1
<1>2. ASSUME NEW m \in Nat, m \in S PROVE m + 1 \in S
  <2>1. PICK f : f \in PowersUpTo(m)
    BY <1>2
  <2> DEFINE g == [k \in 0..(m + 1) |-> IF k = m + 1 THEN 2 * f[m] ELSE f[k]]
  <2>2. f \in [0..m -> Nat] /\ \A k \in 0..m : f[k] = IF k = 0 THEN 1 ELSE 2 * f[k - 1]
    BY <2>1 DEF PowersUpTo
  <2>3. \A k \in 0..(m + 1) : g[k] \in Nat
    BY <2>2
  <2>4. ASSUME NEW k \in 0..(m + 1) PROVE g[k] = IF k = 0 THEN 1 ELSE 2 * g[k - 1]
    <3>1. CASE k = m + 1
      <4>1. m \in 0..(m + 1) /\ g[m] = f[m] /\ k # 0 /\ k - 1 = m /\ g[k] = 2 * f[m]
        BY <3>1
      <4>2. QED
        BY <4>1
    <3>2. CASE k \in 0..m /\ k # 0
      <4>1. k - 1 \in 0..(m + 1) /\ k - 1 # m + 1 /\ k # m + 1
        BY <3>2
      <4>2. g[k] = f[k] /\ g[k - 1] = f[k - 1]
        BY <4>1
      <4>3. QED
        BY <2>2, <3>2, <4>2
    <3>3. CASE k = 0
      BY <2>2, <3>3
    <3>4. QED
      BY <3>1, <3>2, <3>3
  <2>5. g \in PowersUpTo(m + 1)
    <3>1. g \in [0..(m + 1) -> Nat]
      BY <2>3
    <3> HIDE DEF g
    <3>2. QED
      BY <2>4, <3>1 DEF PowersUpTo
  <2>6. QED
    BY <2>5
<1> HIDE DEF S
<1>3. Nat \subseteq S
  BY <1>1, <1>2, StepsOnSet
<1>4. QED
  BY <1>3 DEF S

\* So PowerOfTwo is what its definition says.
LEMMA PowerOfTwoRecursion ==
  PowerOfTwo = [k \in Nat |-> IF k = 0 THEN 1 ELSE 2 * PowerOfTwo[k - 1]]
<1> DEFINE chosen(n) == CHOOSE f : f \in PowersUpTo(n)
           g == [n \in Nat |-> chosen(n)[n]]
<1>1. ASSUME NEW n \in Nat PROVE chosen(n) \in PowersUpTo(n)
  BY PowersExist
<1> HIDE DEF chosen
<1>2. ASSUME NEW k \in Nat PROVE g[k] = IF k = 0 THEN 1 ELSE 2 * g[k - 1]
  <2>1. chosen(k)[k] = IF k = 0 THEN 1 ELSE 2 * chosen(k)[k - 1]
    BY <1>1 DEF PowersUpTo
  <2>2. CASE k # 0
    <3>1. k - 1 \in Nat /\ k - 1 \in 0..(k - 1) /\ k - 1 \in 0..k
      BY <2>2
    <3>2. chosen(k - 1)[k - 1] = chosen(k)[k - 1]
      BY <1>1, <3>1, PowersAgree
    <3>3. QED
      BY <2>1, <2>2, <3>1, <3>2
  <2>3. CASE k = 0
    BY <2>1, <2>3
  <2>4. QED
    BY <2>2, <2>3
<1>3. g = [k \in Nat |-> IF k = 0 THEN 1 ELSE 2 * g[k - 1]]
  <2>1. [k \in Nat |-> IF k = 0 THEN 1 ELSE 2 * g[k - 1]] = [k \in Nat |-> g[k]]
    BY <1>2
  <2>2. QED
    BY <2>1
<1> HIDE DEF g
<1>4. QED
  BY <1>3, Zenon DEF PowerOfTwo

\* One digit of a bitwise and, in front of those of f.
AndStep(f, a, b) == IF a = 0 \/ b = 0 THEN 0 ELSE 2 * f[a \div 2][b \div 2] + (a % 2) * (b % 2)

\* The solutions of the recursion of BitAnd for first arguments up to n.
AndsUpTo(n) ==
  {f \in [0..n -> [Nat -> Nat]] : \A a \in 0..n, b \in Nat : f[a][b] = AndStep(f, a, b)}

\* Two solutions agree where both are defined: half of a number is below it.
LEMMA AndsAgree ==
  ASSUME NEW m \in Nat, NEW n \in Nat, NEW f \in AndsUpTo(m), NEW g \in AndsUpTo(n)
  PROVE  \A a \in Nat : a <= m /\ a <= n => \A b \in Nat : f[a][b] = g[a][b]
<1> DEFINE S == {a \in Nat : a <= m /\ a <= n => \A b \in Nat : f[a][b] = g[a][b]}
<1>1. /\ \A a \in 0..m, b \in Nat : f[a][b] = AndStep(f, a, b)
      /\ \A a \in 0..n, b \in Nat : g[a][b] = AndStep(g, a, b)
  BY DEF AndsUpTo
<1>2. 0 \in S
  <2>1. ASSUME NEW b \in Nat PROVE f[0][b] = 0 /\ g[0][b] = 0
    <3>1. f[0][b] = AndStep(f, 0, b) /\ g[0][b] = AndStep(g, 0, b)
      BY <1>1
    <3>2. QED
      BY <3>1 DEF AndStep
  <2>2. QED
    BY <2>1
<1>3. ASSUME NEW k \in Nat, \A i \in 0..k : i \in S PROVE k + 1 \in S
  <2>1. SUFFICES ASSUME k + 1 <= m, k + 1 <= n, NEW b \in Nat
                 PROVE  f[k + 1][b] = g[k + 1][b]
    OBVIOUS
  <2> DEFINE h == (k + 1) \div 2
  <2>2. h \in 0..k /\ h <= m /\ h <= n /\ b \div 2 \in Nat
    BY <2>1
  <2>3. f[h][b \div 2] = g[h][b \div 2]
    BY <1>3, <2>2
  <2>4. f[k + 1][b] = AndStep(f, k + 1, b) /\ g[k + 1][b] = AndStep(g, k + 1, b)
    BY <1>1, <2>1
  <2>5. QED
    BY <2>3, <2>4 DEF AndStep
<1> HIDE DEF S
<1>4. Nat \subseteq S
  BY <1>2, <1>3, InductionOnSet
<1>5. QED
  BY <1>4 DEF S

\* Every beginning of the natural numbers has one.
LEMMA AndsExist ==
  ASSUME NEW n \in Nat
  PROVE  AndsUpTo(n) # {}
<1> DEFINE S == {m \in Nat : AndsUpTo(m) # {}}
<1>1. 0 \in S
  <2> DEFINE f == [a \in 0..0 |-> [b \in Nat |-> 0]]
  <2>1. f \in [0..0 -> [Nat -> Nat]]
    OBVIOUS
  <2>2. \A a \in 0..0, b \in Nat : f[a][b] = AndStep(f, a, b)
    BY DEF AndStep
  <2> HIDE DEF f
  <2>3. f \in AndsUpTo(0)
    BY <2>1, <2>2 DEF AndsUpTo
  <2>4. QED
    BY <2>3
<1>2. ASSUME NEW m \in Nat, m \in S PROVE m + 1 \in S
  <2>1. PICK f : f \in AndsUpTo(m)
    BY <1>2
  <2> DEFINE g == [a \in 0..(m + 1) |-> [b \in Nat |-> AndStep(f, a, b)]]
  <2>2. /\ f \in [0..m -> [Nat -> Nat]]
        /\ \A a \in 0..m, b \in Nat : f[a][b] = AndStep(f, a, b)
    BY <2>1 DEF AndsUpTo
  <2>3. \A a \in 0..m, b \in Nat : f[a][b] \in Nat
    BY <2>2
  <2>4. \A a \in 0..(m + 1) : a # 0 => a \div 2 \in 0..m
    OBVIOUS
  <2>5. \A b \in Nat : b \div 2 \in Nat /\ b % 2 \in {0, 1}
    OBVIOUS
  <2>6. ASSUME NEW a \in 0..(m + 1), NEW b \in Nat PROVE AndStep(f, a, b) \in Nat
    <3>1. CASE a = 0 \/ b = 0
      BY <3>1 DEF AndStep
    <3>2. CASE a # 0 /\ b # 0
      <4>1. f[a \div 2][b \div 2] \in Nat
        BY <2>3, <2>4, <2>5, <3>2
      <4>2. (a % 2) * (b % 2) \in {0, 1}
        BY <2>5
      <4>3. QED
        BY <3>2, <4>1, <4>2 DEF AndStep
    <3>3. QED
      BY <3>1, <3>2
  <2>7. g \in [0..(m + 1) -> [Nat -> Nat]]
    BY <2>6
  <2>8. ASSUME NEW a \in 0..(m + 1), NEW b \in Nat PROVE g[a][b] = AndStep(g, a, b)
    <3>1. CASE a = 0 \/ b = 0
      BY <3>1 DEF AndStep
    <3>2. CASE a # 0 /\ b # 0
      <4>1. a \div 2 \in 0..m /\ a \div 2 \in 0..(m + 1) /\ b \div 2 \in Nat
        BY <2>4, <2>5, <3>2
      <4>2. g[a \div 2][b \div 2] = f[a \div 2][b \div 2]
        BY <2>2, <4>1
      <4>3. g[a][b] = AndStep(f, a, b)
        OBVIOUS
      <4> HIDE DEF g
      <4>4. QED
        BY <4>2, <4>3 DEF AndStep
    <3>3. QED
      BY <3>1, <3>2
  <2> HIDE DEF g
  <2>9. g \in AndsUpTo(m + 1)
    BY <2>7, <2>8 DEF AndsUpTo
  <2>10. QED
    BY <2>9
<1> HIDE DEF S
<1>3. Nat \subseteq S
  BY <1>1, <1>2, InductionOnSet
<1>4. QED
  BY <1>3 DEF S

\* So BitAnd is what its definition says.
LEMMA BitAndRecursion ==
  \A a, b \in Nat : BitAnd[a][b] = AndStep(BitAnd, a, b)
<1> DEFINE chosen(n) == CHOOSE f : f \in AndsUpTo(n)
           g == [a \in Nat |-> [b \in Nat |-> chosen(a)[a][b]]]
<1>1. ASSUME NEW n \in Nat PROVE chosen(n) \in AndsUpTo(n)
  BY AndsExist
<1> HIDE DEF chosen
<1>2. ASSUME NEW a \in Nat, NEW b \in Nat
      PROVE  g[a][b] \in Nat /\ g[a][b] = AndStep(g, a, b)
  <2> DEFINE f == chosen(a)
  <2>1. f \in AndsUpTo(a) /\ a \in 0..a
    BY <1>1
  <2> HIDE DEF f
  <2>2. f[a][b] = AndStep(f, a, b) /\ f[a][b] \in Nat
    BY <2>1 DEF AndsUpTo
  <2>3. a \div 2 \in Nat /\ a \div 2 <= a /\ b \div 2 \in Nat
    OBVIOUS
  <2>4. chosen(a \div 2)[a \div 2][b \div 2] = f[a \div 2][b \div 2]
    BY <1>1, <2>1, <2>3, AndsAgree
  <2>5. g[a][b] = f[a][b] /\ g[a \div 2][b \div 2] = f[a \div 2][b \div 2]
    BY <2>3, <2>4 DEF f
  <2> HIDE DEF g
  <2>6. QED
    BY <2>2, <2>5 DEF AndStep
<1>3. g \in [Nat -> [Nat -> Nat]]
  BY <1>2
<1> DEFINE digits(a, b) == IF a = 0 \/ b = 0 THEN 0
                           ELSE 2 * g[a \div 2][b \div 2] + (a % 2) * (b % 2)
<1>4. g = [a \in Nat |-> [b \in Nat |-> digits(a, b)]]
  <2> HIDE DEF g
  <2>1. \A a, b \in Nat : g[a][b] = digits(a, b)
    BY <1>2 DEF AndStep
  <2> HIDE DEF digits
  <2>2. QED
    BY <1>3, <2>1
<1> HIDE DEF g
<1>5. BitAnd = [a \in Nat |-> [b \in Nat |->
                  IF a = 0 \/ b = 0 THEN 0
                  ELSE 2 * BitAnd[a \div 2][b \div 2] + (a % 2) * (b % 2)]]
  BY <1>4, Zenon DEF BitAnd
<1>6. QED
  BY <1>5 DEF AndStep

\* Numbers that are not 0 and end in a digit each.
LEMMA BitAndOfDigits ==
  ASSUME NEW a \in Nat \ {0}, NEW b \in Nat \ {0}
  PROVE  BitAnd[a][b] = 2 * BitAnd[a \div 2][b \div 2] + (a % 2) * (b % 2)
BY BitAndRecursion DEF AndStep

\* A bitwise and is a number.
LEMMA BitAndType == \A a, b \in Nat : BitAnd[a][b] \in Nat
<1> DEFINE S == {a \in Nat : \A b \in Nat : BitAnd[a][b] \in Nat}
<1>1. 0 \in S
  BY BitAndRecursion DEF AndStep
<1>2. ASSUME NEW k \in Nat, \A i \in 0..k : i \in S PROVE k + 1 \in S
  <2>1. SUFFICES ASSUME NEW b \in Nat PROVE BitAnd[k + 1][b] \in Nat
    OBVIOUS
  <2> DEFINE n == k + 1
  <2>2. n \in Nat \ {0} /\ n \div 2 \in 0..k /\ n % 2 \in {0, 1}
    OBVIOUS
  <2>3. b \div 2 \in Nat /\ b % 2 \in {0, 1}
    OBVIOUS
  <2>4. BitAnd[n \div 2][b \div 2] \in Nat
    BY <1>2, <2>2, <2>3
  <2>5. CASE b = 0
    <3>1. BitAnd[n][b] = AndStep(BitAnd, n, b)
      BY <2>2, BitAndRecursion
    <3>2. QED
      BY <2>5, <3>1 DEF AndStep
  <2>6. CASE b # 0
    <3>1. BitAnd[n][b] = 2 * BitAnd[n \div 2][b \div 2] + (n % 2) * (b % 2)
      BY <2>2, <2>6, BitAndOfDigits
    <3>2. (n % 2) * (b % 2) \in {0, 1}
      BY <2>2, <2>3
    <3>3. QED
      BY <2>4, <3>1, <3>2
  <2>7. QED
    BY <2>5, <2>6
<1> HIDE DEF S
<1>3. Nat \subseteq S
  BY <1>1, <1>2, InductionOnSet
<1>4. QED
  BY <1>3 DEF S

\* The powers of 2 are positive, and each doubles the one before.
LEMMA PowersOfTwoGrow ==
  /\ PowerOfTwo[0] = 1
  /\ \A k \in Nat : PowerOfTwo[k] \in Nat \ {0} /\ PowerOfTwo[k + 1] = 2 * PowerOfTwo[k]
  /\ \A i, j \in Nat : i <= j => PowerOfTwo[i] <= PowerOfTwo[j]
<1>1. \A k \in Nat : PowerOfTwo[k] = IF k = 0 THEN 1 ELSE 2 * PowerOfTwo[k - 1]
  <2> DEFINE next(k) == IF k = 0 THEN 1 ELSE 2 * PowerOfTwo[k - 1]
  <2>1. PowerOfTwo = [k \in Nat |-> next(k)]
    BY PowerOfTwoRecursion
  <2> HIDE DEF next
  <2>2. \A k \in Nat : PowerOfTwo[k] = next(k)
    BY <2>1
  <2>3. QED
    BY <2>2 DEF next
<1>2. PowerOfTwo[0] = 1
  BY <1>1
<1>3. \A k \in Nat : PowerOfTwo[k + 1] = 2 * PowerOfTwo[k]
  <2>1. ASSUME NEW k \in Nat PROVE PowerOfTwo[k + 1] = 2 * PowerOfTwo[k]
    <3>1. k + 1 \in Nat /\ k + 1 # 0 /\ (k + 1) - 1 = k
      OBVIOUS
    <3>2. QED
      BY <1>1, <3>1
  <2>2. QED
    BY <2>1
<1>4. \A k \in Nat : PowerOfTwo[k] \in Nat \ {0}
  <2> DEFINE S == {k \in Nat : PowerOfTwo[k] \in Nat \ {0}}
  <2>1. 0 \in S
    BY <1>2
  <2>2. ASSUME NEW k \in Nat, k \in S PROVE k + 1 \in S
    <3>1. PowerOfTwo[k] \in Nat \ {0} /\ PowerOfTwo[k + 1] = 2 * PowerOfTwo[k]
      BY <1>3, <2>2
    <3>2. PowerOfTwo[k + 1] \in Nat \ {0}
      BY <3>1
    <3>3. QED
      BY <3>2
  <2> HIDE DEF S
  <2>3. Nat \subseteq S
    BY <2>1, <2>2, StepsOnSet
  <2>4. QED
    BY <2>3 DEF S
<1>5. ASSUME NEW i \in Nat PROVE \A j \in Nat : i <= j => PowerOfTwo[i] <= PowerOfTwo[j]
  <2> DEFINE S == {j \in Nat : i <= j => PowerOfTwo[i] <= PowerOfTwo[j]}
  <2>1. 0 \in S
    BY <1>4
  <2>2. ASSUME NEW k \in Nat, k \in S PROVE k + 1 \in S
    <3>1. i <= k => PowerOfTwo[i] <= PowerOfTwo[k]
      BY <2>2
    <3>2. ASSUME i <= k + 1 PROVE PowerOfTwo[i] <= PowerOfTwo[k + 1]
      <4>1. CASE i = k + 1
        <5>1. PowerOfTwo[k + 1] \in Nat
          BY <1>4
        <5>2. QED
          BY <4>1, <5>1
      <4>2. CASE i <= k
        <5>1. PowerOfTwo[i] <= PowerOfTwo[k]
          BY <3>1, <4>2
        <5>2. PowerOfTwo[k] \in Nat /\ PowerOfTwo[i] \in Nat
          BY <1>4
        <5>3. PowerOfTwo[k + 1] = 2 * PowerOfTwo[k]
          BY <1>3
        <5>4. QED
          BY <5>1, <5>2, <5>3
      <4>3. QED
        BY <3>2, <4>1, <4>2
    <3>3. QED
      BY <3>2
  <2> HIDE DEF S
  <2>3. Nat \subseteq S
    BY <2>1, <2>2, StepsOnSet
  <2>4. QED
    BY <2>3 DEF S
<1>6. QED
  BY <1>2, <1>3, <1>4, <1>5

\* n & n = n.
LEMMA BitAndOfItself == \A n \in Nat : BitAnd[n][n] = n
<1> DEFINE S == {n \in Nat : BitAnd[n][n] = n}
<1>1. 0 \in S
  BY BitAndRecursion DEF AndStep
<1>2. ASSUME NEW k \in Nat, \A i \in 0..k : i \in S PROVE k + 1 \in S
  <2> DEFINE n == k + 1
  <2>1. n \in Nat /\ n # 0 /\ n \div 2 \in 0..k /\ n % 2 \in {0, 1} /\ n = 2 * (n \div 2) + (n % 2)
    OBVIOUS
  <2> HIDE DEF n
  <2>2. BitAnd[n][n] = 2 * BitAnd[n \div 2][n \div 2] + (n % 2) * (n % 2)
    BY <2>1, BitAndOfDigits
  <2>3. BitAnd[n \div 2][n \div 2] = n \div 2
    BY <1>2, <2>1
  <2>4. (n % 2) * (n % 2) = n % 2
    BY <2>1
  <2>5. QED
    BY <2>1, <2>2, <2>3, <2>4 DEF n
<1> HIDE DEF S
<1>3. Nat \subseteq S
  BY <1>1, <1>2, InductionOnSet
<1>4. QED
  BY <1>3 DEF S

\* The bit trick, one digit at a time.
LEMMA ResponseToDigits ==
  /\ ShouldSendResponse(1)
  /\ \A m \in Nat \ {0} : /\ ShouldSendResponse(2 * m) <=> ShouldSendResponse(m)
                          /\ ~ ShouldSendResponse(2 * m + 1)
<1>1. ShouldSendResponse(1)
  BY BitAndRecursion DEF AndStep, ShouldSendResponse
<1>2. ASSUME NEW m \in Nat \ {0}
      PROVE  /\ ShouldSendResponse(2 * m) <=> ShouldSendResponse(m)
             /\ ~ ShouldSendResponse(2 * m + 1)
  <2>1. /\ 2 * m \in Nat /\ 2 * m # 0 /\ 2 * m - 1 \in Nat /\ 2 * m - 1 # 0
        /\ 2 * m + 1 \in Nat /\ 2 * m + 1 # 0 /\ (2 * m + 1) - 1 = 2 * m
        /\ (2 * m) \div 2 = m /\ (2 * m) % 2 = 0
        /\ (2 * m - 1) \div 2 = m - 1 /\ (2 * m - 1) % 2 = 1
        /\ (2 * m + 1) \div 2 = m /\ (2 * m + 1) % 2 = 1
        /\ m - 1 \in Nat
    OBVIOUS
  <2>2. BitAnd[2 * m][2 * m - 1] = 2 * BitAnd[m][m - 1]
    <3> DEFINE a == 2 * m
               b == 2 * m - 1
    <3>1. /\ a \in Nat \ {0} /\ b \in Nat \ {0}
          /\ a \div 2 = m /\ a % 2 = 0 /\ b \div 2 = m - 1 /\ b % 2 = 1
      BY <2>1
    <3> HIDE DEF a, b
    <3>2. BitAnd[a][b] = 2 * BitAnd[m][m - 1] + 0 * 1
      BY <3>1, BitAndOfDigits
    <3>3. BitAnd[m][m - 1] \in Nat
      BY <2>1, BitAndType
    <3>4. QED
      BY <3>2, <3>3 DEF a, b
  <2>3. BitAnd[2 * m + 1][2 * m] = 2 * BitAnd[m][m]
    <3> DEFINE a == 2 * m + 1
               b == 2 * m
    <3>1. /\ a \in Nat \ {0} /\ b \in Nat \ {0}
          /\ a \div 2 = m /\ a % 2 = 1 /\ b \div 2 = m /\ b % 2 = 0
      BY <2>1
    <3> HIDE DEF a, b
    <3>2. BitAnd[a][b] = 2 * BitAnd[m][m] + 1 * 0
      BY <3>1, BitAndOfDigits
    <3>3. BitAnd[m][m] \in Nat
      BY BitAndType
    <3>4. QED
      BY <3>2, <3>3 DEF a, b
  <2>4. BitAnd[m][m] = m
    BY BitAndOfItself
  <2>5. BitAnd[m][m - 1] \in Nat
    BY <2>1, BitAndType
  <2>6. QED
    BY <2>1, <2>2, <2>3, <2>4, <2>5 DEF ShouldSendResponse
<1>3. QED
  BY <1>1, <1>2

\* The bit trick of ShouldSendResponse: n & (n - 1) = 0 for exactly the powers
\* of 2, whatever the count, "to throttle the number of responses".
THEOREM RespondsToPowersOfTwo ==
  \A n \in Nat \ {0} : ShouldSendResponse(n) <=> \E k \in Nat : n = PowerOfTwo[k]
<1> DEFINE IsPower(n) == \E k \in Nat : n = PowerOfTwo[k]
           S == {n \in Nat : n # 0 => (ShouldSendResponse(n) <=> IsPower(n))}
<1>1. 0 \in S
  OBVIOUS
<1>2. IsPower(1)
  BY PowersOfTwoGrow
<1>3. ASSUME NEW m \in Nat \ {0}
      PROVE  /\ IsPower(2 * m) <=> IsPower(m)
             /\ ~ IsPower(2 * m + 1)
  <2>1. ASSUME NEW k \in Nat, m = PowerOfTwo[k] PROVE IsPower(2 * m)
    <3>1. 2 * m = PowerOfTwo[k + 1] /\ k + 1 \in Nat
      BY <2>1, PowersOfTwoGrow
    <3>2. QED
      BY <3>1
  <2>2. ASSUME NEW k \in Nat, 2 * m = PowerOfTwo[k] \/ 2 * m + 1 = PowerOfTwo[k]
        PROVE  k - 1 \in Nat /\ PowerOfTwo[k - 1] = m /\ 2 * m = PowerOfTwo[k]
    <3>1. k # 0
      BY <2>2, PowersOfTwoGrow
    <3>2. k - 1 \in Nat /\ k = (k - 1) + 1
      BY <3>1
    <3>3. PowerOfTwo[k] = 2 * PowerOfTwo[k - 1] /\ PowerOfTwo[k - 1] \in Nat
      BY <3>2, PowersOfTwoGrow
    <3>4. QED
      BY <2>2, <3>2, <3>3
  <2>3. QED
    BY <2>1, <2>2
<1>4. ASSUME NEW k \in Nat, \A i \in 0..k : i \in S PROVE k + 1 \in S
  <2> DEFINE n == k + 1
             m == n \div 2
  <2>1. n \in Nat \ {0} /\ m \in 0..k /\ (n = 2 * m \/ n = 2 * m + 1)
    OBVIOUS
  <2>2. m = 0 => n = 1
    BY <2>1
  <2>3. m \in S
    BY <1>4, <2>1
  <2> HIDE DEF n, m, IsPower
  <2>4. CASE m = 0
    BY <1>2, <2>1, <2>2, <2>4, ResponseToDigits DEF n
  <2>5. CASE m # 0
    <3>1. m \in Nat \ {0} /\ (ShouldSendResponse(m) <=> IsPower(m))
      BY <2>1, <2>3, <2>5
    <3>2. ShouldSendResponse(n) <=> IsPower(n)
      <4>1. CASE n = 2 * m
        BY <1>3, <3>1, <4>1, ResponseToDigits
      <4>2. CASE n = 2 * m + 1
        BY <1>3, <3>1, <4>2, ResponseToDigits
      <4>3. QED
        BY <2>1, <4>1, <4>2
    <3>3. QED
      BY <2>1, <3>2 DEF n
  <2>6. QED
    BY <2>4, <2>5
<1> HIDE DEF S
<1>5. Nat \subseteq S
  BY <1>1, <1>4, InductionOnSet
<1>6. QED
  BY <1>5 DEF S

\* Of n packets, a were answered: one more than log2(n), or none of none.
BackedOff(n, a) ==
  IF n = 0 THEN a = 0
  ELSE /\ a > 0
       /\ PowerOfTwo[a - 1] <= n
       /\ n < PowerOfTwo[a]

\* The next packet keeps that relation, answered or not.
LEMMA BacksOff ==
  ASSUME NEW n \in Nat, NEW a \in Nat, BackedOff(n, a)
  PROVE  BackedOff(n + 1, IF ShouldSendResponse(n + 1) THEN a + 1 ELSE a)
<1>1. CASE n = 0
  <2>1. a = 0 /\ n + 1 = 1
    BY <1>1 DEF BackedOff
  <2>2. PowerOfTwo[0] = 1 /\ PowerOfTwo[1] = 2
    <3>1. PowerOfTwo[0 + 1] = 2 * PowerOfTwo[0]
      BY PowersOfTwoGrow
    <3>2. QED
      BY <3>1, PowersOfTwoGrow
  <2>3. QED
    BY <2>1, <2>2, ResponseToDigits DEF BackedOff
<1>2. CASE n # 0
  <2>1. a \in Nat \ {0} /\ a - 1 \in Nat /\ PowerOfTwo[a - 1] <= n /\ n < PowerOfTwo[a]
    BY <1>2 DEF BackedOff
  <2>2. /\ PowerOfTwo[a - 1] \in Nat /\ PowerOfTwo[a] \in Nat
        /\ PowerOfTwo[a + 1] = 2 * PowerOfTwo[a]
    BY <2>1, PowersOfTwoGrow
  <2>3. CASE n + 1 = PowerOfTwo[a]
    <3>1. ShouldSendResponse(n + 1)
      BY <2>3, RespondsToPowersOfTwo
    <3>2. QED
      BY <1>2, <2>1, <2>2, <2>3, <3>1 DEF BackedOff
  <2>4. CASE n + 1 < PowerOfTwo[a]
    <3>1. ASSUME NEW k \in Nat, n + 1 = PowerOfTwo[k] PROVE FALSE
      <4>1. k <= a - 1 => PowerOfTwo[k] <= PowerOfTwo[a - 1]
        BY <2>1, PowersOfTwoGrow
      <4>2. a <= k => PowerOfTwo[a] <= PowerOfTwo[k]
        BY PowersOfTwoGrow
      <4>3. QED
        BY <2>1, <2>2, <2>4, <3>1, <4>1, <4>2
    <3>2. ~ ShouldSendResponse(n + 1)
      BY <3>1, RespondsToPowersOfTwo
    <3>3. QED
      BY <1>2, <2>1, <2>2, <2>4, <3>2 DEF BackedOff
  <2>5. QED
    BY <2>1, <2>2, <2>3, <2>4
<1>3. QED
  BY <1>1, <1>2

-----------------------------------------------------------------------------
(* The throttle *)

\* The count of an id on a list is that of its one record.
LEMMA CountOfRecord ==
  ASSUME NEW list \in Seq(Entry), Ordered(list), NEW k \in DOMAIN list
  PROVE  PacketsCounted(list, list[k].id) = list[k].num_packets
<1> DEFINE id == list[k].id
<1>1. id \in Ids(list)
  BY DEF Ids
<1>2. Find(list, id) \in DOMAIN list /\ list[Find(list, id)].id = id
  BY <1>1, FindFinds
<1>3. Find(list, id) = k
  <2>1. DOMAIN list = 1..Len(list)
    OBVIOUS
  <2>2. QED
    BY <1>2, <2>1 DEF Ordered
<1>4. QED
  BY <1>1, <1>3 DEF PacketsCounted

\* The counts on a list whose records carry the counts of another.
LEMMA CountsCarriedOver ==
  ASSUME NEW list \in Seq(Entry), NEW new \in Seq(Entry),
         \A i \in DOMAIN new : new[i].num_packets = PacketsCounted(list, new[i].id),
         NEW id \in Ids(new)
  PROVE  PacketsCounted(new, id) = PacketsCounted(list, id)
BY FindFinds DEF PacketsCounted

\* AddConnectionIdToTimeWait keeps every count, that of a reinserted id too.
LEMMA AddedCounts ==
  ASSUME TwInv, NEW id \in ConnectionIds, NEW close_packet \in BOOLEAN
  PROVE  \A other \in Ids(Added(connection_id_map, id, close_packet)) :
           PacketsCounted(Added(connection_id_map, id, close_packet), other) =
             PacketsCounted(connection_id_map, other)
<1> DEFINE new == Added(connection_id_map, id, close_packet)
<1>1. /\ connection_id_map \in Seq(Entry) /\ Ordered(connection_id_map) /\ now \in Nat
      /\ MaxConnections > 0 => Len(connection_id_map) <= MaxConnections
      /\ \A k \in DOMAIN connection_id_map : connection_id_map[k].time_added <= now
  BY DEF TwInv, TwTypeOK, OldestFirst, Ordered, WithinMaximum, InThePast
<1>2. /\ new \in Seq(Entry)
      /\ \A i \in DOMAIN new :
           \/ /\ new[i].id = id
              /\ new[i].num_packets = PacketsCounted(connection_id_map, id)
           \/ \E k \in DOMAIN connection_id_map : new[i] = connection_id_map[k]
  BY <1>1, AddedList
<1> HIDE DEF new
<1>3. \A i \in DOMAIN new :
        new[i].num_packets = PacketsCounted(connection_id_map, new[i].id)
  BY <1>1, <1>2, CountOfRecord
<1>4. \A other \in Ids(new) :
        PacketsCounted(new, other) = PacketsCounted(connection_id_map, other)
  BY <1>1, <1>2, <1>3, CountsCarriedOver
<1>5. QED
  BY <1>4 DEF new

\* ProcessPacket counts one packet, for one id.
LEMMA CountedCounts ==
  ASSUME NEW list \in Seq(Entry), Ordered(list), NEW id \in Ids(list)
  PROVE  /\ Ids(Counted(list, id)) = Ids(list)
         /\ \A other \in Ids(list) :
              PacketsCounted(Counted(list, id), other) =
                IF other = id THEN PacketsCounted(list, other) + 1
                ELSE PacketsCounted(list, other)
<1> DEFINE new == Counted(list, id)
<1>1. /\ new \in Seq(Entry) /\ DOMAIN new = DOMAIN list
      /\ \A i \in DOMAIN list :
           /\ new[i].id = list[i].id
           /\ new[i].num_packets = IF i = Find(list, id) THEN list[i].num_packets + 1
                                   ELSE list[i].num_packets
           /\ new[i].time_added = list[i].time_added
  BY CountedList
<1> HIDE DEF new
<1>2. Ids(new) = Ids(list)
  BY <1>1 DEF Ids
<1>3. Ordered(new)
  BY <1>1 DEF Ordered
<1>4. ASSUME NEW k \in DOMAIN list
      PROVE  PacketsCounted(new, list[k].id) =
               IF list[k].id = id THEN PacketsCounted(list, list[k].id) + 1
               ELSE PacketsCounted(list, list[k].id)
  <2>1. PacketsCounted(new, list[k].id) = new[k].num_packets
    BY <1>1, <1>3, CountOfRecord
  <2>2. PacketsCounted(list, list[k].id) = list[k].num_packets
    BY CountOfRecord
  <2>3. k = Find(list, id) <=> list[k].id = id
    <3>1. Find(list, id) \in DOMAIN list /\ list[Find(list, id)].id = id
      BY FindFinds
    <3>2. DOMAIN list = 1..Len(list)
      OBVIOUS
    <3>3. QED
      BY <3>1, <3>2 DEF Ordered
  <2>4. QED
    BY <1>1, <2>1, <2>2, <2>3
<1>5. QED
  BY <1>2, <1>4 DEF Ids, new

\* Why AnswersBackOff holds: the history of an id counts what its record
\* counts, and nothing for an id that is not on the list.
ThrottleInv ==
  /\ TwInv
  /\ drawn \in [ConnectionIds -> Nat]
  /\ answered \in [ConnectionIds -> Nat]
  /\ \A id \in ConnectionIds : /\ drawn[id] = PacketsCounted(connection_id_map, id)
                               /\ BackedOff(drawn[id], answered[id])

\* The counts after a step that processes a packet for each id of packets.
CountsOf(packets) ==
  \A id \in Ids(connection_id_map') :
    PacketsCounted(connection_id_map', id) =
      IF id \in packets THEN PacketsCounted(connection_id_map, id) + 1
      ELSE PacketsCounted(connection_id_map, id)

\* A step remembered as it counts keeps the invariant.
LEMMA RememberedInv ==
  ASSUME ThrottleInv, TwInv', NEW packets, CountsOf(packets), Remember(packets)
  PROVE  ThrottleInv'
<1> DEFINE list == connection_id_map'
           responds(id) == ShouldSendResponse(PacketsCounted(list, id))
<1>1. /\ drawn' = [id \in ConnectionIds |->
                     IF id \notin Ids(list) THEN 0
                     ELSE IF id \in packets THEN drawn[id] + 1 ELSE drawn[id]]
      /\ answered' = [id \in ConnectionIds |->
                        IF id \notin Ids(list) THEN 0
                        ELSE IF id \in {j \in packets : responds(j)}
                             THEN answered[id] + 1 ELSE answered[id]]
  BY DEF Remember
<1> HIDE DEF list, responds
<1>2. ASSUME NEW id \in ConnectionIds
      PROVE  /\ drawn'[id] \in Nat /\ answered'[id] \in Nat
             /\ drawn'[id] = PacketsCounted(list, id)
             /\ BackedOff(drawn'[id], answered'[id])
  <2>1. /\ drawn[id] \in Nat /\ answered[id] \in Nat
        /\ drawn[id] = PacketsCounted(connection_id_map, id)
        /\ BackedOff(drawn[id], answered[id])
    BY DEF ThrottleInv
  <2>2. CASE id \notin Ids(list)
    <3>1. drawn'[id] = 0 /\ answered'[id] = 0
      BY <1>1, <2>2
    <3>2. PacketsCounted(list, id) = 0
      BY <2>2 DEF PacketsCounted
    <3>3. QED
      BY <3>1, <3>2 DEF BackedOff
  <2>3. CASE id \in Ids(list) /\ id \in packets
    <3>1. PacketsCounted(list, id) = drawn[id] + 1
      BY <2>1, <2>3 DEF CountsOf, list
    <3>2. drawn'[id] = drawn[id] + 1
      BY <1>1, <2>3
    <3>3. answered'[id] = IF ShouldSendResponse(drawn[id] + 1)
                          THEN answered[id] + 1 ELSE answered[id]
      BY <1>1, <2>3, <3>1 DEF responds
    <3>4. QED
      BY <2>1, <3>1, <3>2, <3>3, BacksOff
  <2>4. CASE id \in Ids(list) /\ id \notin packets
    <3>1. drawn'[id] = drawn[id] /\ answered'[id] = answered[id]
      BY <1>1, <2>4
    <3>2. PacketsCounted(list, id) = drawn[id]
      BY <2>1, <2>4 DEF CountsOf, list
    <3>3. QED
      BY <2>1, <3>1, <3>2
  <2>5. QED
    BY <2>2, <2>3, <2>4
<1>3. drawn' \in [ConnectionIds -> Nat] /\ answered' \in [ConnectionIds -> Nat]
  <2>1. DOMAIN drawn' = ConnectionIds /\ DOMAIN answered' = ConnectionIds
    BY <1>1
  <2>2. drawn' = [id \in ConnectionIds |-> drawn'[id]]
    BY <1>1
  <2>3. answered' = [id \in ConnectionIds |-> answered'[id]]
    BY <1>1
  <2>4. QED
    BY <1>2, <2>2, <2>3
<1>4. QED
  BY <1>2, <1>3 DEF ThrottleInv, list

\* Every step of the manager is remembered as it counts.
LEMMA ThrottleNextInv == ThrottleInv /\ [ThrottleNext]_throttleVars => ThrottleInv'
<1> SUFFICES ASSUME ThrottleInv, [ThrottleNext]_throttleVars PROVE ThrottleInv'
  OBVIOUS
<1>1. /\ TwInv
      /\ connection_id_map \in Seq(Entry) /\ Ordered(connection_id_map) /\ now \in Nat
      /\ MaxConnections > 0 => Len(connection_id_map) <= MaxConnections
      /\ \A k \in DOMAIN connection_id_map : connection_id_map[k].time_added <= now
  BY DEF ThrottleInv, TwInv, TwTypeOK, OldestFirst, Ordered, WithinMaximum, InThePast
<1>2. ASSUME NEW id \in ConnectionIds, NEW close_packet \in BOOLEAN,
             AddConnectionIdToTimeWait(id, close_packet), Remember({})
      PROVE  ThrottleInv'
  <2>1. connection_id_map' = Added(connection_id_map, id, close_packet)
    BY <1>2 DEF AddConnectionIdToTimeWait
  <2>2. CountsOf({})
    BY <1>1, <2>1, AddedCounts DEF CountsOf
  <2>3. QED
    BY <1>1, <1>2, <2>2, AddInv, RememberedInv
<1>3. ASSUME NEW id \in ConnectionIds, CountPacket(id), Remember({id})
      PROVE  ThrottleInv'
  <2>1. id \in Ids(connection_id_map)
    BY <1>3 DEF CountPacket, IsConnectionIdInTimeWait
  <2>2. connection_id_map' = Counted(connection_id_map, id)
    BY <1>3 DEF CountPacket
  <2>3. CountsOf({id})
    BY <1>1, <2>1, <2>2, CountedCounts DEF CountsOf
  <2>4. QED
    BY <1>1, <1>3, <2>3, CountInv, RememberedInv
<1>4. ASSUME NEW id \in ConnectionIds, AddAndCountPacket(id), Remember({id})
      PROVE  ThrottleInv'
  <2> DEFINE added == Added(connection_id_map, id, FALSE)
  <2>1. added \in Seq(Entry) /\ Ordered(added) /\ id \in Ids(added)
    BY <1>1, AddedList
  <2>2. \A other \in Ids(added) :
          PacketsCounted(added, other) = PacketsCounted(connection_id_map, other)
    BY <1>1, AddedCounts
  <2>3. connection_id_map' = Counted(added, id)
    BY <1>4 DEF AddAndCountPacket
  <2> HIDE DEF added
  <2>4. CountsOf({id})
    BY <2>1, <2>2, <2>3, CountedCounts DEF CountsOf
  <2>5. QED
    BY <1>1, <1>4, <2>4, AddAndCountInv, RememberedInv
<1>5. CASE CleanUpOldConnectionIds /\ Remember({})
  <2>1. PICK n \in 0..Len(connection_id_map) :
          connection_id_map' = SubSeq(connection_id_map, n + 1, Len(connection_id_map))
    BY <1>5 DEF CleanUpOldConnectionIds
  <2>2. n \in Nat /\ n <= Len(connection_id_map)
    BY <1>1
  <2>3. /\ connection_id_map' \in Seq(Entry)
        /\ \A i \in DOMAIN connection_id_map' :
             \E k \in DOMAIN connection_id_map :
               connection_id_map'[i] = connection_id_map[k]
    BY <1>1, <2>1, <2>2, TailPart DEF PartOf
  <2>4. \A i \in DOMAIN connection_id_map' :
          connection_id_map'[i].num_packets =
            PacketsCounted(connection_id_map, connection_id_map'[i].id)
    BY <1>1, <2>3, CountOfRecord
  <2>5. CountsOf({})
    BY <1>1, <2>3, <2>4, CountsCarriedOver DEF CountsOf
  <2>6. QED
    BY <1>1, <1>5, <2>5, CleanUpInv, RememberedInv
<1>6. CASE Tick /\ Remember({})
  <2>1. CountsOf({})
    BY <1>6 DEF CountsOf, Tick
  <2>2. QED
    BY <1>1, <1>6, <2>1, TickInv, RememberedInv
<1>7. CASE UNCHANGED throttleVars
  <2>1. UNCHANGED twVars
    BY <1>7 DEF throttleVars
  <2>2. TwInv'
    BY <1>1, <2>1, TwNextInv
  <2>3. QED
    BY <1>7, <2>2 DEF throttleVars, twVars, ThrottleInv
<1>8. QED
  BY <1>2, <1>3, <1>4, <1>5, <1>6, <1>7 DEF ThrottleNext

-----------------------------------------------------------------------------
(* The theorems *)

\* The inductive invariant holds in every state of the manager.
THEOREM TwInvariant == TwSpec => []TwInv
<1>1. TwInit => TwInv
  BY TwInitInv
<1>2. TwInv /\ [TwNext]_twVars => TwInv'
  BY TwNextInv
<1>3. QED
  BY <1>1, <1>2, PTL DEF TwSpec

\* Type correctness of the manager.
THEOREM TwTypeCorrect == TwSpec => []TwTypeOK
<1>1. TwInv => TwTypeOK
  BY DEF TwInv
<1>2. QED
  BY <1>1, TwInvariant, PTL

\* The map holds one record of an id, in the order of age.
THEOREM TwOldestFirst == TwSpec => []OldestFirst
<1>1. TwInv => OldestFirst
  BY DEF TwInv
<1>2. QED
  BY <1>1, TwInvariant, PTL

\* The list never exceeds the configured maximum.
THEOREM TwWithinMaximum == TwSpec => []WithinMaximum
<1>1. TwInv => WithinMaximum
  BY DEF TwInv
<1>2. QED
  BY <1>1, TwInvariant, PTL

\* The clean-up alarm is never later than the end of a record's period.
THEOREM TwAlarmCovers == TwSpec => []AlarmCoversEveryRecord
<1>1. TwInv => AlarmCoversEveryRecord
  BY DEF TwInv
<1>2. QED
  BY <1>1, TwInvariant, PTL

\* The alarm is re-armed for a time to come.
THEOREM TwAlarmMovesForward == TwSpec => AlarmMovesForward
<1> DEFINE A == connection_id_clean_up_alarm' # connection_id_clean_up_alarm =>
                  connection_id_clean_up_alarm' > now
<1>1. TwInv /\ [TwNext]_twVars => [A]_twVars
  <2>1. SUFFICES ASSUME TwInv, TwNext,
                        connection_id_clean_up_alarm' # connection_id_clean_up_alarm
                 PROVE  connection_id_clean_up_alarm' > now
    OBVIOUS
  <2>2. CleanUpOldConnectionIds
    BY <2>1 DEF TwNext, AddConnectionIdToTimeWait, CountPacket, AddAndCountPacket, Tick
  <2>3. QED
    BY <2>1, <2>2, CleanUpInv
<1>2. QED
  BY <1>1, TwInvariant, PTL DEF TwSpec, AlarmMovesForward

\* An id stays for its period unless the list overflows, whatever is added,
\* reinserted and counted.
THEOREM TwLeavesOnlyWhenDue == TwSpec => LeavesOnlyWhenDue
<1> DEFINE A == \A k \in DOMAIN connection_id_map :
                  connection_id_map[k].id \notin Ids(connection_id_map') =>
                    \/ connection_id_map[k].time_added + TimeWaitPeriod <= now
                    \/ /\ k = 1
                       /\ Len(connection_id_map) = MaxConnections
                       /\ Len(connection_id_map') = MaxConnections
<1>1. TwInv /\ [TwNext]_twVars => [A]_twVars
  <2>1. SUFFICES ASSUME TwInv, TwNext,
                        NEW k \in DOMAIN connection_id_map,
                        connection_id_map[k].id \notin Ids(connection_id_map')
                 PROVE  \/ connection_id_map[k].time_added + TimeWaitPeriod <= now
                        \/ /\ k = 1
                           /\ Len(connection_id_map) = MaxConnections
                           /\ Len(connection_id_map') = MaxConnections
    OBVIOUS
  <2>2. LeavesAsPromised(connection_id_map, connection_id_map', k)
    BY <2>1, TwNextLeaves
  <2>3. QED
    BY <2>2 DEF LeavesAsPromised
<1>2. QED
  BY <1>1, TwInvariant, PTL DEF TwSpec, LeavesOnlyWhenDue

\* The history of TimeWaitThrottle only watches: what holds of TimeWaitList
\* holds of it.
THEOREM ThrottleOnlyWatches == ThrottleSpec => TwSpec
<1>1. ThrottleInit => TwInit
  BY DEF ThrottleInit
<1>2. [ThrottleNext]_throttleVars => [TwNext]_twVars
  BY DEF ThrottleNext, TwNext, throttleVars
<1>3. QED
  BY <1>1, <1>2, PTL DEF ThrottleSpec, TwSpec

\* The history of an id is the count of its record, through trimming,
\* reinsertion, clean-up and a packet that brings its id to the list.
THEOREM ThrottleInvariant == ThrottleSpec => []ThrottleInv
<1>1. ThrottleInit => ThrottleInv
  <2> SUFFICES ASSUME ThrottleInit PROVE ThrottleInv
    OBVIOUS
  <2>1. TwInv
    BY TwInitInv DEF ThrottleInit
  <2>2. \A id \in ConnectionIds : PacketsCounted(connection_id_map, id) = 0
    BY DEF ThrottleInit, TwInit, PacketsCounted, Ids
  <2>3. QED
    BY <2>1, <2>2 DEF ThrottleInit, ThrottleInv, BackedOff
<1>2. ThrottleInv /\ [ThrottleNext]_throttleVars => ThrottleInv'
  BY ThrottleNextInv
<1>3. QED
  BY <1>1, <1>2, PTL DEF ThrottleSpec

\* However long an id stays and however often it is added again, one more than
\* log2 of its packets are answered.
THEOREM TwAnswersBackOff == ThrottleSpec => []AnswersBackOff
<1>1. ThrottleInv => AnswersBackOff
  <2> SUFFICES ASSUME ThrottleInv, NEW id \in Ids(connection_id_map), drawn[id] > 0
               PROVE  /\ answered[id] > 0
                      /\ PowerOfTwo[answered[id] - 1] <= drawn[id]
                      /\ drawn[id] < PowerOfTwo[answered[id]]
    BY DEF AnswersBackOff
  <2>1. id \in ConnectionIds
    <3>1. connection_id_map \in Seq(Entry)
      BY DEF ThrottleInv, TwInv, TwTypeOK
    <3>2. PICK k \in DOMAIN connection_id_map : id = connection_id_map[k].id
      BY DEF Ids
    <3>3. connection_id_map[k] \in Entry
      BY <3>1
    <3>4. QED
      BY <3>2, <3>3 DEF Entry
  <2>2. drawn[id] \in Nat /\ BackedOff(drawn[id], answered[id])
    BY <2>1 DEF ThrottleInv
  <2>3. QED
    BY <2>2 DEF BackedOff
<1>2. QED
  BY <1>1, ThrottleInvariant, PTL
=============================================================================

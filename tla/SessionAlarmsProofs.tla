------------------------ MODULE SessionAlarmsProofs ------------------------
(***************************************************************************)
(* Proofs about the alarms of EpollServer and their owners, for every set  *)
(* of alarms and sessions, every timeout and every clock: the records of   *)
(* an alarm agree, the alarm loop runs what is due, its iterator survives  *)
(* what callbacks do to the map, and nothing points to an alarm that is    *)
(* gone.                                                                   *)
(***************************************************************************)
EXTENDS SessionAlarms, SequenceTheorems, FiniteSetTheorems, TLAPS

AlarmEntry == [time : Times, cb : Alarms]

\* The order of the multimap, which the loop relies on when it stops at the
\* first entry that is not due.
Sorted(map) == \A i, j \in DOMAIN map : i < j => map[i].time <= map[j].time

\* Where position i moves when an entry is put in at p, and when p is taken out.
Up(i, p) == IF i < p THEN i ELSE i + 1
Down(i, p) == IF i < p THEN i ELSE i - 1

InsertedAt(new, map, p, entry) ==
  /\ new \in Seq(AlarmEntry)
  /\ p \in DOMAIN new /\ new[p] = entry
  /\ \A i \in DOMAIN map : Up(i, p) \in DOMAIN new /\ new[Up(i, p)] = map[i]
  /\ \A j \in DOMAIN new : j = p \/ \E i \in DOMAIN map : j = Up(i, p)

RemovedAt(new, map, p) ==
  /\ new \in Seq(AlarmEntry)
  /\ \A i \in DOMAIN map \ {p} : Down(i, p) \in DOMAIN new /\ new[Down(i, p)] = map[i]
  /\ \A j \in DOMAIN new : \E i \in DOMAIN map \ {p} : j = Down(i, p)

\* RecordsAgree, position by position.  The entry at hole is the one being run.
Agree(map, hole, reg, dl, all) ==
  /\ \A cb \in Alarms : /\ reg[cb] <=> dl[cb] # 0
                        /\ reg[cb] <=> cb \in all
                        /\ reg[cb] => \E p \in DOMAIN map \ {hole} : map[p].cb = cb
  /\ \A p \in DOMAIN map \ {hole} : reg[map[p].cb] /\ map[p].time = dl[map[p].cb]
  /\ \A p, q \in DOMAIN map \ {hole} : map[p].cb = map[q].cb => p = q

\* The alarms that still have to be run are not behind the iterator: what makes
\* DueAlarmsAreRun inductive.
Ahead(map, hole, c, alarms) ==
  \A cb \in alarms :
    \E p \in DOMAIN map \ {hole} :
      p >= c /\ map[p].cb = cb /\ map[p].time <= recorded_now

Hole == IF phase = "on_alarm" THEN cursor ELSE 0

\* The state of the loop.
LoopInv ==
  /\ phase = "on_alarm" <=> running # NoAlarm
  /\ InLoop => cursor >= 1
  /\ ~ InLoop => cursor = 0 /\ skipped = {} /\ due = {}
  /\ IteratorStaysValid
  /\ recorded_now <= clock
  /\ rerun_due \subseteq skipped
  /\ skipped \subseteq RecurringAlarms \ due
  /\ running \notin due

\* The invariant of the alarms, while there is an epoll server.
EpollInv ==
  /\ Sorted(alarm_map)
  /\ LoopInv
  /\ Ahead(alarm_map, Hole, cursor, due)
  /\ Agree(alarm_map, Hole, registered, deadline, all_alarms)

\* And what is left of it when there is none.
GoneInv ==
  /\ phase = "outside"
  /\ alarm_map = << >>
  /\ all_alarms = {} /\ skipped = {} /\ due = {}
  /\ running = NoAlarm
  /\ \A cb \in Alarms : ~ registered[cb]

\* The inductive invariant.
AlarmsInv ==
  /\ SessionTypeOK
  /\ server = "running" => EpollInv
  /\ server = "gone" => GoneInv
  /\ FreedAlarmsAreForgotten
  /\ ClosedSessionsAreDeleted
  /\ running = DeleteAlarm => deadline[DeleteAlarm] = 0

-----------------------------------------------------------------------------
(* The multimap *)

LEMMA EntryTypes ==
  ASSUME NEW map \in Seq(AlarmEntry), NEW k \in DOMAIN map
  PROVE  /\ map[k].time \in Times /\ map[k].time \in Nat /\ map[k].time >= 1
         /\ map[k].cb \in Alarms
         /\ k \in Nat /\ k >= 1
<1>1. map[k] \in AlarmEntry
  OBVIOUS
<1>2. k \in 1..Len(map)
  OBVIOUS
<1>3. QED
  BY <1>1, <1>2 DEF AlarmEntry, Times

\* What RemoveAt returns.
LEMMA RemoveAtElements ==
  ASSUME NEW S, NEW list \in Seq(S), NEW k \in DOMAIN list
  PROVE  /\ RemoveAt(list, k) \in Seq(S)
         /\ Len(RemoveAt(list, k)) = Len(list) - 1
         /\ \A i \in 1..(Len(list) - 1) :
              RemoveAt(list, k)[i] = IF i < k THEN list[i] ELSE list[i + 1]
<1> DEFINE front == SubSeq(list, 1, k - 1)
           back  == SubSeq(list, k + 1, Len(list))
<1>1. k \in 1..Len(list) /\ Len(list) \in Nat
  OBVIOUS
<1>2. /\ front \in Seq(S)
      /\ Len(front) = k - 1
      /\ \A i \in 1..(k - 1) : front[i] = list[i]
  BY <1>1, SubSeqProperties, SMT
<1>3. /\ back \in Seq(S)
      /\ Len(back) = Len(list) - k
      /\ \A i \in 1..(Len(list) - k) : back[i] = list[i + k]
  BY <1>1, SubSeqProperties, SMT
<1>4. /\ front \o back \in Seq(S)
      /\ Len(front \o back) = Len(front) + Len(back)
      /\ \A i \in 1..(Len(front) + Len(back)) :
           (front \o back)[i] = IF i <= Len(front) THEN front[i]
                                ELSE back[i - Len(front)]
  BY <1>2, <1>3, ConcatProperties
<1>5. RemoveAt(list, k) = front \o back
  BY DEF RemoveAt
<1> HIDE DEF front, back
<1>6. Len(front) + Len(back) = Len(list) - 1
  BY <1>1, <1>2, <1>3
<1>7. ASSUME NEW i \in 1..(Len(list) - 1)
      PROVE  (front \o back)[i] = IF i < k THEN list[i] ELSE list[i + 1]
  <2>0. i \in 1..(Len(front) + Len(back))
    BY <1>6
  <2>1. CASE i < k
    <3>1. i <= Len(front) /\ i \in 1..(k - 1)
      BY <1>1, <1>2, <2>1
    <3>2. (front \o back)[i] = front[i]
      BY <1>4, <2>0, <3>1
    <3>3. QED
      BY <1>2, <2>1, <3>1, <3>2
  <2>2. CASE ~ (i < k)
    <3>1. /\ ~ (i <= Len(front))
          /\ i - Len(front) \in 1..(Len(list) - k)
          /\ i - Len(front) + k = i + 1
      BY <1>1, <1>2, <2>2
    <3>2. (front \o back)[i] = back[i - Len(front)]
      BY <1>4, <2>0, <3>1
    <3>3. QED
      BY <1>3, <3>1, <3>2, <2>2
  <2>3. QED
    BY <2>1, <2>2
<1>8. QED
  BY <1>4, <1>5, <1>6, <1>7

\* What InsertAt returns.
LEMMA InsertAtElements ==
  ASSUME NEW S, NEW list \in Seq(S), NEW k \in 1..(Len(list) + 1), NEW e \in S
  PROVE  /\ InsertAt(list, k, e) \in Seq(S)
         /\ Len(InsertAt(list, k, e)) = Len(list) + 1
         /\ InsertAt(list, k, e)[k] = e
         /\ \A i \in 1..Len(list) :
              InsertAt(list, k, e)[IF i < k THEN i ELSE i + 1] = list[i]
<1> DEFINE front == SubSeq(list, 1, k - 1)
           back  == SubSeq(list, k, Len(list))
           most  == front \o <<e>>
<1>1. k \in Nat /\ Len(list) \in Nat /\ 1 <= k /\ k <= Len(list) + 1
  OBVIOUS
<1>2. /\ front \in Seq(S)
      /\ Len(front) = k - 1
      /\ \A i \in 1..(k - 1) : front[i] = list[i]
  BY <1>1, SubSeqProperties, SMT
<1>3. /\ back \in Seq(S)
      /\ Len(back) = Len(list) - k + 1
      /\ \A i \in 1..(Len(list) - k + 1) : back[i] = list[k + i - 1]
  <2>1. \A i \in k..Len(list) : list[i] \in S
    BY <1>1
  <2>2. /\ back \in Seq(S)
        /\ Len(back) = IF k <= Len(list) THEN Len(list) - k + 1 ELSE 0
        /\ \A i \in 1..(Len(list) - k + 1) : back[i] = list[k + i - 1]
    BY <1>1, <2>1, SubSeqProperties
  <2> HIDE DEF back
  <2>3. k <= Len(list) \/ Len(list) - k + 1 = 0
    BY <1>1
  <2>4. QED
    BY <2>2, <2>3
<1>4. <<e>> \in Seq(S) /\ Len(<<e>>) = 1 /\ <<e>>[1] = e
  OBVIOUS
<1>5. InsertAt(list, k, e) = most \o back
  BY DEF InsertAt
<1> HIDE DEF front, back
<1>6. /\ most \in Seq(S)
      /\ Len(most) = k
      /\ most[k] = e
      /\ \A i \in 1..(k - 1) : most[i] = list[i]
  <2>1. /\ most \in Seq(S) /\ Len(most) = Len(front) + 1
        /\ \A i \in 1..(Len(front) + 1) :
             most[i] = IF i <= Len(front) THEN front[i] ELSE <<e>>[i - Len(front)]
    BY <1>2, <1>4, ConcatProperties
  <2> HIDE DEF most
  <2>2. Len(most) = k
    BY <1>1, <1>2, <2>1
  <2>3. most[k] = e
    <3>1. k \in 1..(Len(front) + 1) /\ ~ (k <= Len(front)) /\ k - Len(front) = 1
      BY <1>1, <1>2
    <3>2. QED
      BY <1>4, <2>1, <3>1
  <2>4. \A i \in 1..(k - 1) : most[i] = list[i]
    BY <1>1, <1>2, <2>1
  <2>5. QED
    BY <2>1, <2>2, <2>3, <2>4
<1> HIDE DEF most
<1> DEFINE new == most \o back
<1>7. /\ new \in Seq(S)
      /\ Len(new) = Len(most) + Len(back)
      /\ \A i \in 1..(Len(most) + Len(back)) :
           new[i] = IF i <= Len(most) THEN most[i] ELSE back[i - Len(most)]
  BY <1>3, <1>6, ConcatProperties
<1> HIDE DEF new
<1>8. Len(most) + Len(back) = Len(list) + 1
  BY <1>1, <1>3, <1>6
<1>9. new[k] = e
  BY <1>1, <1>6, <1>7, <1>8
<1>10. ASSUME NEW i \in 1..Len(list)
       PROVE  new[IF i < k THEN i ELSE i + 1] = list[i]
  <2>1. CASE i < k
    <3>1. i \in 1..(k - 1) /\ i \in 1..(Len(list) + 1) /\ i <= k
      BY <1>1, <2>1
    <3>2. QED
      BY <1>6, <1>7, <1>8, <2>1, <3>1
  <2>2. CASE ~ (i < k)
    <3>1. /\ i + 1 \in 1..(Len(list) + 1) /\ ~ (i + 1 <= k)
          /\ (i + 1) - k \in 1..(Len(list) - k + 1) /\ k + ((i + 1) - k) - 1 = i
      BY <1>1, <2>2
    <3>2. new[i + 1] = back[(i + 1) - k]
      BY <1>6, <1>7, <1>8, <3>1
    <3>3. back[(i + 1) - k] = list[k + ((i + 1) - k) - 1]
      BY <1>3, <3>1
    <3>4. QED
      BY <2>2, <3>1, <3>2, <3>3
  <2>3. QED
    BY <2>1, <2>2
<1>11. QED
  BY <1>5, <1>7, <1>8, <1>9, <1>10 DEF new

\* UnregisterAlarm takes one entry out.
LEMMA Removal ==
  ASSUME NEW map \in Seq(AlarmEntry), Sorted(map), NEW p \in DOMAIN map
  PROVE  RemovedAt(RemoveAt(map, p), map, p) /\ Sorted(RemoveAt(map, p))
<1> DEFINE new == RemoveAt(map, p)
<1>1. /\ new \in Seq(AlarmEntry)
      /\ Len(new) = Len(map) - 1
      /\ \A i \in 1..(Len(map) - 1) : new[i] = IF i < p THEN map[i] ELSE map[i + 1]
  BY RemoveAtElements
<1> HIDE DEF new
<1>2. /\ DOMAIN map = 1..Len(map) /\ Len(map) \in Nat /\ p \in 1..Len(map)
      /\ DOMAIN new = 1..(Len(map) - 1)
  BY <1>1
<1>3. ASSUME NEW i \in DOMAIN map \ {p}
      PROVE  Down(i, p) \in DOMAIN new /\ new[Down(i, p)] = map[i]
  <2>1. CASE i < p
    <3>1. i \in 1..(Len(map) - 1) /\ Down(i, p) = i
      BY <1>2, <2>1 DEF Down
    <3>2. QED
      BY <1>1, <1>2, <2>1, <3>1
  <2>2. CASE ~ (i < p)
    <3>1. /\ i - 1 \in 1..(Len(map) - 1) /\ Down(i, p) = i - 1
          /\ ~ (i - 1 < p) /\ (i - 1) + 1 = i
      BY <1>2, <1>3, <2>2 DEF Down
    <3>2. QED
      BY <1>1, <1>2, <3>1
  <2>3. QED
    BY <2>1, <2>2
<1>4. ASSUME NEW j \in DOMAIN new
      PROVE  \E i \in DOMAIN map \ {p} : j = Down(i, p)
  <2>1. CASE j < p
    BY <1>2, <2>1 DEF Down
  <2>2. CASE ~ (j < p)
    <3>1. j + 1 \in DOMAIN map \ {p} /\ j = Down(j + 1, p)
      BY <1>2, <2>2 DEF Down
    <3>2. QED
      BY <3>1
  <2>3. QED
    BY <2>1, <2>2
<1>5. Sorted(new)
  <2>1. SUFFICES ASSUME NEW i \in DOMAIN new, NEW j \in DOMAIN new, i < j
                 PROVE  new[i].time <= new[j].time
    BY DEF Sorted
  <2>2. PICK a \in DOMAIN map \ {p} : i = Down(a, p)
    BY <1>4
  <2>3. PICK b \in DOMAIN map \ {p} : j = Down(b, p)
    BY <1>4
  <2>4. a < b
    BY <1>2, <2>1, <2>2, <2>3 DEF Down
  <2>5. new[i] = map[a] /\ new[j] = map[b]
    BY <1>3, <2>2, <2>3
  <2>6. QED
    BY <2>4, <2>5 DEF Sorted
<1>6. QED
  BY <1>1, <1>3, <1>4, <1>5 DEF RemovedAt, new

\* In a sorted map the entries up to a time are a prefix: insert finds the place
\* behind it.
LEMMA InsertionPointOf ==
  ASSUME NEW map \in Seq(AlarmEntry), Sorted(map), NEW time \in Times
  PROVE  /\ InsertionPoint(map, time) \in 1..(Len(map) + 1)
         /\ \A i \in DOMAIN map : map[i].time <= time <=> i < InsertionPoint(map, time)
<1> DEFINE T == {k \in DOMAIN map : map[k].time <= time}
           n == Cardinality(T)
<1>1. DOMAIN map = 1..Len(map) /\ Len(map) \in Nat
  OBVIOUS
<1>2. \A k \in DOMAIN map : map[k].time \in Nat
  BY EntryTypes
<1>3. time \in Nat
  BY DEF Times
<1>4. /\ IsFiniteSet(1..Len(map)) /\ Cardinality(1..Len(map)) = Len(map)
  BY <1>1, FS_Interval
<1>5. IsFiniteSet(T) /\ n \in Nat /\ n <= Len(map)
  <2>1. T \in SUBSET (1..Len(map))
    BY <1>1
  <2> HIDE DEF T
  <2>2. QED
    BY <1>4, <2>1, FS_Subset, FS_CardinalityType
<1>6. ASSUME NEW k \in T PROVE k <= n
  <2>1. 1..k \subseteq T
    <3>1. SUFFICES ASSUME NEW i \in 1..k PROVE i \in T
      OBVIOUS
    <3>2. i \in DOMAIN map /\ k \in DOMAIN map /\ (i = k \/ i < k)
      BY <1>1
    <3>3. map[i].time <= map[k].time
      BY <1>2, <3>2 DEF Sorted
    <3>4. QED
      BY <1>2, <1>3, <3>2, <3>3
  <2>2. k \in Nat /\ k >= 1
    BY <1>1
  <2>3. Cardinality(1..k) = k
    BY <2>2, FS_Interval
  <2> HIDE DEF T
  <2>4. 1..k \in SUBSET T /\ IsFiniteSet(T)
    BY <1>5, <2>1
  <2>5. Cardinality(1..k) <= n
    BY <2>4, FS_Subset
  <2>6. QED
    BY <2>3, <2>5
<1>7. T = 1..n
  <2> HIDE DEF T
  <2>1. T \in SUBSET (1..n)
    <3>1. \A k \in T : k \in Nat /\ k >= 1
      BY <1>1 DEF T
    <3>2. QED
      BY <1>5, <1>6, <3>1
  <2>2. IsFiniteSet(1..n) /\ Cardinality(1..n) = n
    BY <1>5, FS_Interval
  <2>3. QED
    BY <2>1, <2>2, FS_Subset
<1>8. InsertionPoint(map, time) = n + 1
  BY <1>5 DEF InsertionPoint
<1>9. ASSUME NEW i \in DOMAIN map PROVE map[i].time <= time <=> i < n + 1
  <2>1. map[i].time <= time <=> i \in T
    BY <1>9
  <2>2. i \in 1..n <=> i < n + 1
    BY <1>1, <1>5
  <2>3. QED
    BY <1>7, <2>1, <2>2
<1>10. QED
  BY <1>1, <1>5, <1>8, <1>9

\* RegisterAlarm puts one entry in, and keeps the order.
LEMMA Insertion ==
  ASSUME NEW map \in Seq(AlarmEntry), Sorted(map), NEW time \in Times, NEW cb \in Alarms
  PROVE  LET p == InsertionPoint(map, time)
             entry == [time |-> time, cb |-> cb]
         IN  /\ p \in Nat /\ p >= 1
             /\ InsertedAt(InsertAt(map, p, entry), map, p, entry)
             /\ Sorted(InsertAt(map, p, entry))
<1> DEFINE p == InsertionPoint(map, time)
           entry == [time |-> time, cb |-> cb]
           new == InsertAt(map, p, entry)
<1>1. /\ p \in 1..(Len(map) + 1)
      /\ \A i \in DOMAIN map : map[i].time <= time <=> i < p
  BY InsertionPointOf
<1>2. entry \in AlarmEntry
  BY DEF AlarmEntry
<1> HIDE DEF p
<1> DEFINE at(i) == IF i < p THEN i ELSE i + 1
<1>3. /\ new \in Seq(AlarmEntry)
      /\ Len(new) = Len(map) + 1
      /\ new[p] = entry
      /\ \A i \in 1..Len(map) : new[at(i)] = map[i]
  BY <1>1, <1>2, InsertAtElements
<1> HIDE DEF new
<1>4. /\ DOMAIN map = 1..Len(map) /\ Len(map) \in Nat /\ p \in Nat /\ p >= 1
      /\ DOMAIN new = 1..(Len(map) + 1) /\ p \in DOMAIN new
  BY <1>1, <1>3
<1>5. ASSUME NEW i \in DOMAIN map
      PROVE  Up(i, p) \in DOMAIN new /\ new[Up(i, p)] = map[i]
  <2>1. Up(i, p) = at(i) /\ Up(i, p) \in DOMAIN new
    BY <1>4 DEF Up
  <2>2. QED
    BY <1>3, <1>4, <2>1
<1>6. ASSUME NEW j \in DOMAIN new
      PROVE  j = p \/ \E i \in DOMAIN map : j = Up(i, p)
  <2>1. CASE j < p
    <3>1. j \in DOMAIN map /\ j = Up(j, p)
      BY <1>1, <1>4, <2>1 DEF Up
    <3>2. QED
      BY <3>1
  <2>2. CASE j > p
    <3>1. j - 1 \in DOMAIN map /\ j = Up(j - 1, p)
      BY <1>4, <2>2 DEF Up
    <3>2. QED
      BY <3>1
  <2>3. QED
    BY <1>4, <2>1, <2>2
<1>7. Sorted(new)
  <2>1. SUFFICES ASSUME NEW i \in DOMAIN new, NEW j \in DOMAIN new, i < j
                 PROVE  new[i].time <= new[j].time
    BY DEF Sorted
  <2>2. time \in Nat /\ new[p].time = time /\ \A k \in DOMAIN map : map[k].time \in Nat
    <3>1. \A k \in DOMAIN map : map[k].time \in Nat
      BY EntryTypes
    <3>2. QED
      BY <1>3, <3>1 DEF Times
  <2>3. CASE i = p
    <3>1. PICK b \in DOMAIN map : j = Up(b, p)
      BY <1>4, <1>6, <2>1, <2>3
    <3>2. ~ (b < p)
      BY <1>4, <2>1, <2>3, <3>1 DEF Up
    <3>3. ~ (map[b].time <= time)
      BY <1>1, <3>2
    <3>4. QED
      BY <1>5, <2>2, <2>3, <3>1, <3>3
  <2>4. CASE j = p
    <3>1. PICK a \in DOMAIN map : i = Up(a, p)
      BY <1>4, <1>6, <2>1, <2>4
    <3>2. a < p
      BY <1>4, <2>1, <2>4, <3>1 DEF Up
    <3>3. QED
      BY <1>1, <1>5, <2>2, <2>4, <3>1, <3>2
  <2>5. CASE i # p /\ j # p
    <3>1. PICK a \in DOMAIN map : i = Up(a, p)
      BY <1>6, <2>5
    <3>2. PICK b \in DOMAIN map : j = Up(b, p)
      BY <1>6, <2>5
    <3>3. a < b
      BY <1>4, <2>1, <3>1, <3>2 DEF Up
    <3>4. QED
      BY <1>5, <3>1, <3>2, <3>3 DEF Sorted
  <2>6. QED
    BY <2>3, <2>4, <2>5
<1>8. QED
  BY <1>3, <1>4, <1>5, <1>6, <1>7 DEF InsertedAt, new, p

-----------------------------------------------------------------------------
(* The records, as entries come and go *)

\* The two forms of the agreement are one.
LEMMA AgreeView ==
  ASSUME alarm_map \in Seq(AlarmEntry)
  PROVE  RecordsAgree <=> Agree(alarm_map, Hole, registered, deadline, all_alarms)
<1>1. Registrations = DOMAIN alarm_map \ {Hole}
  <2>1. \A p \in DOMAIN alarm_map : p # 0
    BY EntryTypes
  <2>2. QED
    BY <2>1 DEF Registrations, Hole
<1>2. \A p \in DOMAIN alarm_map : alarm_map[p].cb \in Alarms
  BY EntryTypes
<1>3. ASSUME RecordsAgree
      PROVE  Agree(alarm_map, Hole, registered, deadline, all_alarms)
  <2>1. ASSUME NEW cb \in Alarms
        PROVE  /\ registered[cb] <=> deadline[cb] # 0
               /\ registered[cb] <=> cb \in all_alarms
               /\ registered[cb] => \E p \in Registrations : alarm_map[p].cb = cb
    BY <1>3 DEF RecordsAgree
  <2>2. \A p \in Registrations :
          registered[alarm_map[p].cb] /\ alarm_map[p].time = deadline[alarm_map[p].cb]
    BY <1>1, <1>2, <1>3 DEF RecordsAgree
  <2>3. \A p, q \in Registrations : alarm_map[p].cb = alarm_map[q].cb => p = q
    BY <1>1, <1>2, <1>3 DEF RecordsAgree
  <2>4. QED
    BY <1>1, <2>1, <2>2, <2>3 DEF Agree
<1>4. ASSUME Agree(alarm_map, Hole, registered, deadline, all_alarms)
      PROVE  RecordsAgree
  BY <1>1, <1>4 DEF Agree, RecordsAgree
<1>5. QED
  BY <1>3, <1>4

\* Registering an alarm.
LEMMA InsertAgrees ==
  ASSUME NEW map \in Seq(AlarmEntry), NEW hole \in Nat, NEW p \in Nat, p >= 1,
         NEW reg \in [Alarms -> BOOLEAN], NEW dl \in [Alarms -> Nat], NEW all,
         Agree(map, hole, reg, dl, all),
         NEW cb \in Alarms, cb \notin all, NEW time \in Times,
         NEW new, InsertedAt(new, map, p, [time |-> time, cb |-> cb])
  PROVE  Agree(new, Up(hole, p), [reg EXCEPT ![cb] = TRUE], [dl EXCEPT ![cb] = time],
               all \cup {cb})
<1> DEFINE hole2 == Up(hole, p)
           reg2 == [reg EXCEPT ![cb] = TRUE]
           dl2 == [dl EXCEPT ![cb] = time]
<1>1. ~ reg[cb]
  BY DEF Agree
<1>2. /\ new[p].time = time /\ new[p].cb = cb /\ p \in DOMAIN new /\ p # hole2
  BY DEF InsertedAt, Up
<1>3. time # 0
  BY DEF Times
<1>4. \A i \in DOMAIN map : i \in Nat /\ map[i].cb \in Alarms
  BY EntryTypes
<1>5. ASSUME NEW j \in DOMAIN new \ {hole2}, j # p
      PROVE  \E i \in DOMAIN map \ {hole} : j = Up(i, p) /\ new[j] = map[i]
  BY <1>5 DEF InsertedAt
<1>6. ASSUME NEW i \in DOMAIN map \ {hole}
      PROVE  Up(i, p) \in DOMAIN new \ {hole2} /\ new[Up(i, p)] = map[i]
  BY <1>4, <1>6 DEF InsertedAt, Up
<1>7. \A i \in DOMAIN map \ {hole} : map[i].cb # cb
  BY <1>1 DEF Agree
<1>8. \A c \in Alarms : /\ reg2[c] = (reg[c] \/ c = cb)
                        /\ dl2[c] = IF c = cb THEN time ELSE dl[c]
  OBVIOUS
<1> HIDE DEF hole2, reg2, dl2
<1>9. ASSUME NEW c \in Alarms
      PROVE  /\ reg2[c] <=> dl2[c] # 0
             /\ reg2[c] <=> c \in all \cup {cb}
             /\ reg2[c] => \E j \in DOMAIN new \ {hole2} : new[j].cb = c
  <2>1. CASE c = cb
    BY <1>2, <1>3, <1>8, <2>1
  <2>2. CASE c # cb
    <3>1. /\ reg2[c] = reg[c] /\ dl2[c] = dl[c]
      BY <1>8, <2>2
    <3>2. /\ reg[c] <=> dl[c] # 0
          /\ reg[c] <=> c \in all
          /\ reg[c] => \E i \in DOMAIN map \ {hole} : map[i].cb = c
      BY DEF Agree
    <3>3. reg[c] => \E j \in DOMAIN new \ {hole2} : new[j].cb = c
      BY <1>6, <3>2
    <3>4. QED
      BY <2>2, <3>1, <3>2, <3>3
  <2>3. QED
    BY <2>1, <2>2
<1>10. ASSUME NEW j \in DOMAIN new \ {hole2}
       PROVE  reg2[new[j].cb] /\ new[j].time = dl2[new[j].cb]
  <2>1. CASE j = p
    BY <1>2, <1>8, <2>1
  <2>2. CASE j # p
    <3>1. PICK i \in DOMAIN map \ {hole} : new[j] = map[i]
      BY <1>5, <2>2
    <3>2. reg[map[i].cb] /\ map[i].time = dl[map[i].cb]
      BY DEF Agree
    <3>3. QED
      BY <1>4, <1>7, <1>8, <3>1, <3>2
  <2>3. QED
    BY <2>1, <2>2
<1>11. ASSUME NEW j \in DOMAIN new \ {hole2}, NEW k \in DOMAIN new \ {hole2},
              new[j].cb = new[k].cb
       PROVE  j = k
  <2>1. CASE j = p \/ k = p
    BY <1>2, <1>5, <1>7, <1>11, <2>1
  <2>2. CASE j # p /\ k # p
    <3>1. PICK i \in DOMAIN map \ {hole} : j = Up(i, p) /\ new[j] = map[i]
      BY <1>5, <2>2
    <3>2. PICK h \in DOMAIN map \ {hole} : k = Up(h, p) /\ new[k] = map[h]
      BY <1>5, <2>2
    <3>3. i = h
      BY <1>11, <3>1, <3>2 DEF Agree
    <3>4. QED
      BY <3>1, <3>2, <3>3
  <2>3. QED
    BY <2>1, <2>2
<1>12. QED
  BY <1>9, <1>10, <1>11 DEF Agree, hole2, reg2, dl2

\* Unregistering an alarm that is not the one being run, or was registered again.
LEMMA RemoveAgrees ==
  ASSUME NEW map \in Seq(AlarmEntry), NEW hole \in Nat,
         NEW reg \in [Alarms -> BOOLEAN], NEW dl \in [Alarms -> Nat], NEW all,
         Agree(map, hole, reg, dl, all),
         NEW p \in DOMAIN map \ {hole}, NEW cb \in Alarms, map[p].cb = cb,
         NEW new, RemovedAt(new, map, p)
  PROVE  Agree(new, Down(hole, p), [reg EXCEPT ![cb] = FALSE], [dl EXCEPT ![cb] = 0],
               all \ {cb})
<1> DEFINE hole2 == Down(hole, p)
           reg2 == [reg EXCEPT ![cb] = FALSE]
           dl2 == [dl EXCEPT ![cb] = 0]
<1>1. \A i \in DOMAIN map : i \in Nat /\ i >= 1 /\ map[i].cb \in Alarms
  BY EntryTypes
<1>2. ASSUME NEW j \in DOMAIN new \ {hole2}
      PROVE  \E i \in DOMAIN map \ {hole, p} : j = Down(i, p) /\ new[j] = map[i]
  BY <1>2 DEF RemovedAt
<1>3. ASSUME NEW i \in DOMAIN map \ {hole, p}
      PROVE  Down(i, p) \in DOMAIN new \ {hole2} /\ new[Down(i, p)] = map[i]
  <2>1. i \in Nat /\ p \in Nat /\ i # p /\ i # hole /\ hole # p
    BY <1>1, <1>3
  <2>2. Down(i, p) # Down(hole, p)
    BY <2>1 DEF Down
  <2>3. Down(i, p) \in DOMAIN new /\ new[Down(i, p)] = map[i]
    BY <1>3 DEF RemovedAt
  <2>4. QED
    BY <2>2, <2>3
<1>4. \A i \in DOMAIN map \ {hole, p} : map[i].cb # cb
  BY DEF Agree
<1>5. \A c \in Alarms : /\ reg2[c] = (reg[c] /\ c # cb)
                        /\ dl2[c] = IF c = cb THEN 0 ELSE dl[c]
  OBVIOUS
<1> HIDE DEF hole2, reg2, dl2
<1>6. ASSUME NEW c \in Alarms
      PROVE  /\ reg2[c] <=> dl2[c] # 0
             /\ reg2[c] <=> c \in all \ {cb}
             /\ reg2[c] => \E j \in DOMAIN new \ {hole2} : new[j].cb = c
  <2>1. CASE c = cb
    BY <1>5, <2>1
  <2>2. CASE c # cb
    <3>1. /\ reg2[c] = reg[c] /\ dl2[c] = dl[c]
      BY <1>5, <2>2
    <3>2. /\ reg[c] <=> dl[c] # 0
          /\ reg[c] <=> c \in all
          /\ reg[c] => \E i \in DOMAIN map \ {hole} : map[i].cb = c
      BY DEF Agree
    <3>3. reg[c] => \E j \in DOMAIN new \ {hole2} : new[j].cb = c
      BY <1>3, <2>2, <3>2
    <3>4. QED
      BY <2>2, <3>1, <3>2, <3>3
  <2>3. QED
    BY <2>1, <2>2
<1>7. ASSUME NEW j \in DOMAIN new \ {hole2}
      PROVE  reg2[new[j].cb] /\ new[j].time = dl2[new[j].cb]
  <2>1. PICK i \in DOMAIN map \ {hole, p} : new[j] = map[i]
    BY <1>2
  <2>2. reg[map[i].cb] /\ map[i].time = dl[map[i].cb]
    BY DEF Agree
  <2>3. QED
    BY <1>1, <1>4, <1>5, <2>1, <2>2
<1>8. ASSUME NEW j \in DOMAIN new \ {hole2}, NEW k \in DOMAIN new \ {hole2},
             new[j].cb = new[k].cb
      PROVE  j = k
  <2>1. PICK i \in DOMAIN map \ {hole, p} : j = Down(i, p) /\ new[j] = map[i]
    BY <1>2
  <2>2. PICK h \in DOMAIN map \ {hole, p} : k = Down(h, p) /\ new[k] = map[h]
    BY <1>2
  <2>3. i = h
    BY <1>8, <2>1, <2>2 DEF Agree
  <2>4. QED
    BY <2>1, <2>2, <2>3
<1>9. QED
  BY <1>6, <1>7, <1>8 DEF Agree, hole2, reg2, dl2

\* The alarm under the iterator is run: its entry stops being a registration.
LEMMA RunAgrees ==
  ASSUME NEW map \in Seq(AlarmEntry),
         NEW reg \in [Alarms -> BOOLEAN], NEW dl \in [Alarms -> Nat], NEW all,
         Agree(map, 0, reg, dl, all),
         NEW c \in DOMAIN map, NEW cb, cb = map[c].cb
  PROVE  Agree(map, c, [reg EXCEPT ![cb] = FALSE], [dl EXCEPT ![cb] = 0], all \ {cb})
<1>1. \A i \in DOMAIN map : i # 0 /\ map[i].cb \in Alarms
  BY EntryTypes
<1>2. \A i \in DOMAIN map \ {c} : map[i].cb # cb
  BY <1>1 DEF Agree
<1>3. \A a \in Alarms : /\ [reg EXCEPT ![cb] = FALSE][a] = (reg[a] /\ a # cb)
                        /\ [dl EXCEPT ![cb] = 0][a] = IF a = cb THEN 0 ELSE dl[a]
  OBVIOUS
<1>4. ASSUME NEW a \in Alarms
      PROVE  /\ reg[a] <=> dl[a] # 0
             /\ reg[a] <=> a \in all
             /\ reg[a] => \E i \in DOMAIN map : map[i].cb = a
  BY DEF Agree
<1>5. ASSUME NEW i \in DOMAIN map
      PROVE  reg[map[i].cb] /\ map[i].time = dl[map[i].cb]
  BY <1>1 DEF Agree
<1>6. \A p, q \in DOMAIN map \ {c} : map[p].cb = map[q].cb => p = q
  BY <1>1 DEF Agree
<1> DEFINE reg2 == [reg EXCEPT ![cb] = FALSE]
           dl2 == [dl EXCEPT ![cb] = 0]
<1> HIDE DEF reg2, dl2
<1>7. \A a \in Alarms : reg2[a] = (reg[a] /\ a # cb) /\ dl2[a] = IF a = cb THEN 0 ELSE dl[a]
  BY <1>3 DEF reg2, dl2
<1>8. ASSUME NEW a \in Alarms
      PROVE  /\ reg2[a] <=> dl2[a] # 0
             /\ reg2[a] <=> a \in all \ {cb}
             /\ reg2[a] => \E i \in DOMAIN map \ {c} : map[i].cb = a
  BY <1>4, <1>7
<1>9. \A i \in DOMAIN map \ {c} : reg2[map[i].cb] /\ map[i].time = dl2[map[i].cb]
  BY <1>1, <1>2, <1>5, <1>7
<1>10. QED
  BY <1>6, <1>8, <1>9 DEF Agree, reg2, dl2

\* The callback has returned: its entry goes.
LEMMA ReturnAgrees ==
  ASSUME NEW map \in Seq(AlarmEntry),
         NEW reg, NEW dl, NEW all, NEW c \in DOMAIN map,
         Agree(map, c, reg, dl, all),
         NEW new, RemovedAt(new, map, c)
  PROVE  Agree(new, 0, reg, dl, all)
<1>1. \A i \in DOMAIN map : i \in Nat /\ i >= 1
  BY EntryTypes
<1>2. ASSUME NEW j \in DOMAIN new
      PROVE  \E i \in DOMAIN map \ {c} : j = Down(i, c) /\ new[j] = map[i]
  BY DEF RemovedAt
<1>3. ASSUME NEW i \in DOMAIN map \ {c}
      PROVE  Down(i, c) \in DOMAIN new \ {0} /\ new[Down(i, c)] = map[i]
  BY <1>1, <1>3 DEF RemovedAt, Down
<1>4. ASSUME NEW a \in Alarms
      PROVE  /\ reg[a] <=> dl[a] # 0
             /\ reg[a] <=> a \in all
             /\ reg[a] => \E j \in DOMAIN new \ {0} : new[j].cb = a
  BY <1>3 DEF Agree
<1>5. ASSUME NEW j \in DOMAIN new
      PROVE  reg[new[j].cb] /\ new[j].time = dl[new[j].cb]
  BY <1>2 DEF Agree
<1>6. ASSUME NEW j \in DOMAIN new, NEW k \in DOMAIN new, new[j].cb = new[k].cb
      PROVE  j = k
  <2>1. PICK i \in DOMAIN map \ {c} : j = Down(i, c) /\ new[j] = map[i]
    BY <1>2
  <2>2. PICK h \in DOMAIN map \ {c} : k = Down(h, c) /\ new[k] = map[h]
    BY <1>2
  <2>3. i = h
    BY <1>6, <2>1, <2>2 DEF Agree
  <2>4. QED
    BY <2>1, <2>2, <2>3
<1>7. QED
  BY <1>4, <1>5, <1>6 DEF Agree

-----------------------------------------------------------------------------
(* What is due stays ahead of the iterator *)

LEMMA InsertAhead ==
  ASSUME NEW map \in Seq(AlarmEntry), NEW hole \in Nat, NEW c \in Nat, NEW p \in Nat,
         NEW alarms, Ahead(map, hole, c, alarms),
         NEW new, NEW entry, InsertedAt(new, map, p, entry)
  PROVE  Ahead(new, Up(hole, p), Up(c, p), alarms)
<1>1. SUFFICES ASSUME NEW cb \in alarms
               PROVE  \E j \in DOMAIN new \ {Up(hole, p)} :
                        j >= Up(c, p) /\ new[j].cb = cb /\ new[j].time <= recorded_now
  BY DEF Ahead
<1>2. PICK i \in DOMAIN map \ {hole} :
        i >= c /\ map[i].cb = cb /\ map[i].time <= recorded_now
  BY DEF Ahead
<1>3. i \in Nat
  BY EntryTypes
<1>4. Up(i, p) \in DOMAIN new /\ new[Up(i, p)] = map[i]
  BY DEF InsertedAt
<1>5. Up(i, p) # Up(hole, p) /\ Up(i, p) >= Up(c, p)
  BY <1>2, <1>3 DEF Up
<1>6. QED
  BY <1>2, <1>4, <1>5

LEMMA RemoveAhead ==
  ASSUME NEW map \in Seq(AlarmEntry), NEW hole \in Nat, NEW c \in Nat,
         NEW alarms, Ahead(map, hole, c, alarms),
         NEW p \in DOMAIN map, p # hole, p # c,
         NEW new, RemovedAt(new, map, p)
  PROVE  Ahead(new, Down(hole, p), Down(c, p), alarms \ {map[p].cb})
<1>1. SUFFICES ASSUME NEW cb \in alarms, cb # map[p].cb
               PROVE  \E j \in DOMAIN new \ {Down(hole, p)} :
                        j >= Down(c, p) /\ new[j].cb = cb /\ new[j].time <= recorded_now
  BY DEF Ahead
<1>2. PICK i \in DOMAIN map \ {hole} :
        i >= c /\ map[i].cb = cb /\ map[i].time <= recorded_now
  BY DEF Ahead
<1>3. i \in Nat /\ p \in Nat /\ i # p
  BY <1>1, <1>2, EntryTypes
<1>4. Down(i, p) \in DOMAIN new /\ new[Down(i, p)] = map[i]
  BY <1>3 DEF RemovedAt
<1>5. Down(i, p) # Down(hole, p) /\ Down(i, p) >= Down(c, p)
  BY <1>2, <1>3 DEF Down
<1>6. QED
  BY <1>2, <1>4, <1>5

LEMMA ReturnAhead ==
  ASSUME NEW map \in Seq(AlarmEntry), NEW c \in DOMAIN map,
         NEW alarms, Ahead(map, c, c, alarms),
         NEW new, RemovedAt(new, map, c)
  PROVE  Ahead(new, 0, c, alarms)
<1>1. SUFFICES ASSUME NEW cb \in alarms
               PROVE  \E j \in DOMAIN new \ {0} :
                        j >= c /\ new[j].cb = cb /\ new[j].time <= recorded_now
  BY DEF Ahead
<1>2. PICK i \in DOMAIN map \ {c} :
        i >= c /\ map[i].cb = cb /\ map[i].time <= recorded_now
  BY DEF Ahead
<1>3. i \in Nat /\ c \in Nat /\ c >= 1
  BY EntryTypes
<1>4. Down(i, c) \in DOMAIN new /\ new[Down(i, c)] = map[i]
  BY DEF RemovedAt
<1>5. Down(i, c) # 0 /\ Down(i, c) >= c
  BY <1>2, <1>3 DEF Down
<1>6. QED
  BY <1>2, <1>4, <1>5

-----------------------------------------------------------------------------
(* Calls of clients *)

LEMMA TypeFacts ==
  ASSUME TypeOK
  PROVE  /\ alarm_map \in Seq(AlarmEntry)
         /\ registered \in [Alarms -> BOOLEAN]
         /\ deadline \in [Alarms -> Nat]
         /\ cursor \in Nat /\ recorded_now \in Nat /\ clock \in Nat
         /\ phase \in Phases
         /\ Hole \in Nat
<1>1. MaxTime \in Nat /\ 0..MaxTime \subseteq Nat /\ Times \subseteq Nat
  BY AlarmsAssumption DEF Times
<1>2. deadline \in [Alarms -> Nat]
  BY <1>1 DEF TypeOK
<1>3. QED
  BY <1>1, <1>2 DEF TypeOK, AlarmEntry, Hole

LEMMA TimesFacts == Times \subseteq 0..MaxTime /\ \A t \in Times : t \in Nat /\ t >= 1
BY AlarmsAssumption DEF Times

\* RegisterAlarm, called by a client.
LEMMA RegisterInv ==
  ASSUME TypeOK, EpollInv, ClientRuns, NEW cb \in Alarms, NEW time \in Times,
         RegisterAlarm(alarm_map, cursor, all_alarms, time, cb),
         deadline' = [deadline EXCEPT ![cb] = time],
         due' = due \/ due' = due \ {cb},
         UNCHANGED <<clock, roundVars, skipped, running, rerun_due>>
  PROVE  /\ TypeOK' /\ EpollInv'
         /\ \A j \in DOMAIN alarm_map' :
              alarm_map'[j].cb = cb \/ \E i \in DOMAIN alarm_map : alarm_map'[j] = alarm_map[i]
<1> DEFINE p == InsertionPoint(alarm_map, time)
           entry == [time |-> time, cb |-> cb]
<1>1. /\ alarm_map \in Seq(AlarmEntry) /\ registered \in [Alarms -> BOOLEAN]
      /\ deadline \in [Alarms -> Nat] /\ cursor \in Nat /\ phase \in Phases
  BY TypeFacts
<1>2. /\ cb \notin all_alarms
      /\ alarm_map' = InsertAt(alarm_map, p, entry)
      /\ cursor' = IF p <= cursor THEN cursor + 1 ELSE cursor
      /\ all_alarms' = all_alarms \cup {cb}
      /\ registered' = [registered EXCEPT ![cb] = TRUE]
      /\ set_in_loop' = IF InLoop THEN set_in_loop \cup {cb} ELSE set_in_loop
  BY DEF RegisterAlarm
<1>3. /\ p \in Nat /\ p >= 1
      /\ InsertedAt(alarm_map', alarm_map, p, entry)
      /\ Sorted(alarm_map')
  BY <1>1, <1>2, Insertion DEF EpollInv
<1> HIDE DEF p
<1>4. cursor' = Up(cursor, p)
  BY <1>1, <1>2, <1>3 DEF Up
<1>5. Hole = cursor /\ Hole' = cursor'
  <2>1. phase # "on_alarm" => cursor = 0
    BY <1>1 DEF EpollInv, LoopInv, InLoop, ClientRuns, Phases
  <2>2. phase # "on_alarm" => cursor' = 0
    BY <1>3, <1>4, <2>1 DEF Up
  <2>3. QED
    BY <2>1, <2>2 DEF Hole, roundVars
<1>6. Agree(alarm_map', Hole', registered', deadline', all_alarms')
  <2>1. Agree(alarm_map, cursor, registered, deadline, all_alarms)
    BY <1>5 DEF EpollInv
  <2>2. Agree(alarm_map', Up(cursor, p), [registered EXCEPT ![cb] = TRUE],
              [deadline EXCEPT ![cb] = time], all_alarms \cup {cb})
    BY <1>1, <1>2, <1>3, <2>1, InsertAgrees, Zenon
  <2>3. QED
    BY <1>2, <1>4, <1>5, <2>2, Zenon
<1>7. Ahead(alarm_map', Hole', cursor', due)
  BY <1>1, <1>3, <1>4, <1>5, InsertAhead DEF EpollInv
<1>8. (Ahead(alarm_map, Hole, cursor, due))'
  BY <1>7 DEF Ahead, roundVars
<1>9. LoopInv'
  <2>1. cursor' >= cursor /\ cursor' \in Nat
    BY <1>1, <1>4 DEF Up
  <2>2. InLoop' = InLoop /\ UNCHANGED <<phase, running, skipped, recorded_now, clock, rerun_due>>
    BY DEF InLoop, roundVars
  <2>3. InLoop' => cursor' >= 1
    BY <1>1, <2>1, <2>2 DEF EpollInv, LoopInv
  <2>4. ~ InLoop' => cursor' = 0 /\ skipped' = {} /\ due' = {}
    BY <1>3, <1>4, <2>2 DEF EpollInv, LoopInv, Up
  <2>5. IteratorStaysValid'
    <3>1. SUFFICES ASSUME phase' = "on_alarm"
                   PROVE  /\ cursor' \in DOMAIN alarm_map'
                          /\ alarm_map'[cursor'].cb = running'
                          /\ alarm_map'[cursor'].time <= recorded_now'
      BY DEF IteratorStaysValid
    <3>2. /\ cursor \in DOMAIN alarm_map
          /\ alarm_map[cursor].cb = running
          /\ alarm_map[cursor].time <= recorded_now
      BY <2>2, <3>1 DEF EpollInv, LoopInv, IteratorStaysValid
    <3>3. cursor' \in DOMAIN alarm_map' /\ alarm_map'[cursor'] = alarm_map[cursor]
      BY <1>3, <1>4, <3>2 DEF InsertedAt
    <3>4. QED
      BY <2>2, <3>2, <3>3
  <2>6. QED
    BY <2>2, <2>3, <2>4, <2>5 DEF EpollInv, LoopInv
<1>10. TypeOK'
  <2>1. deadline' \in [Alarms -> 0..MaxTime]
    BY TimesFacts DEF TypeOK
  <2>2. registered' \in [Alarms -> BOOLEAN] /\ all_alarms' \subseteq Alarms
        /\ set_in_loop' \subseteq Alarms /\ due' \subseteq Alarms
    BY <1>2 DEF TypeOK
  <2>3. alarm_map' \in Seq(AlarmEntry) /\ cursor' \in Nat
    BY <1>1, <1>3, <1>4 DEF InsertedAt, Up
  <2>4. QED
    BY <2>1, <2>2, <2>3 DEF TypeOK, AlarmEntry, roundVars
<1>11. \A j \in DOMAIN alarm_map' :
         alarm_map'[j].cb = cb \/ \E i \in DOMAIN alarm_map : alarm_map'[j] = alarm_map[i]
  BY <1>3 DEF InsertedAt
<1>12. QED
  BY <1>3, <1>6, <1>8, <1>9, <1>10, <1>11 DEF EpollInv

\* The token of a registered alarm is the position of its one registration.
LEMMA TokenOf ==
  ASSUME TypeOK, EpollInv, ClientRuns, NEW cb \in Alarms, registered[cb]
  PROVE  Token(cb) \in DOMAIN alarm_map \ {Hole} /\ alarm_map[Token(cb)].cb = cb
<1>1. PICK p \in DOMAIN alarm_map \ {Hole} : alarm_map[p].cb = cb
  BY DEF EpollInv, Agree
<1>2. running = cb => phase = "on_alarm"
  BY AlarmsAssumption DEF EpollInv, LoopInv, Alarms
<1>3. alarm_map[p].cb = cb /\ (running = cb => p # cursor)
  BY <1>1, <1>2 DEF Hole
<1>4. /\ Token(cb) \in DOMAIN alarm_map /\ alarm_map[Token(cb)].cb = cb
      /\ running = cb => Token(cb) # cursor
  BY <1>1, <1>3, Zenon DEF Token
<1>5. Token(cb) # Hole
  <2>1. CASE phase = "on_alarm"
    BY <1>4, <2>1 DEF Hole, EpollInv, LoopInv, IteratorStaysValid
  <2>2. CASE phase # "on_alarm"
    BY <1>4, <2>2, TypeFacts, EntryTypes DEF Hole
  <2>3. QED
    BY <2>1, <2>2
<1>6. QED
  BY <1>4, <1>5

\* UnregisterIfRegistered, called by a client or a destructor.
LEMMA UnregisterInv ==
  ASSUME TypeOK, EpollInv, ClientRuns, NEW cb \in Alarms,
         UnregisterIfRegistered(cb),
         deadline' = [deadline EXCEPT ![cb] = 0],
         due' = due \ {cb},
         UNCHANGED <<clock, roundVars, skipped, running, set_in_loop, rerun_due>>
  PROVE  /\ TypeOK' /\ EpollInv'
         /\ \A j \in DOMAIN alarm_map' :
              /\ \E i \in DOMAIN alarm_map : alarm_map'[j] = alarm_map[i]
              /\ alarm_map'[j].cb = cb => running = cb
         /\ all_alarms' \subseteq all_alarms \ {cb}
<1>1. /\ alarm_map \in Seq(AlarmEntry) /\ registered \in [Alarms -> BOOLEAN]
      /\ deadline \in [Alarms -> Nat] /\ cursor \in Nat /\ phase \in Phases
  BY TypeFacts
<1>2. Hole = cursor
  BY <1>1 DEF EpollInv, LoopInv, InLoop, ClientRuns, Phases, Hole
<1>3. InLoop' = InLoop /\ UNCHANGED <<phase, running, skipped, recorded_now, clock, rerun_due>>
  BY DEF InLoop, roundVars
<1>4. CASE registered[cb]
  <2> DEFINE p == Token(cb)
  <2>1. p \in DOMAIN alarm_map \ {cursor} /\ alarm_map[p].cb = cb
    BY <1>2, <1>4, TokenOf
  <2>2. p \in Nat /\ p >= 1
    BY <1>1, <2>1, EntryTypes
  <2>3. /\ alarm_map' = RemoveAt(alarm_map, p)
        /\ cursor' = IF p < cursor THEN cursor - 1 ELSE cursor
        /\ all_alarms' = all_alarms \ {cb}
        /\ registered' = [registered EXCEPT ![cb] = FALSE]
    BY <1>4 DEF UnregisterIfRegistered
  <2> HIDE DEF p
  <2>4. RemovedAt(alarm_map', alarm_map, p) /\ Sorted(alarm_map')
    BY <1>1, <2>1, <2>3, Removal DEF EpollInv
  <2>5. cursor' = Down(cursor, p) /\ cursor' \in Nat
    BY <1>1, <2>1, <2>2, <2>3 DEF Down
  <2>6. Hole' = cursor'
    <3>1. phase # "on_alarm" => cursor = 0
      BY <1>2 DEF Hole
    <3>2. phase # "on_alarm" => cursor' = 0
      BY <2>2, <2>5, <3>1 DEF Down
    <3>3. QED
      BY <1>3, <3>2 DEF Hole
  <2>7. /\ Agree(alarm_map', Hole', registered', deadline', all_alarms')
        /\ \A j \in DOMAIN alarm_map' \ {cursor'} : alarm_map'[j].cb # cb
    <3>1. Agree(alarm_map, cursor, registered, deadline, all_alarms)
      BY <1>2 DEF EpollInv
    <3>2. Agree(alarm_map', Down(cursor, p), [registered EXCEPT ![cb] = FALSE],
                [deadline EXCEPT ![cb] = 0], all_alarms \ {cb})
      BY <1>1, <2>1, <2>4, <3>1, RemoveAgrees, Zenon
    <3>3. Agree(alarm_map', Hole', registered', deadline', all_alarms')
      BY <2>3, <2>5, <2>6, <3>2, Zenon
    <3>4. ~ registered'[cb]
      BY <1>1, <2>3
    <3>5. QED
      BY <2>6, <3>3, <3>4 DEF Agree
  <2>8. Ahead(alarm_map', Hole', cursor', due \ {cb})
    BY <1>1, <1>2, <2>1, <2>4, <2>5, <2>6, RemoveAhead DEF EpollInv
  <2>9. (Ahead(alarm_map, Hole, cursor, due))'
    BY <1>3, <2>8 DEF Ahead
  <2>10. IteratorStaysValid'
    <3>1. SUFFICES ASSUME phase' = "on_alarm"
                   PROVE  /\ cursor' \in DOMAIN alarm_map'
                          /\ alarm_map'[cursor'].cb = running'
                          /\ alarm_map'[cursor'].time <= recorded_now'
      BY DEF IteratorStaysValid
    <3>2. /\ cursor \in DOMAIN alarm_map
          /\ alarm_map[cursor].cb = running
          /\ alarm_map[cursor].time <= recorded_now
      BY <1>3, <3>1 DEF EpollInv, LoopInv, IteratorStaysValid
    <3>3. cursor' \in DOMAIN alarm_map' /\ alarm_map'[cursor'] = alarm_map[cursor]
      BY <2>1, <2>4, <2>5, <3>2 DEF RemovedAt
    <3>4. QED
      BY <1>3, <3>2, <3>3
  <2>11. LoopInv'
    <3>1. InLoop' => cursor' >= 1
      BY <1>1, <1>3, <2>1, <2>2, <2>5 DEF EpollInv, LoopInv, Down
    <3>2. ~ InLoop' => cursor' = 0 /\ skipped' = {} /\ due' = {}
      BY <1>3, <2>2, <2>5 DEF EpollInv, LoopInv, Down
    <3>3. QED
      BY <1>3, <2>10, <3>1, <3>2 DEF EpollInv, LoopInv
  <2>12. TypeOK'
    <3>1. deadline' \in [Alarms -> 0..MaxTime] /\ due' \subseteq Alarms
      BY AlarmsAssumption DEF TypeOK
    <3>2. registered' \in [Alarms -> BOOLEAN] /\ all_alarms' \subseteq Alarms
      BY <2>3 DEF TypeOK
    <3>3. alarm_map' \in Seq(AlarmEntry)
      BY <2>4 DEF RemovedAt
    <3>4. QED
      BY <2>5, <3>1, <3>2, <3>3 DEF TypeOK, AlarmEntry, roundVars
  <2>13. \A j \in DOMAIN alarm_map' : \E i \in DOMAIN alarm_map : alarm_map'[j] = alarm_map[i]
    BY <2>4 DEF RemovedAt
  <2>14. \A j \in DOMAIN alarm_map' : alarm_map'[j].cb = cb => running = cb
    <3>1. SUFFICES ASSUME NEW j \in DOMAIN alarm_map', alarm_map'[j].cb = cb
                   PROVE  running = cb
      OBVIOUS
    <3>2. j = cursor'
      BY <2>7, <3>1
    <3>3. j # 0
      BY <2>4, EntryTypes DEF RemovedAt
    <3>4. phase = "on_alarm"
      BY <2>6, <3>2, <3>3, <1>3 DEF Hole
    <3>5. QED
      BY <1>3, <2>10, <3>1, <3>2, <3>4 DEF IteratorStaysValid
  <2>15. QED
    BY <2>3, <2>4, <2>7, <2>9, <2>11, <2>12, <2>13, <2>14 DEF EpollInv
<1>5. CASE ~ registered[cb]
  <2>1. UNCHANGED <<alarm_map, cursor, all_alarms, registered>>
    BY <1>5 DEF UnregisterIfRegistered
  <2>2. deadline[cb] = 0 /\ cb \notin all_alarms
    BY <1>5 DEF EpollInv, Agree
  <2>3. deadline' = deadline
    BY <1>1, <2>2
  <2>4. Hole' = Hole
    BY <1>3, <2>1 DEF Hole
  <2>5. LoopInv'
    BY <1>3, <2>1 DEF EpollInv, LoopInv, IteratorStaysValid
  <2>6. (Ahead(alarm_map, Hole, cursor, due))'
    BY <1>3, <2>1, <2>4 DEF EpollInv, Ahead
  <2>7. EpollInv'
    BY <2>1, <2>3, <2>4, <2>5, <2>6 DEF EpollInv
  <2>8. TypeOK'
    BY <2>1, <2>3 DEF TypeOK, roundVars
  <2>9. \A j \in DOMAIN alarm_map : alarm_map[j].cb = cb => running = cb
    <3>1. \A j \in DOMAIN alarm_map \ {cursor} : alarm_map[j].cb # cb
      BY <1>2, <1>5 DEF EpollInv, Agree
    <3>2. 0 \notin DOMAIN alarm_map
      BY <1>1, EntryTypes
    <3>3. cursor \in DOMAIN alarm_map => phase = "on_alarm"
      BY <1>2, <3>2 DEF Hole
    <3>4. QED
      BY <3>1, <3>3 DEF EpollInv, LoopInv, IteratorStaysValid
  <2>10. QED
    BY <2>1, <2>2, <2>7, <2>8, <2>9
<1>6. QED
  BY <1>4, <1>5

-----------------------------------------------------------------------------
(* The rounds of the epoll server *)

\* The rounded timeout is one that epoll_wait takes, of at most the time to wait,
\* but of a whole millisecond when that is shorter.
LEMMA EpollTimeoutOf ==
  ASSUME NEW wait \in Int
  PROVE  /\ EpollTimeout(wait) \in Nat \cup {-1}
         /\ wait = 0 => EpollTimeout(wait) = 0
         /\ wait > 0 => /\ EpollTimeout(wait) > 0
                        /\ EpollTimeout(wait) * UsPerMs < wait + UsPerMs
<1>1. UsPerMs \in Nat /\ UsPerMs > 0
  BY AlarmsAssumption
<1>2. CASE wait <= 0
  BY <1>1, <1>2 DEF EpollTimeout
<1>3. CASE wait > 0 /\ wait < UsPerMs
  BY <1>1, <1>3 DEF EpollTimeout
<1>4. CASE wait >= UsPerMs
  <2>1. EpollTimeout(wait) = wait \div UsPerMs
    BY <1>1, <1>4 DEF EpollTimeout
  <2> DEFINE q == wait \div UsPerMs
  <2>2. q \in Nat /\ q >= 1 /\ q * UsPerMs <= wait
    BY <1>1, <1>4
  <2> HIDE DEF q
  <2>3. q * UsPerMs \in Int
    BY <1>1, <2>2
  <2>4. q * UsPerMs < wait + UsPerMs
    BY <1>1, <2>2, <2>3
  <2>5. QED
    BY <1>1, <1>4, <2>1, <2>2, <2>4 DEF q
<1>5. QED
  BY <1>1, <1>2, <1>3, <1>4

LEMMA WaitTimeType ==
  ASSUME TypeOK
  PROVE  WaitTime \in Int
<1>1. timeout_in_us \in Int
  BY AlarmsAssumption
<1>2. CASE alarm_map = << >>
  BY <1>1, <1>2 DEF WaitTime
<1>3. CASE alarm_map # << >>
  <2>1. 1 \in DOMAIN alarm_map
    BY <1>3, TypeFacts
  <2>2. alarm_map[1].time \in Nat /\ clock \in Nat
    BY <2>1, TypeFacts, EntryTypes
  <2>3. QED
    BY <1>1, <1>3, <2>2 DEF WaitTime
<1>4. QED
  BY <1>2, <1>3

LEMMA WaitInv ==
  ASSUME TypeOK, EpollInv, WaitForEvents
  PROVE  TypeOK' /\ EpollInv'
<1>1. PICK now \in clock..MaxTime : clock' = now /\ recorded_now' = now
  BY DEF WaitForEvents
<1>2. /\ phase = "outside" /\ phase' = "events"
      /\ epoll_timeout' = EpollTimeout(WaitTime) /\ with_alarms' = (alarm_map # << >>)
      /\ UNCHANGED <<alarm_map, all_alarms, skipped, registered, deadline, cursor,
                     running, due, set_in_loop, rerun_due>>
  BY DEF WaitForEvents
<1>3. now \in Times /\ now \in Nat /\ now \in 0..MaxTime
  BY AlarmsAssumption DEF TypeOK, Times
<1>4. epoll_timeout' \in Nat \cup {-1}
  BY <1>2, WaitTimeType, EpollTimeoutOf
<1>5. TypeOK'
  BY <1>1, <1>2, <1>3, <1>4 DEF TypeOK, Phases
<1>6. due = {} /\ skipped = {} /\ cursor = 0 /\ running = NoAlarm
  BY <1>2 DEF EpollInv, LoopInv, InLoop
<1>7. LoopInv'
  BY <1>1, <1>2, <1>3, <1>6 DEF EpollInv, LoopInv, InLoop, IteratorStaysValid
<1>8. Hole = 0 /\ Hole' = 0
  BY <1>2 DEF Hole
<1>9. (Ahead(alarm_map, Hole, cursor, due))'
  BY <1>2, <1>6 DEF Ahead
<1>10. QED
  BY <1>2, <1>5, <1>7, <1>8, <1>9 DEF EpollInv

LEMMA NoLoopInv ==
  ASSUME TypeOK, EpollInv, ReturnWithoutAlarms
  PROVE  TypeOK' /\ EpollInv'
<1>1. /\ phase = "events" /\ phase' = "outside" /\ recorded_now' = 0
      /\ UNCHANGED <<clock, with_alarms, epoll_timeout, alarm_map, all_alarms, skipped,
                     registered, deadline, cursor, running, due, set_in_loop, rerun_due>>
  BY DEF ReturnWithoutAlarms
<1>2. TypeOK'
  BY <1>1, TimesFacts, AlarmsAssumption DEF TypeOK, Phases
<1>3. due = {} /\ skipped = {} /\ cursor = 0 /\ running = NoAlarm
  BY <1>1 DEF EpollInv, LoopInv, InLoop
<1>4. LoopInv'
  BY <1>1, <1>3, TypeFacts DEF EpollInv, LoopInv, InLoop, IteratorStaysValid
<1>5. Hole = 0 /\ Hole' = 0
  BY <1>1 DEF Hole
<1>6. (Ahead(alarm_map, Hole, cursor, due))'
  BY <1>1, <1>3 DEF Ahead
<1>7. QED
  BY <1>1, <1>2, <1>4, <1>5, <1>6 DEF EpollInv

\* When the loop begins nothing is behind its iterator.
LEMMA CallInv ==
  ASSUME TypeOK, EpollInv, CallAlarms
  PROVE  TypeOK' /\ EpollInv'
<1>1. /\ phase = "events" /\ phase' = "loop" /\ cursor' = 1 /\ set_in_loop' = {}
      /\ due' = {cb \in Alarms : deadline[cb] # 0 /\ deadline[cb] <= recorded_now}
      /\ UNCHANGED <<clock, with_alarms, recorded_now, epoll_timeout, alarm_map, all_alarms,
                     skipped, registered, deadline, running, rerun_due>>
  BY DEF CallAlarms
<1>2. TypeOK'
  BY <1>1 DEF TypeOK, Phases
<1>3. skipped = {} /\ cursor = 0 /\ running = NoAlarm
  BY <1>1 DEF EpollInv, LoopInv, InLoop
<1>4. LoopInv'
  <2>1. running' \notin due'
    BY <1>1, <1>3, AlarmsAssumption DEF Alarms
  <2>2. QED
    BY <1>1, <1>3, <2>1 DEF EpollInv, LoopInv, InLoop, IteratorStaysValid
<1>5. Hole = 0 /\ Hole' = 0
  BY <1>1 DEF Hole
<1>6. (Ahead(alarm_map, Hole, cursor, due))'
  <2>1. SUFFICES ASSUME NEW cb \in Alarms, deadline[cb] # 0, deadline[cb] <= recorded_now
                 PROVE  \E p \in DOMAIN alarm_map \ {0} :
                          /\ p >= 1 /\ alarm_map[p].cb = cb
                          /\ alarm_map[p].time <= recorded_now
    BY <1>1, <1>5 DEF Ahead
  <2>2. PICK p \in DOMAIN alarm_map \ {0} : alarm_map[p].cb = cb
    BY <1>5, <2>1 DEF EpollInv, Agree
  <2>3. alarm_map[p].time = deadline[cb]
    BY <1>5, <2>2 DEF EpollInv, Agree
  <2>4. p >= 1
    BY TypeFacts, EntryTypes
  <2>5. QED
    BY <2>1, <2>2, <2>3, <2>4
<1>7. QED
  BY <1>1, <1>2, <1>4, <1>5, <1>6 DEF EpollInv

\* Nothing that must still be run is passed over.
LEMMA SkipInv ==
  ASSUME TypeOK, EpollInv, SkipAlarm
  PROVE  TypeOK' /\ EpollInv'
<1>1. /\ phase = "loop" /\ cursor \in DOMAIN alarm_map /\ alarm_map[cursor].cb \in skipped
      /\ cursor' = cursor + 1
      /\ UNCHANGED <<clock, roundVars, alarm_map, all_alarms, skipped, registered,
                     deadline, running, due, set_in_loop, rerun_due>>
  BY DEF SkipAlarm, AtDueEntry
<1>2. cursor \in Nat /\ cursor' \in Nat /\ alarm_map \in Seq(AlarmEntry)
  BY <1>1, TypeFacts
<1>3. TypeOK'
  BY <1>1, <1>2 DEF TypeOK, roundVars
<1>4. LoopInv'
  BY <1>1, <1>2 DEF EpollInv, LoopInv, InLoop, IteratorStaysValid, roundVars
<1>5. Hole = 0 /\ Hole' = 0
  BY <1>1 DEF Hole, roundVars
<1>6. (Ahead(alarm_map, Hole, cursor, due))'
  <2>1. SUFFICES ASSUME NEW cb \in due
                 PROVE  \E p \in DOMAIN alarm_map \ {0} :
                          /\ p >= cursor + 1 /\ alarm_map[p].cb = cb
                          /\ alarm_map[p].time <= recorded_now
    BY <1>1, <1>5 DEF Ahead, roundVars
  <2>2. PICK p \in DOMAIN alarm_map \ {0} :
          p >= cursor /\ alarm_map[p].cb = cb /\ alarm_map[p].time <= recorded_now
    BY <1>5 DEF EpollInv, Ahead
  <2>3. p # cursor
    BY <1>1, <2>2 DEF EpollInv, LoopInv
  <2>4. p \in Nat
    BY <1>2, EntryTypes
  <2>5. QED
    BY <1>2, <2>2, <2>3, <2>4
<1>7. QED
  BY <1>1, <1>3, <1>4, <1>5, <1>6 DEF EpollInv

LEMMA RunInv ==
  ASSUME TypeOK, EpollInv, RunAlarm
  PROVE  /\ TypeOK' /\ EpollInv'
         /\ running = NoAlarm /\ running' \in Alarms /\ deadline'[running'] = 0
         /\ \A cb \in Alarms : cb # running' => deadline'[cb] = deadline[cb]
<1> DEFINE cb == alarm_map[cursor].cb
<1>1. /\ phase = "loop" /\ cursor \in DOMAIN alarm_map
      /\ alarm_map[cursor].time <= recorded_now
      /\ cb \notin skipped
      /\ running' = cb
      /\ all_alarms' = all_alarms \ {cb}
      /\ registered' = [registered EXCEPT ![cb] = FALSE]
      /\ deadline' = [deadline EXCEPT ![cb] = 0]
      /\ due' = due \ {cb}
      /\ phase' = "on_alarm"
      /\ UNCHANGED <<clock, with_alarms, recorded_now, epoll_timeout, alarm_map, skipped,
                     cursor, set_in_loop, rerun_due>>
  BY DEF RunAlarm, AtDueEntry
<1>2. /\ cursor \in Nat /\ alarm_map \in Seq(AlarmEntry) /\ cb \in Alarms
      /\ registered \in [Alarms -> BOOLEAN] /\ deadline \in [Alarms -> Nat]
  BY <1>1, TypeFacts, EntryTypes
<1>3. cb = alarm_map[cursor].cb
  OBVIOUS
<1> HIDE DEF cb
<1>4. TypeOK'
  <2>1. deadline' \in [Alarms -> 0..MaxTime] /\ registered' \in [Alarms -> BOOLEAN]
    <3>1. 0 \in 0..MaxTime
      BY AlarmsAssumption
    <3>2. registered \in [Alarms -> BOOLEAN] /\ deadline \in [Alarms -> 0..MaxTime]
      BY DEF TypeOK
    <3>3. QED
      BY <1>1, <3>1, <3>2
  <2>2. QED
    BY <1>1, <1>2, <2>1 DEF TypeOK, Phases
<1>5. Hole = 0 /\ Hole' = cursor
  BY <1>1 DEF Hole
<1>6. running = NoAlarm
  BY <1>1 DEF EpollInv, LoopInv
<1>7. LoopInv'
  <2>1. cb # NoAlarm
    BY <1>2, AlarmsAssumption DEF Alarms
  <2>2. QED
    BY <1>1, <1>2, <1>3, <2>1 DEF EpollInv, LoopInv, InLoop, IteratorStaysValid
<1>8. (Agree(alarm_map, Hole, registered, deadline, all_alarms))'
  <2>1. Agree(alarm_map, 0, registered, deadline, all_alarms)
    BY <1>5 DEF EpollInv
  <2>2. Agree(alarm_map, cursor, [registered EXCEPT ![cb] = FALSE],
              [deadline EXCEPT ![cb] = 0], all_alarms \ {cb})
    BY <1>1, <1>2, <1>3, <2>1, RunAgrees, Zenon
  <2>3. QED
    BY <1>1, <1>5, <2>2, Zenon
<1>9. (Ahead(alarm_map, Hole, cursor, due))'
  BY <1>1, <1>3, <1>5 DEF EpollInv, Ahead
<1>10. QED
  BY <1>1, <1>2, <1>4, <1>6, <1>7, <1>8, <1>9 DEF EpollInv

\* The loop stops at an entry that is not due: in a sorted map there is none
\* behind it, and nothing is left to be run.
LEMMA StopInv ==
  ASSUME TypeOK, EpollInv, ReturnAfterAlarms
  PROVE  TypeOK' /\ EpollInv'
<1>1. /\ phase = "loop" /\ phase' = "outside" /\ recorded_now' = 0 /\ skipped' = {}
      /\ cursor' = 0 /\ rerun_due' = {}
      /\ UNCHANGED <<clock, with_alarms, epoll_timeout, alarm_map, all_alarms, registered,
                     deadline, running, due, set_in_loop>>
  BY DEF ReturnAfterAlarms
<1>2. ~ (cursor \in DOMAIN alarm_map /\ alarm_map[cursor].time <= recorded_now)
  BY <1>1 DEF ReturnAfterAlarms, AtDueEntry
<1>3. Hole = 0 /\ Hole' = 0
  BY <1>1 DEF Hole
<1>4. /\ cursor \in Nat /\ cursor >= 1 /\ alarm_map \in Seq(AlarmEntry) /\ recorded_now \in Nat
  BY <1>1, TypeFacts DEF EpollInv, LoopInv, InLoop
<1>5. due = {}
  <2>1. SUFFICES ASSUME NEW cb \in due PROVE FALSE
    OBVIOUS
  <2>2. PICK p \in DOMAIN alarm_map :
          p >= cursor /\ alarm_map[p].time <= recorded_now
    BY <1>3 DEF EpollInv, Ahead
  <2>3. p \in 1..Len(alarm_map) /\ Len(alarm_map) \in Nat /\ alarm_map[p].time \in Nat
    BY <1>4, EntryTypes
  <2>4. cursor \in DOMAIN alarm_map
    BY <1>4, <2>2, <2>3
  <2>5. alarm_map[cursor].time \in Nat
    BY <1>4, <2>4, EntryTypes
  <2>6. alarm_map[cursor].time <= alarm_map[p].time
    BY <1>4, <2>2, <2>3, <2>4 DEF EpollInv, Sorted
  <2>7. QED
    BY <1>2, <1>4, <2>2, <2>3, <2>4, <2>5, <2>6
<1>6. TypeOK'
  BY <1>1, AlarmsAssumption DEF TypeOK, Phases
<1>7. running = NoAlarm
  BY <1>1 DEF EpollInv, LoopInv
<1>8. LoopInv'
  BY <1>1, <1>5, <1>7, TypeFacts DEF EpollInv, LoopInv, InLoop, IteratorStaysValid
<1>9. (Ahead(alarm_map, Hole, cursor, due))'
  BY <1>1, <1>5 DEF Ahead
<1>10. QED
  BY <1>1, <1>3, <1>6, <1>8, <1>9 DEF EpollInv

-----------------------------------------------------------------------------
(* A callback returns *)

LEMMA EpollReturn ==
  ASSUME TypeOK, EpollInv, LeavesOnAlarm
  PROVE  /\ phase = "on_alarm" /\ phase' = "loop" /\ running' = NoAlarm
         /\ UNCHANGED <<clock, with_alarms, recorded_now, epoll_timeout, due>>
         /\ alarm_map \in Seq(AlarmEntry) /\ Sorted(alarm_map)
         /\ registered \in [Alarms -> BOOLEAN] /\ deadline \in [Alarms -> Nat]
         /\ cursor \in Nat /\ cursor \in DOMAIN alarm_map /\ alarm_map[cursor].cb = running
         /\ running \in Alarms
         /\ Agree(alarm_map, cursor, registered, deadline, all_alarms)
         /\ Ahead(alarm_map, cursor, cursor, due)
         /\ Hole' = 0
<1>1. /\ phase = "on_alarm" /\ phase' = "loop" /\ running' = NoAlarm
      /\ UNCHANGED <<clock, with_alarms, recorded_now, epoll_timeout, due>>
  BY DEF LeavesOnAlarm
<1>2. Hole = cursor /\ Hole' = 0
  BY <1>1 DEF Hole
<1>3. cursor \in DOMAIN alarm_map /\ alarm_map[cursor].cb = running
  BY <1>1 DEF EpollInv, LoopInv, IteratorStaysValid
<1>4. running \in Alarms
  BY <1>3, TypeFacts, EntryTypes
<1>5. Agree(alarm_map, cursor, registered, deadline, all_alarms)
  BY <1>2 DEF EpollInv
<1>6. Ahead(alarm_map, cursor, cursor, due)
  BY <1>2 DEF EpollInv
<1>7. QED
  BY <1>1, <1>2, <1>3, <1>4, <1>5, <1>6, TypeFacts DEF EpollInv

\* What is left to show when the entry under the iterator has gone.
LEMMA ReturnedInv ==
  ASSUME TypeOK, EpollInv, LeavesOnAlarm,
         Sorted(alarm_map'), alarm_map' \in Seq(AlarmEntry),
         Agree(alarm_map', 0, registered', deadline', all_alarms'),
         Ahead(alarm_map', 0, cursor', due),
         cursor' \in Nat, cursor' >= 1,
         registered' \in [Alarms -> BOOLEAN], deadline' \in [Alarms -> 0..MaxTime],
         all_alarms' \subseteq Alarms, set_in_loop' \subseteq Alarms,
         \/ skipped' = skipped
         \/ running \in RecurringAlarms /\ skipped' = skipped \cup {running},
         rerun_due' = rerun_due \/ rerun_due' = rerun_due \cup {running},
         rerun_due' \subseteq skipped'
  PROVE  TypeOK' /\ EpollInv'
<1>1. /\ phase = "on_alarm" /\ phase' = "loop" /\ running' = NoAlarm
      /\ UNCHANGED <<clock, with_alarms, recorded_now, epoll_timeout, due>>
      /\ running \in Alarms /\ Hole' = 0
  BY EpollReturn
<1>2. TypeOK'
  <2>1. skipped' \subseteq Alarms /\ rerun_due' \subseteq Alarms
    BY <1>1 DEF TypeOK
  <2>2. QED
    BY <1>1, <2>1 DEF TypeOK, Phases, AlarmEntry
<1>3. LoopInv'
  <2>1. running' \notin due'
    BY <1>1, AlarmsAssumption DEF TypeOK, Alarms
  <2>2. skipped' \subseteq RecurringAlarms \ due'
    BY <1>1 DEF EpollInv, LoopInv
  <2>3. QED
    BY <1>1, <2>1, <2>2 DEF EpollInv, LoopInv, InLoop, IteratorStaysValid
<1>4. (Ahead(alarm_map, Hole, cursor, due))'
  BY <1>1 DEF Ahead
<1>5. QED
  BY <1>1, <1>2, <1>3, <1>4 DEF EpollInv

\* OnAlarm has returned, and nothing is registered.
LEMMA EntryGoesInv ==
  ASSUME TypeOK, EpollInv, LeavesOnAlarm,
         alarm_map' = RemoveAt(alarm_map, cursor),
         UNCHANGED <<cursor, deadline, all_alarms, registered, set_in_loop, skipped,
                     rerun_due>>
  PROVE  /\ TypeOK' /\ EpollInv'
         /\ \A j \in DOMAIN alarm_map' : \E i \in DOMAIN alarm_map : alarm_map'[j] = alarm_map[i]
<1>1. /\ alarm_map \in Seq(AlarmEntry) /\ Sorted(alarm_map)
      /\ cursor \in Nat /\ cursor \in DOMAIN alarm_map
      /\ Agree(alarm_map, cursor, registered, deadline, all_alarms)
      /\ Ahead(alarm_map, cursor, cursor, due)
  BY EpollReturn
<1>2. RemovedAt(alarm_map', alarm_map, cursor) /\ Sorted(alarm_map')
  BY <1>1, Removal
<1>3. Agree(alarm_map', 0, registered, deadline, all_alarms)
  BY <1>1, <1>2, ReturnAgrees
<1>4. Ahead(alarm_map', 0, cursor, due)
  BY <1>1, <1>2, ReturnAhead
<1>5. TypeOK' /\ EpollInv'
  <2>1. cursor >= 1 /\ rerun_due \subseteq skipped
    BY <1>1, EntryTypes DEF EpollInv, LoopInv
  <2>2. /\ registered \in [Alarms -> BOOLEAN] /\ deadline \in [Alarms -> 0..MaxTime]
        /\ all_alarms \subseteq Alarms /\ set_in_loop \subseteq Alarms
    BY DEF TypeOK
  <2>3. alarm_map' \in Seq(AlarmEntry)
    BY <1>2 DEF RemovedAt
  <2>4. QED
    BY <1>1, <1>2, <1>3, <1>4, <2>1, <2>2, <2>3, ReturnedInv
<1>6. QED
  BY <1>2, <1>5 DEF RemovedAt

\* QuicAlarm::Fire: the alarm is registered while its old entry is there.
LEMMA QuicReturnInv ==
  ASSUME TypeOK, EpollInv, NEW time \in 0..MaxTime, QuicAlarmReturns(time)
  PROVE  /\ TypeOK' /\ EpollInv'
         /\ \A j \in DOMAIN alarm_map' :
              alarm_map'[j].cb = running \/ \E i \in DOMAIN alarm_map : alarm_map'[j] = alarm_map[i]
         /\ all_alarms' \subseteq all_alarms \cup {running} /\ skipped' = skipped
         /\ \A cb \in Alarms : cb # running \/ time = 0 => deadline'[cb] = deadline[cb]
<1>1. /\ LeavesOnAlarm /\ UNCHANGED <<skipped, rerun_due>>
  BY DEF QuicAlarmReturns
<1>2. CASE ~ (time # 0 /\ deadline[running] = 0)
  <2>1. /\ alarm_map' = RemoveAt(alarm_map, cursor)
        /\ UNCHANGED <<cursor, deadline, all_alarms, registered, set_in_loop>>
    BY <1>2 DEF QuicAlarmReturns
  <2>2. QED
    BY <1>1, <2>1, EntryGoesInv
<1>3. CASE time # 0 /\ deadline[running] = 0
  <2> DEFINE p == InsertionPoint(alarm_map, time)
             entry == [time |-> time, cb |-> running]
             map == InsertAt(alarm_map, p, entry)
  <2>1. /\ alarm_map \in Seq(AlarmEntry) /\ Sorted(alarm_map)
        /\ registered \in [Alarms -> BOOLEAN] /\ deadline \in [Alarms -> Nat]
        /\ cursor \in Nat /\ cursor \in DOMAIN alarm_map
        /\ running \in Alarms
        /\ Agree(alarm_map, cursor, registered, deadline, all_alarms)
        /\ Ahead(alarm_map, cursor, cursor, due)
    BY <1>1, EpollReturn
  <2>2. time \in Times
    BY <1>3, AlarmsAssumption DEF Times
  <2>3. /\ p \in Nat /\ p >= 1
        /\ InsertedAt(map, alarm_map, p, entry)
        /\ Sorted(map)
    BY <2>1, <2>2, Insertion
  <2>4. /\ deadline' = [deadline EXCEPT ![running] = time]
        /\ registered' = [registered EXCEPT ![running] = TRUE]
        /\ all_alarms' = all_alarms \cup {running}
        /\ set_in_loop' = set_in_loop \cup {running}
        /\ IF p <= cursor
           THEN alarm_map' = RemoveAt(map, cursor + 1) /\ cursor' = cursor + 1
           ELSE alarm_map' = RemoveAt(map, cursor) /\ cursor' = cursor
    BY <1>3 DEF QuicAlarmReturns
  <2> HIDE DEF p, map
  <2>5. cursor' = Up(cursor, p) /\ alarm_map' = RemoveAt(map, cursor')
    BY <2>1, <2>3, <2>4 DEF Up
  <2>6. map \in Seq(AlarmEntry) /\ cursor' \in DOMAIN map
    BY <2>1, <2>3, <2>5 DEF InsertedAt
  <2>7. running \notin all_alarms
    BY <1>3, <2>1 DEF Agree
  <2>8. Agree(map, Up(cursor, p), [registered EXCEPT ![running] = TRUE],
              [deadline EXCEPT ![running] = time], all_alarms \cup {running})
    BY <2>1, <2>2, <2>3, <2>7, InsertAgrees, Zenon
  <2>9. Agree(map, cursor', registered', deadline', all_alarms')
    BY <2>4, <2>5, <2>8, Zenon
  <2>10. Ahead(map, cursor', cursor', due)
    BY <2>1, <2>3, <2>5, InsertAhead
  <2>11. RemovedAt(alarm_map', map, cursor') /\ Sorted(alarm_map')
    BY <2>3, <2>5, <2>6, Removal
  <2>12. Agree(alarm_map', 0, registered', deadline', all_alarms')
    BY <2>6, <2>9, <2>11, ReturnAgrees
  <2>13. Ahead(alarm_map', 0, cursor', due)
    BY <2>6, <2>10, <2>11, ReturnAhead
  <2>14. TypeOK' /\ EpollInv'
    <3>1. cursor' \in Nat /\ cursor' >= 1
      BY <2>6, EntryTypes
    <3>2. /\ registered' \in [Alarms -> BOOLEAN] /\ deadline' \in [Alarms -> 0..MaxTime]
      BY <2>4 DEF TypeOK
    <3>3. all_alarms' \subseteq Alarms /\ set_in_loop' \subseteq Alarms
      BY <2>1, <2>4 DEF TypeOK
    <3>4. alarm_map' \in Seq(AlarmEntry)
      BY <2>11 DEF RemovedAt
    <3>5. rerun_due' \subseteq skipped'
      BY <1>1 DEF EpollInv, LoopInv
    <3>6. QED
      BY <1>1, <2>11, <2>12, <2>13, <3>1, <3>2, <3>3, <3>4, <3>5, ReturnedInv
  <2>15. \A j \in DOMAIN alarm_map' :
           alarm_map'[j].cb = running \/ \E i \in DOMAIN alarm_map : alarm_map'[j] = alarm_map[i]
    <3>1. SUFFICES ASSUME NEW j \in DOMAIN alarm_map'
                   PROVE  \/ alarm_map'[j].cb = running
                          \/ \E i \in DOMAIN alarm_map : alarm_map'[j] = alarm_map[i]
      OBVIOUS
    <3>2. PICK k \in DOMAIN map : alarm_map'[j] = map[k]
      BY <2>11 DEF RemovedAt
    <3>3. k = p \/ \E i \in DOMAIN alarm_map : k = Up(i, p)
      BY <2>3, <3>2 DEF InsertedAt
    <3>4. map[p].cb = running
      BY <2>3 DEF InsertedAt
    <3>5. QED
      BY <2>3, <3>2, <3>3, <3>4 DEF InsertedAt
  <2>16. QED
    BY <1>1, <1>3, <2>1, <2>4, <2>14, <2>15
<1>4. QED
  BY <1>2, <1>3

\* The epoll server registers a recurring alarm when its old entry has gone.
LEMMA RecurringReturnInv ==
  ASSUME TypeOK, EpollInv, NEW time \in 0..MaxTime, RecurringAlarmReturns(time)
  PROVE  /\ TypeOK' /\ EpollInv'
         /\ \A j \in DOMAIN alarm_map' :
              alarm_map'[j].cb = running \/ \E i \in DOMAIN alarm_map : alarm_map'[j] = alarm_map[i]
         /\ all_alarms' \subseteq all_alarms \cup {running}
         /\ skipped' \subseteq skipped \cup {running}
         /\ \A cb \in Alarms : cb # running => deadline'[cb] = deadline[cb]
<1>1. LeavesOnAlarm /\ running \in RecurringAlarms
  BY DEF RecurringAlarmReturns
<1>2. CASE ~ IsNewTimeout(time)
  <2>1. /\ alarm_map' = RemoveAt(alarm_map, cursor)
        /\ UNCHANGED <<cursor, deadline, all_alarms, registered, set_in_loop, skipped,
                       rerun_due>>
    BY <1>2 DEF RecurringAlarmReturns
  <2>2. QED
    BY <1>1, <2>1, EntryGoesInv
<1>3. CASE IsNewTimeout(time)
  <2> DEFINE map == RemoveAt(alarm_map, cursor)
             p == InsertionPoint(map, time)
             entry == [time |-> time, cb |-> running]
  <2>1. /\ alarm_map \in Seq(AlarmEntry) /\ Sorted(alarm_map)
        /\ registered \in [Alarms -> BOOLEAN] /\ deadline \in [Alarms -> Nat]
        /\ cursor \in Nat /\ cursor \in DOMAIN alarm_map
        /\ running \in Alarms /\ phase = "on_alarm"
        /\ Agree(alarm_map, cursor, registered, deadline, all_alarms)
        /\ Ahead(alarm_map, cursor, cursor, due)
    BY <1>1, EpollReturn
  <2>2. time \in Times
    BY <1>3, AlarmsAssumption DEF Times, IsNewTimeout
  <2>3. /\ RegisterAlarm(map, cursor, all_alarms, time, running)
        /\ deadline' = [deadline EXCEPT ![running] = time]
        /\ skipped' = skipped \cup MustWait(running, time)
        /\ rerun_due' = IF time <= recorded_now THEN rerun_due \cup {running} ELSE rerun_due
    BY <1>3 DEF RecurringAlarmReturns
  <2>4. /\ running \notin all_alarms
        /\ alarm_map' = InsertAt(map, p, entry)
        /\ cursor' = IF p <= cursor THEN cursor + 1 ELSE cursor
        /\ all_alarms' = all_alarms \cup {running}
        /\ registered' = [registered EXCEPT ![running] = TRUE]
        /\ set_in_loop' = set_in_loop \cup {running}
    BY <2>1, <2>3 DEF RegisterAlarm, InLoop
  <2>5. RemovedAt(map, alarm_map, cursor) /\ Sorted(map)
    BY <2>1, Removal
  <2>6. map \in Seq(AlarmEntry)
    BY <2>5 DEF RemovedAt
  <2> HIDE DEF map
  <2>7. /\ p \in Nat /\ p >= 1
        /\ InsertedAt(alarm_map', map, p, entry)
        /\ Sorted(alarm_map')
    BY <2>1, <2>2, <2>4, <2>5, <2>6, Insertion
  <2> HIDE DEF p
  <2>8. Agree(map, 0, registered, deadline, all_alarms)
    BY <2>1, <2>5, ReturnAgrees
  <2>9. Ahead(map, 0, cursor, due)
    BY <2>1, <2>5, ReturnAhead
  <2>10. Up(0, p) = 0 /\ Up(cursor, p) = cursor' /\ 0 \in Nat
    BY <2>1, <2>4, <2>7 DEF Up
  <2>11. Agree(alarm_map', 0, registered', deadline', all_alarms')
    <3>1. Agree(alarm_map', Up(0, p), [registered EXCEPT ![running] = TRUE],
                [deadline EXCEPT ![running] = time], all_alarms \cup {running})
      BY <2>1, <2>2, <2>4, <2>6, <2>7, <2>8, <2>10, InsertAgrees, Zenon
    <3>2. QED
      BY <2>3, <2>4, <2>10, <3>1, Zenon
  <2>12. Ahead(alarm_map', 0, cursor', due)
    BY <2>1, <2>6, <2>7, <2>9, <2>10, InsertAhead
  <2>13. /\ skipped' = skipped \/ skipped' = skipped \cup {running}
         /\ rerun_due' = rerun_due \/ rerun_due' = rerun_due \cup {running}
         /\ rerun_due' \subseteq skipped'
    BY <2>3 DEF EpollInv, LoopInv, MustWait
  <2>14. TypeOK' /\ EpollInv'
    <3>1. cursor' \in Nat /\ cursor' >= 1
      BY <2>1, <2>4, EntryTypes
    <3>2. /\ registered' \in [Alarms -> BOOLEAN] /\ deadline' \in [Alarms -> 0..MaxTime]
      BY <2>3, <2>4 DEF TypeOK
    <3>3. all_alarms' \subseteq Alarms /\ set_in_loop' \subseteq Alarms
      BY <2>1, <2>4 DEF TypeOK
    <3>4. alarm_map' \in Seq(AlarmEntry)
      BY <2>7 DEF InsertedAt
    <3>5. QED
      BY <1>1, <2>7, <2>11, <2>12, <2>13, <3>1, <3>2, <3>3, <3>4, ReturnedInv
  <2>15. \A j \in DOMAIN alarm_map' :
           alarm_map'[j].cb = running \/ \E i \in DOMAIN alarm_map : alarm_map'[j] = alarm_map[i]
    <3>1. SUFFICES ASSUME NEW j \in DOMAIN alarm_map'
                   PROVE  \/ alarm_map'[j].cb = running
                          \/ \E i \in DOMAIN alarm_map : alarm_map'[j] = alarm_map[i]
      OBVIOUS
    <3>2. j = p \/ \E k \in DOMAIN map : alarm_map'[j] = map[k]
      BY <2>7 DEF InsertedAt
    <3>3. alarm_map'[p].cb = running
      BY <2>7 DEF InsertedAt
    <3>4. \A k \in DOMAIN map : \E i \in DOMAIN alarm_map : map[k] = alarm_map[i]
      BY <2>5 DEF RemovedAt
    <3>5. QED
      BY <3>2, <3>3, <3>4
  <2>16. QED
    BY <2>1, <2>3, <2>4, <2>13, <2>14, <2>15
<1>4. QED
  BY <1>2, <1>3

-----------------------------------------------------------------------------
(* Sessions *)

\* No step but the deletion of a session adds to what must be forgotten; new are
\* the alarms that a step may set.
LEMMA StillForgotten ==
  ASSUME FreedAlarmsAreForgotten, NEW new,
         \A cb \in SessionsOfAlarms :
           session'[cb] = "none" => session[cb] = "none" /\ cb \notin new,
         \A j \in DOMAIN alarm_map' :
           alarm_map'[j].cb \in new \/ \E i \in DOMAIN alarm_map : alarm_map'[j] = alarm_map[i],
         \/ running' \in {running, NoAlarm}
         \/ \E i \in DOMAIN alarm_map : alarm_map[i].cb = running',
         all_alarms' \subseteq all_alarms \cup new
  PROVE  FreedAlarmsAreForgotten'
<1>1. SUFFICES ASSUME NEW cb \in SessionsOfAlarms, session'[cb] = "none"
               PROVE  /\ running' # cb
                      /\ \A p \in DOMAIN alarm_map' : alarm_map'[p].cb # cb
                      /\ cb \notin all_alarms'
  BY DEF FreedAlarmsAreForgotten
<1>2. /\ running # cb /\ cb \notin new
      /\ \A p \in DOMAIN alarm_map : alarm_map[p].cb # cb
      /\ cb \notin all_alarms
  BY <1>1 DEF FreedAlarmsAreForgotten
<1>3. cb # NoAlarm
  BY AlarmsAssumption DEF SessionsOfAlarms
<1>4. running' # cb
  BY <1>2, <1>3
<1>5. \A p \in DOMAIN alarm_map' : alarm_map'[p].cb # cb
  BY <1>2
<1>6. cb \notin all_alarms'
  BY <1>2
<1>7. QED
  BY <1>4, <1>5, <1>6

LEMMA AlarmKinds ==
  /\ DeleteAlarm \in Alarms /\ DeleteAlarm \notin SessionsOfAlarms
  /\ DeleteAlarm # NoAlarm /\ NoAlarm \notin Alarms
  /\ SessionsOfAlarms \subseteq Alarms /\ RecurringAlarms \subseteq Alarms
  /\ RecurringAlarms \cap SessionsOfAlarms = {} /\ DeleteAlarm \notin RecurringAlarms
  /\ QuicAlarms \subseteq Alarms
BY AlarmsAssumption, SessionAlarmsAssumption DEF Alarms, SessionsOfAlarms

LEMMA CreateStep ==
  ASSUME AlarmsInv, NEW cb \in SessionsOfAlarms, CreateQuicSession(cb)
  PROVE  AlarmsInv'
<1>1. /\ server = "running" /\ session[cb] = "none"
      /\ session' = [session EXCEPT ![cb] = "live"]
      /\ UNCHANGED <<vars, server>>
  BY DEF CreateQuicSession, SessionsRun
<1>2. TypeOK' /\ EpollInv'
  BY <1>1 DEF AlarmsInv, SessionTypeOK, TypeOK, vars, roundVars, EpollInv, LoopInv, Sorted,
              Ahead, Agree, Hole, InLoop, IteratorStaysValid
<1>3. session \in [SessionsOfAlarms -> {"none", "live", "closed"}]
  BY DEF AlarmsInv, SessionTypeOK
<1>4. SessionTypeOK'
  BY <1>1, <1>2, <1>3 DEF SessionTypeOK
<1>5. FreedAlarmsAreForgotten'
  <2>1. \A a \in SessionsOfAlarms : session'[a] = "none" => session[a] = "none"
    BY <1>1, <1>3
  <2>2. UNCHANGED <<alarm_map, running, all_alarms>>
    BY <1>1 DEF vars
  <2>3. QED
    BY <2>1, <2>2 DEF AlarmsInv, FreedAlarmsAreForgotten
<1>6. closed_session_list_' = closed_session_list_
  BY <1>1, <1>3 DEF closed_session_list_
<1>7. ClosedSessionsAreDeleted'
  BY <1>1, <1>6 DEF AlarmsInv, ClosedSessionsAreDeleted, vars
<1>8. QED
  BY <1>1, <1>2, <1>4, <1>5, <1>7 DEF AlarmsInv, vars

LEMMA SetStep ==
  ASSUME AlarmsInv, NEW cb \in Alarms, NEW time \in Times, SetAlarm(cb, time)
  PROVE  AlarmsInv'
<1>1. /\ server = "running" /\ ClientRuns /\ running # DeleteAlarm
      /\ cb \in RecurringAlarms \/ (cb \in SessionsOfAlarms /\ session[cb] = "live")
      /\ deadline' = [deadline EXCEPT ![cb] = time]
      /\ RegisterAlarm(alarm_map, cursor, all_alarms, time, cb)
      /\ UNCHANGED <<clock, roundVars, skipped, running, due, rerun_due>>
      /\ UNCHANGED <<session, server>>
  BY DEF SetAlarm, SessionsRun, Set, sessionVars
<1>2. /\ TypeOK' /\ EpollInv'
      /\ \A j \in DOMAIN alarm_map' :
           alarm_map'[j].cb = cb \/ \E i \in DOMAIN alarm_map : alarm_map'[j] = alarm_map[i]
  BY <1>1, RegisterInv DEF AlarmsInv, SessionTypeOK
<1>3. SessionTypeOK'
  BY <1>1, <1>2 DEF AlarmsInv, SessionTypeOK
<1>4. FreedAlarmsAreForgotten'
  <2>1. all_alarms' = all_alarms \cup {cb}
    BY <1>1 DEF RegisterAlarm
  <2>2. \A a \in SessionsOfAlarms : session'[a] = "none" => session[a] = "none" /\ a \notin {cb}
    BY <1>1, AlarmKinds
  <2>3. QED
    BY <1>1, <1>2, <2>1, <2>2, StillForgotten DEF AlarmsInv
<1>5. deadline'[DeleteAlarm] = deadline[DeleteAlarm]
  BY <1>1, AlarmKinds DEF AlarmsInv, SessionTypeOK, TypeOK
<1>6. ClosedSessionsAreDeleted'
  BY <1>1, <1>5 DEF AlarmsInv, ClosedSessionsAreDeleted, closed_session_list_
<1>7. QED
  BY <1>1, <1>2, <1>3, <1>4, <1>5, <1>6 DEF AlarmsInv

LEMMA CancelStep ==
  ASSUME AlarmsInv, NEW cb \in Alarms, CancelAlarm(cb)
  PROVE  AlarmsInv'
<1>1. /\ server = "running" /\ ClientRuns /\ running # DeleteAlarm
      /\ cb \in RecurringAlarms \/ cb \in SessionsOfAlarms
      /\ deadline' = [deadline EXCEPT ![cb] = 0]
      /\ UnregisterIfRegistered(cb)
      /\ due' = due \ {cb}
      /\ UNCHANGED <<clock, roundVars, skipped, running, set_in_loop, rerun_due>>
      /\ UNCHANGED <<session, server>>
  BY DEF CancelAlarm, SessionsRun, Cancel, sessionVars
<1>2. /\ TypeOK' /\ EpollInv'
      /\ \A j \in DOMAIN alarm_map' : \E i \in DOMAIN alarm_map : alarm_map'[j] = alarm_map[i]
      /\ all_alarms' \subseteq all_alarms \ {cb}
  BY <1>1, UnregisterInv DEF AlarmsInv, SessionTypeOK
<1>3. SessionTypeOK'
  BY <1>1, <1>2 DEF AlarmsInv, SessionTypeOK
<1>4. FreedAlarmsAreForgotten'
  BY <1>1, <1>2 DEF AlarmsInv, FreedAlarmsAreForgotten
<1>5. deadline'[DeleteAlarm] = deadline[DeleteAlarm]
  BY <1>1, AlarmKinds DEF AlarmsInv, SessionTypeOK, TypeOK
<1>6. ClosedSessionsAreDeleted'
  BY <1>1, <1>5 DEF AlarmsInv, ClosedSessionsAreDeleted, closed_session_list_
<1>7. QED
  BY <1>1, <1>2, <1>3, <1>4, <1>5, <1>6 DEF AlarmsInv

\* The first session of the list sets the delete alarm, which is not set then;
\* for the others it is.
LEMMA CloseStep ==
  ASSUME AlarmsInv, NEW cb \in SessionsOfAlarms, OnConnectionClosed(cb)
  PROVE  AlarmsInv'
<1>1. /\ server = "running" /\ ClientRuns /\ running # DeleteAlarm
      /\ session[cb] = "live"
      /\ session' = [session EXCEPT ![cb] = "closed"]
      /\ IF closed_session_list_ = {} THEN SetDeleteAlarm ELSE KeepAlarms
      /\ UNCHANGED <<clock, roundVars, skipped, running, rerun_due, server>>
  BY DEF OnConnectionClosed, SessionsRun
<1>2. session \in [SessionsOfAlarms -> {"none", "live", "closed"}] /\ TypeOK /\ EpollInv
  BY <1>1 DEF AlarmsInv, SessionTypeOK
<1>3. closed_session_list_' = closed_session_list_ \cup {cb}
  BY <1>1, <1>2 DEF closed_session_list_
<1>4. session' \in [SessionsOfAlarms -> {"none", "live", "closed"}]
      /\ \A a \in SessionsOfAlarms : session'[a] = "none" => session[a] = "none"
  BY <1>1, <1>2
<1>5. CASE closed_session_list_ = {}
  <2>1. deadline[DeleteAlarm] = 0
    BY <1>1, <1>5 DEF AlarmsInv, ClosedSessionsAreDeleted
  <2>2. ~ registered[DeleteAlarm] /\ DeleteAlarm \notin all_alarms
    BY <1>2, <2>1, AlarmKinds DEF EpollInv, Agree
  <2>3. all_alarms \ {DeleteAlarm} = all_alarms
    BY <2>2
  <2>4. ApproximateNow \in Times /\ ApproximateNow \in 1..clock
    BY <1>2, AlarmsAssumption DEF ApproximateNow, TypeOK, Times, EpollInv, LoopInv
  <2>5. /\ RegisterAlarm(alarm_map, cursor, all_alarms, ApproximateNow, DeleteAlarm)
        /\ deadline' = [deadline EXCEPT ![DeleteAlarm] = ApproximateNow]
        /\ due' = due \ {DeleteAlarm}
    BY <1>1, <1>5, <2>2, <2>3 DEF SetDeleteAlarm
  <2>6. /\ TypeOK' /\ EpollInv'
        /\ \A j \in DOMAIN alarm_map' :
             \/ alarm_map'[j].cb = DeleteAlarm
             \/ \E i \in DOMAIN alarm_map : alarm_map'[j] = alarm_map[i]
    BY <1>1, <1>2, <2>4, <2>5, AlarmKinds, RegisterInv
  <2>7. FreedAlarmsAreForgotten'
    <3>1. all_alarms' = all_alarms \cup {DeleteAlarm}
      BY <2>5 DEF RegisterAlarm
    <3>2. \A a \in SessionsOfAlarms :
            session'[a] = "none" => session[a] = "none" /\ a \notin {DeleteAlarm}
      BY <1>4, AlarmKinds
    <3>3. QED
      BY <1>1, <2>6, <3>1, <3>2, StillForgotten DEF AlarmsInv
  <2>8. deadline'[DeleteAlarm] = ApproximateNow
    BY <1>2, <2>5, AlarmKinds DEF TypeOK
  <2>9. ClosedSessionsAreDeleted'
    BY <1>1, <1>3, <2>4, <2>8 DEF ClosedSessionsAreDeleted
  <2>10. QED
    BY <1>1, <1>4, <2>6, <2>7, <2>9 DEF AlarmsInv, SessionTypeOK
<1>6. CASE closed_session_list_ # {}
  <2>1. UNCHANGED <<alarm_map, cursor, all_alarms, registered, set_in_loop, deadline, due>>
    BY <1>1, <1>6 DEF KeepAlarms
  <2>2. TypeOK' /\ EpollInv'
    BY <1>1, <1>2, <2>1 DEF TypeOK, vars, roundVars, EpollInv, LoopInv, Sorted,
                            Ahead, Agree, Hole, InLoop, IteratorStaysValid
  <2>3. FreedAlarmsAreForgotten'
    BY <1>1, <1>4, <2>1 DEF AlarmsInv, FreedAlarmsAreForgotten
  <2>4. ClosedSessionsAreDeleted'
    BY <1>1, <1>3, <1>6, <2>1 DEF AlarmsInv, ClosedSessionsAreDeleted
  <2>5. QED
    BY <1>1, <1>4, <2>1, <2>2, <2>3, <2>4 DEF AlarmsInv, SessionTypeOK
<1>7. QED
  BY <1>5, <1>6

\* A session is deleted while the delete alarm is on the stack, so that what is
\* destroyed is never under the iterator.
LEMMA DeleteStep ==
  ASSUME AlarmsInv, NEW cb \in SessionsOfAlarms, DeleteSession(cb)
  PROVE  AlarmsInv'
<1>1. /\ running = DeleteAlarm /\ session[cb] = "closed"
      /\ session' = [session EXCEPT ![cb] = "none"]
      /\ UnregisterIfRegistered(cb)
      /\ deadline' = [deadline EXCEPT ![cb] = 0]
      /\ due' = due \ {cb}
      /\ UNCHANGED <<clock, roundVars, skipped, running, set_in_loop, rerun_due, server>>
  BY DEF DeleteSession, DestroyAlarm
<1>2. server = "running"
  BY <1>1, AlarmKinds DEF AlarmsInv, SessionTypeOK, GoneInv
<1>3. session \in [SessionsOfAlarms -> {"none", "live", "closed"}] /\ TypeOK /\ EpollInv
  BY <1>2 DEF AlarmsInv, SessionTypeOK
<1>4. ClientRuns
  BY <1>1, <1>3, AlarmKinds DEF EpollInv, LoopInv, ClientRuns
<1>5. cb \in Alarms /\ cb # DeleteAlarm /\ cb \notin RecurringAlarms
  BY AlarmKinds
<1>6. /\ TypeOK' /\ EpollInv'
      /\ \A j \in DOMAIN alarm_map' :
           /\ \E i \in DOMAIN alarm_map : alarm_map'[j] = alarm_map[i]
           /\ alarm_map'[j].cb = cb => running = cb
      /\ all_alarms' \subseteq all_alarms \ {cb}
  BY <1>1, <1>3, <1>4, <1>5, UnregisterInv
<1>7. SessionTypeOK'
  BY <1>1, <1>2, <1>3, <1>6 DEF AlarmsInv, SessionTypeOK
<1>8. FreedAlarmsAreForgotten'
  <2>1. SUFFICES ASSUME NEW a \in SessionsOfAlarms, session'[a] = "none"
                 PROVE  /\ running # a
                        /\ \A p \in DOMAIN alarm_map' : alarm_map'[p].cb # a
                        /\ a \notin all_alarms'
    BY <1>1 DEF FreedAlarmsAreForgotten
  <2>2. CASE a = cb
    BY <1>1, <1>5, <1>6, <2>2
  <2>3. CASE a # cb
    <3>1. session[a] = "none"
      BY <1>1, <1>3, <2>1, <2>3
    <3>2. /\ running # a
          /\ \A p \in DOMAIN alarm_map : alarm_map[p].cb # a
          /\ a \notin all_alarms
      BY <3>1 DEF AlarmsInv, FreedAlarmsAreForgotten
    <3>3. QED
      BY <1>6, <3>2
  <2>4. QED
    BY <2>2, <2>3
<1>9. deadline'[DeleteAlarm] = 0
  BY <1>1, <1>3, <1>5, AlarmKinds DEF AlarmsInv, TypeOK
<1>10. ClosedSessionsAreDeleted'
  BY <1>1, <1>9 DEF ClosedSessionsAreDeleted
<1>11. QED
  BY <1>1, <1>2, <1>6, <1>7, <1>8, <1>9, <1>10 DEF AlarmsInv

\* Nothing is registered any more when sessions are destroyed after the server.
LEMMA DestroyStep ==
  ASSUME AlarmsInv, NEW cb \in SessionsOfAlarms, DestroySession(cb)
  PROVE  AlarmsInv'
<1>1. /\ server = "gone"
      /\ session' = [session EXCEPT ![cb] = "none"]
      /\ UnregisterIfRegistered(cb)
      /\ deadline' = [deadline EXCEPT ![cb] = 0]
      /\ due' = due \ {cb}
      /\ UNCHANGED <<clock, roundVars, skipped, running, set_in_loop, rerun_due, server>>
  BY DEF DestroySession, DestroyAlarm
<1>2. TypeOK /\ GoneInv /\ session \in [SessionsOfAlarms -> {"none", "live", "closed"}]
  BY <1>1 DEF AlarmsInv, SessionTypeOK
<1>3. cb \in Alarms
  BY AlarmKinds
<1>4. UNCHANGED <<alarm_map, cursor, all_alarms, registered>>
  BY <1>1, <1>2, <1>3 DEF GoneInv, UnregisterIfRegistered
<1>5. TypeOK'
  <2>1. 0 \in 0..MaxTime /\ deadline \in [Alarms -> 0..MaxTime]
    BY <1>2, AlarmsAssumption DEF TypeOK
  <2>2. deadline' \in [Alarms -> 0..MaxTime] /\ due' \subseteq Alarms
    BY <1>1, <1>2, <2>1 DEF TypeOK
  <2>3. QED
    BY <1>1, <1>2, <1>4, <2>2 DEF TypeOK, roundVars
<1>6. GoneInv'
  BY <1>1, <1>2, <1>4 DEF GoneInv, roundVars
<1>7. FreedAlarmsAreForgotten'
  <2>1. DOMAIN alarm_map' = {}
    BY <1>2, <1>4 DEF GoneInv
  <2>2. running' = NoAlarm /\ all_alarms' = {}
    BY <1>6 DEF GoneInv
  <2>3. QED
    BY <2>1, <2>2, AlarmKinds DEF FreedAlarmsAreForgotten
<1>8. running' # DeleteAlarm
  BY <1>6, AlarmKinds DEF GoneInv
<1>9. QED
  BY <1>1, <1>2, <1>5, <1>6, <1>7, <1>8 DEF AlarmsInv, SessionTypeOK, ClosedSessionsAreDeleted

\* ~EpollServer: every registered alarm has an entry, through which it learns.
LEMMA CleanupStep ==
  ASSUME AlarmsInv, CleanupTimeToAlarmCBMap
  PROVE  AlarmsInv'
<1>1. /\ server = "running" /\ phase = "outside" /\ server' = "gone"
      /\ registered' = [cb \in Alarms |->
           registered[cb] /\ \A p \in DOMAIN alarm_map : alarm_map[p].cb # cb]
      /\ alarm_map' = << >>
      /\ all_alarms' = {}
      /\ UNCHANGED <<clock, roundVars, skipped, deadline, cursor, running, due, set_in_loop,
                     rerun_due, session>>
  BY DEF CleanupTimeToAlarmCBMap
<1>2. TypeOK /\ EpollInv
  BY <1>1 DEF AlarmsInv, SessionTypeOK
<1>3. \A cb \in Alarms : ~ registered'[cb]
  <2>1. SUFFICES ASSUME NEW cb \in Alarms PROVE ~ registered'[cb]
    OBVIOUS
  <2>2. registered[cb] => \E p \in DOMAIN alarm_map : alarm_map[p].cb = cb
    BY <1>2 DEF EpollInv, Agree
  <2>3. registered'[cb] = (registered[cb] /\ \A p \in DOMAIN alarm_map : alarm_map[p].cb # cb)
    BY <1>1
  <2>4. QED
    BY <2>2, <2>3
<1>4. due = {} /\ skipped = {} /\ running = NoAlarm
  BY <1>1, <1>2 DEF EpollInv, LoopInv, InLoop
<1>5. TypeOK'
  <2>1. registered' \in [Alarms -> BOOLEAN]
    BY <1>1, Zenon
  <2>2. alarm_map' \in Seq([time : Times, cb : Alarms])
    BY <1>1
  <2>3. QED
    BY <1>1, <1>2, <2>1, <2>2 DEF TypeOK, roundVars
<1>6. GoneInv'
  BY <1>1, <1>3, <1>4 DEF GoneInv, roundVars
<1>7. FreedAlarmsAreForgotten'
  <2>1. DOMAIN alarm_map' = {}
    BY <1>1
  <2>2. QED
    BY <1>1, <1>4, <2>1, AlarmKinds DEF FreedAlarmsAreForgotten
<1>8. running' # DeleteAlarm
  BY <1>1, <1>4, AlarmKinds
<1>9. QED
  BY <1>1, <1>5, <1>6, <1>7, <1>8 DEF AlarmsInv, SessionTypeOK, ClosedSessionsAreDeleted

\* Steps of the epoll server that change no deadline of DeleteAlarm and do not
\* begin or end it.
LEMMA RoundStep ==
  ASSUME AlarmsInv, server = "running", UNCHANGED sessionVars, TypeOK', EpollInv',
         FreedAlarmsAreForgotten', clock' \in Nat, clock' >= clock,
         deadline'[DeleteAlarm] = deadline[DeleteAlarm],
         running # DeleteAlarm, running' # DeleteAlarm
  PROVE  AlarmsInv'
<1>1. clock \in Nat /\ UNCHANGED <<session, server>>
  BY TypeFacts DEF AlarmsInv, SessionTypeOK, sessionVars
<1>2. SessionTypeOK'
  BY <1>1 DEF AlarmsInv, SessionTypeOK
<1>3. ClosedSessionsAreDeleted'
  BY <1>1 DEF AlarmsInv, ClosedSessionsAreDeleted, closed_session_list_
<1>4. QED
  BY <1>1, <1>2, <1>3 DEF AlarmsInv

\* OnAlarm of DeleteAlarm returns when it has deleted every session.
LEMMA OnAlarmStep ==
  ASSUME AlarmsInv, NEW time \in 0..MaxTime, OnAlarmReturns(time)
  PROVE  AlarmsInv'
<1>1. /\ running = DeleteAlarm => closed_session_list_ = {} /\ time = 0
      /\ QuicAlarmReturns(time)
      /\ UNCHANGED sessionVars
  BY DEF OnAlarmReturns
<1>2. running \in QuicAlarms /\ running \in Alarms /\ LeavesOnAlarm
  BY <1>1, AlarmKinds DEF QuicAlarmReturns
<1>3. server = "running" /\ UNCHANGED <<session, server>>
  BY <1>1, <1>2, AlarmKinds DEF AlarmsInv, SessionTypeOK, GoneInv, sessionVars
<1>4. TypeOK /\ EpollInv
  BY <1>3 DEF AlarmsInv, SessionTypeOK
<1>5. /\ TypeOK' /\ EpollInv'
      /\ \A j \in DOMAIN alarm_map' :
           alarm_map'[j].cb = running \/ \E i \in DOMAIN alarm_map : alarm_map'[j] = alarm_map[i]
      /\ all_alarms' \subseteq all_alarms \cup {running} /\ skipped' = skipped
      /\ \A cb \in Alarms : cb # running \/ time = 0 => deadline'[cb] = deadline[cb]
  BY <1>1, <1>4, QuicReturnInv
<1>6. clock' = clock /\ running' = NoAlarm
  BY <1>2 DEF LeavesOnAlarm
<1>7. FreedAlarmsAreForgotten'
  <2>1. \A a \in SessionsOfAlarms :
          session'[a] = "none" => session[a] = "none" /\ a \notin {running}
    BY <1>3 DEF AlarmsInv, FreedAlarmsAreForgotten
  <2>2. QED
    BY <1>5, <1>6, <2>1, StillForgotten DEF AlarmsInv
<1>8. SessionTypeOK'
  BY <1>3, <1>5 DEF AlarmsInv, SessionTypeOK
<1>9. deadline'[DeleteAlarm] = deadline[DeleteAlarm]
  BY <1>1, <1>5, AlarmKinds
<1>10. ClosedSessionsAreDeleted'
  <2>1. closed_session_list_' = closed_session_list_
    BY <1>3 DEF closed_session_list_
  <2>2. closed_session_list_ # {} => running # DeleteAlarm
    BY <1>1
  <2>3. QED
    BY <1>3, <1>6, <1>9, <2>1, <2>2 DEF AlarmsInv, ClosedSessionsAreDeleted
<1>11. QED
  BY <1>3, <1>5, <1>6, <1>7, <1>8, <1>10, AlarmKinds DEF AlarmsInv

\* The rounds of the epoll server, seen by the sessions.
LEMMA EpollServerStep ==
  ASSUME AlarmsInv, EpollServerRuns
  PROVE  AlarmsInv'
<1>1. /\ server = "running" /\ UNCHANGED sessionVars
      /\ session' = session /\ server' = server
  BY DEF EpollServerRuns, sessionVars
<1>2. TypeOK /\ EpollInv /\ FreedAlarmsAreForgotten
  BY <1>1 DEF AlarmsInv, SessionTypeOK
<1>3. clock \in Nat
  BY <1>2, TypeFacts
<1>4. ASSUME UNCHANGED <<alarm_map, all_alarms, deadline>>, skipped' \subseteq skipped,
             running' = running, TypeOK', EpollInv', clock' \in Nat, clock' >= clock,
             running = NoAlarm
      PROVE  AlarmsInv'
  <2>1. FreedAlarmsAreForgotten'
    BY <1>1, <1>2, <1>4 DEF FreedAlarmsAreForgotten
  <2>2. QED
    BY <1>1, <1>4, <2>1, AlarmKinds, RoundStep
<1>5. CASE WaitForEvents
  <2>1. /\ phase = "outside"
        /\ UNCHANGED <<alarm_map, all_alarms, skipped, deadline, running>>
        /\ \E now \in clock..MaxTime : clock' = now
    BY <1>5 DEF WaitForEvents
  <2>2. clock' \in Nat /\ clock' >= clock
    BY <1>3, <2>1, AlarmsAssumption
  <2>3. running = NoAlarm
    BY <1>2, <2>1 DEF EpollInv, LoopInv
  <2>4. QED
    BY <1>2, <1>4, <1>5, <2>1, <2>2, <2>3, WaitInv
<1>6. CASE ReturnWithoutAlarms
  <2>1. phase = "events" /\ UNCHANGED <<clock, alarm_map, all_alarms, skipped, deadline, running>>
    BY <1>6 DEF ReturnWithoutAlarms
  <2>2. running = NoAlarm
    BY <1>2, <2>1 DEF EpollInv, LoopInv
  <2>3. QED
    BY <1>2, <1>3, <1>4, <1>6, <2>1, <2>2, NoLoopInv
<1>7. CASE CallAlarms
  <2>1. phase = "events" /\ UNCHANGED <<clock, alarm_map, all_alarms, skipped, deadline, running>>
    BY <1>7 DEF CallAlarms
  <2>2. running = NoAlarm
    BY <1>2, <2>1 DEF EpollInv, LoopInv
  <2>3. QED
    BY <1>2, <1>3, <1>4, <1>7, <2>1, <2>2, CallInv
<1>8. CASE SkipAlarm
  <2>1. phase = "loop" /\ UNCHANGED <<clock, alarm_map, all_alarms, skipped, deadline, running>>
    BY <1>8 DEF SkipAlarm, AtDueEntry
  <2>2. running = NoAlarm
    BY <1>2, <2>1 DEF EpollInv, LoopInv
  <2>3. QED
    BY <1>2, <1>3, <1>4, <1>8, <2>1, <2>2, SkipInv
<1>9. CASE ReturnAfterAlarms
  <2>1. /\ phase = "loop" /\ skipped' = {}
        /\ UNCHANGED <<clock, alarm_map, all_alarms, deadline, running>>
    BY <1>9 DEF ReturnAfterAlarms
  <2>2. running = NoAlarm
    BY <1>2, <2>1 DEF EpollInv, LoopInv
  <2>3. QED
    BY <1>2, <1>3, <1>4, <1>9, <2>1, <2>2, StopInv
<1>10. CASE RunAlarm
  <2>1. /\ TypeOK' /\ EpollInv'
        /\ running = NoAlarm /\ running' \in Alarms /\ deadline'[running'] = 0
        /\ \A cb \in Alarms : cb # running' => deadline'[cb] = deadline[cb]
    BY <1>2, <1>10, RunInv
  <2>2. /\ UNCHANGED <<clock, alarm_map, skipped>> /\ all_alarms' \subseteq all_alarms
        /\ cursor \in DOMAIN alarm_map /\ running' = alarm_map[cursor].cb
    BY <1>10 DEF RunAlarm, AtDueEntry
  <2>3. FreedAlarmsAreForgotten'
    BY <1>1, <1>2, <2>2 DEF FreedAlarmsAreForgotten
  <2>4. SessionTypeOK'
    BY <1>1, <2>1 DEF AlarmsInv, SessionTypeOK
  <2>5. closed_session_list_' = closed_session_list_
    BY <1>1 DEF closed_session_list_
  <2>6. ClosedSessionsAreDeleted'
    <3>1. CASE running' = DeleteAlarm
      BY <1>1, <2>1, <3>1 DEF ClosedSessionsAreDeleted
    <3>2. CASE running' # DeleteAlarm
      <4>1. deadline'[DeleteAlarm] = deadline[DeleteAlarm] /\ running # DeleteAlarm
        BY <2>1, <3>2, AlarmKinds
      <4>2. QED
        BY <1>1, <2>2, <2>5, <4>1 DEF AlarmsInv, ClosedSessionsAreDeleted
    <3>3. QED
      BY <3>1, <3>2
  <2>7. QED
    BY <1>1, <2>1, <2>3, <2>4, <2>6 DEF AlarmsInv
<1>11. ASSUME NEW time \in 0..MaxTime, RecurringAlarmReturns(time)
       PROVE  AlarmsInv'
  <2>1. /\ TypeOK' /\ EpollInv'
        /\ \A j \in DOMAIN alarm_map' :
             alarm_map'[j].cb = running \/ \E i \in DOMAIN alarm_map : alarm_map'[j] = alarm_map[i]
        /\ all_alarms' \subseteq all_alarms \cup {running}
        /\ skipped' \subseteq skipped \cup {running}
        /\ \A cb \in Alarms : cb # running => deadline'[cb] = deadline[cb]
    BY <1>2, <1>11, RecurringReturnInv
  <2>2. running \in RecurringAlarms /\ running' = NoAlarm /\ clock' = clock
    BY <1>11 DEF RecurringAlarmReturns, LeavesOnAlarm
  <2>3. FreedAlarmsAreForgotten'
    <3>1. \A a \in SessionsOfAlarms :
            session'[a] = "none" => session[a] = "none" /\ a \notin {running}
      BY <1>1, <1>2 DEF FreedAlarmsAreForgotten
    <3>2. QED
      BY <1>2, <2>1, <2>2, <3>1, StillForgotten
  <2>4. deadline'[DeleteAlarm] = deadline[DeleteAlarm] /\ running # DeleteAlarm
        /\ running' # DeleteAlarm
    BY <2>1, <2>2, AlarmKinds
  <2>5. QED
    BY <1>1, <1>3, <2>1, <2>2, <2>3, <2>4, RoundStep
<1>12. QED
  BY <1>5, <1>6, <1>7, <1>8, <1>9, <1>10, <1>11 DEF EpollServerRuns

-----------------------------------------------------------------------------
(* The specification *)

LEMMA AlarmsInit ==
  ASSUME SessionInit
  PROVE  AlarmsInv
<1> USE DEF SessionInit, Init
<1>1. TypeOK
  <2>1. registered \in [Alarms -> BOOLEAN] /\ with_alarms \in BOOLEAN
    OBVIOUS
  <2>2. clock \in Times /\ recorded_now \in 0..MaxTime /\ deadline \in [Alarms -> 0..MaxTime]
    BY AlarmsAssumption DEF Times
  <2>3. alarm_map \in Seq([time : Times, cb : Alarms])
    OBVIOUS
  <2>4. epoll_timeout \in Nat \cup {-1} /\ phase \in Phases /\ cursor \in Nat
    BY DEF Phases
  <2> HIDE DEF Init, SessionInit
  <2>5. /\ all_alarms = {} /\ skipped = {} /\ due = {} /\ set_in_loop = {} /\ rerun_due = {}
        /\ running = NoAlarm
    BY DEF Init, SessionInit
  <2>6. QED
    BY <2>1, <2>2, <2>3, <2>4, <2>5 DEF TypeOK
<1>2. SessionTypeOK
  BY <1>1 DEF SessionTypeOK
<1>3. LoopInv
  BY <1>1 DEF LoopInv, InLoop, IteratorStaysValid
<1>4. EpollInv
  <2>1. DOMAIN alarm_map = {}
    OBVIOUS
  <2>2. Sorted(alarm_map)
    BY <2>1 DEF Sorted
  <2>3. Ahead(alarm_map, Hole, cursor, due)
    BY DEF Ahead
  <2>4. Agree(alarm_map, Hole, registered, deadline, all_alarms)
    BY <2>1 DEF Agree
  <2>5. QED
    BY <1>3, <2>2, <2>3, <2>4 DEF EpollInv
<1>5. FreedAlarmsAreForgotten
  BY AlarmKinds DEF FreedAlarmsAreForgotten
<1>6. ClosedSessionsAreDeleted
  BY AlarmKinds DEF ClosedSessionsAreDeleted, closed_session_list_
<1>7. QED
  BY <1>2, <1>4, <1>5, <1>6, AlarmKinds DEF AlarmsInv

LEMMA AlarmsNext ==
  ASSUME AlarmsInv, [SessionNext]_allVars
  PROVE  AlarmsInv'
<1>1. CASE SessionNext
  <2>1. ASSUME NEW cb \in SessionsOfAlarms, CreateQuicSession(cb) PROVE AlarmsInv'
    BY <2>1, CreateStep
  <2>2. ASSUME NEW cb \in SessionsOfAlarms, OnConnectionClosed(cb) PROVE AlarmsInv'
    BY <2>2, CloseStep
  <2>3. ASSUME NEW cb \in SessionsOfAlarms, DeleteSession(cb) PROVE AlarmsInv'
    BY <2>3, DeleteStep
  <2>4. ASSUME NEW cb \in SessionsOfAlarms, DestroySession(cb) PROVE AlarmsInv'
    BY <2>4, DestroyStep
  <2>5. ASSUME NEW cb \in Alarms, NEW time \in Times, SetAlarm(cb, time) PROVE AlarmsInv'
    BY <2>5, SetStep
  <2>6. ASSUME NEW cb \in Alarms, CancelAlarm(cb) PROVE AlarmsInv'
    BY <2>6, CancelStep
  <2>7. ASSUME NEW time \in 0..MaxTime, OnAlarmReturns(time) PROVE AlarmsInv'
    BY <2>7, OnAlarmStep
  <2>8. CASE EpollServerRuns
    BY <2>8, EpollServerStep
  <2>9. CASE CleanupTimeToAlarmCBMap
    BY <2>9, CleanupStep
  <2>10. QED
    BY <1>1, <2>1, <2>2, <2>3, <2>4, <2>5, <2>6, <2>7, <2>8, <2>9 DEF SessionNext
<1>2. CASE UNCHANGED allVars
  <2>1. UNCHANGED vars /\ session' = session /\ server' = server
    BY <1>2 DEF allVars, sessionVars
  <2>2. UNCHANGED <<clock, recorded_now, phase, with_alarms, epoll_timeout, alarm_map,
                    all_alarms, skipped, registered, deadline, cursor, running, due,
                    set_in_loop, rerun_due>>
    BY <2>1 DEF vars, roundVars
  <2>3. TypeOK' = TypeOK
    BY <2>2 DEF TypeOK
  <2>4. EpollInv' = EpollInv
    BY <2>2 DEF EpollInv, LoopInv, Sorted, Ahead, Agree, Hole, InLoop, IteratorStaysValid
  <2>5. GoneInv' = GoneInv
    BY <2>2 DEF GoneInv
  <2>6. FreedAlarmsAreForgotten' = FreedAlarmsAreForgotten
    BY <2>1, <2>2 DEF FreedAlarmsAreForgotten
  <2>7. ClosedSessionsAreDeleted' = ClosedSessionsAreDeleted
    BY <2>1, <2>2 DEF ClosedSessionsAreDeleted, closed_session_list_
  <2>8. QED
    BY <2>1, <2>2, <2>3, <2>4, <2>5, <2>6, <2>7 DEF AlarmsInv, SessionTypeOK
<1>3. QED
  BY <1>1, <1>2

\* The inductive invariant: AlarmsInv.
THEOREM AlarmsInvariant == SessionSpec => []AlarmsInv
<1>1. SessionInit => AlarmsInv
  BY AlarmsInit
<1>2. AlarmsInv /\ [SessionNext]_allVars => AlarmsInv'
  BY AlarmsNext
<1>3. QED
  BY <1>1, <1>2, PTL DEF SessionSpec

\* Every variable of the alarms and of their owners has its type.
THEOREM AlarmsTypeCorrect == SessionSpec => []SessionTypeOK
<1>1. AlarmsInv => SessionTypeOK
  BY DEF AlarmsInv
<1>2. QED
  BY <1>1, AlarmsInvariant, PTL

\* The four records of an alarm agree, and after ~EpollServer no alarm believes
\* that it is registered: QuicEpollAlarm's destructor never turns to a server
\* that is gone.
THEOREM AlarmsRecordsOutliveServer == SessionSpec => []RecordsOutliveServer
<1>1. AlarmsInv => RecordsOutliveServer
  <2>1. SUFFICES ASSUME AlarmsInv PROVE RecordsOutliveServer
    OBVIOUS
  <2>2. CASE server = "running"
    BY <2>1, <2>2, AgreeView, TypeFacts DEF AlarmsInv, SessionTypeOK, EpollInv,
                                           RecordsOutliveServer
  <2>3. CASE server # "running"
    BY <2>1, <2>3 DEF AlarmsInv, SessionTypeOK, GoneInv, RecordsOutliveServer
  <2>4. QED
    BY <2>2, <2>3
<1>2. QED
  BY <1>1, AlarmsInvariant, PTL

\* The iterator of CallAndReregisterAlarmEvents is at the entry that was run when
\* OnAlarm returns, whatever OnAlarm set, cancelled and destroyed.
THEOREM AlarmsIteratorStaysValid == SessionSpec => []IteratorStaysValid
<1>1. AlarmsInv => IteratorStaysValid
  BY DEF AlarmsInv, SessionTypeOK, EpollInv, LoopInv, GoneInv, IteratorStaysValid
<1>2. QED
  BY <1>1, AlarmsInvariant, PTL

\* The loop runs every alarm that was due when it began.
THEOREM AlarmsDueAreRun == SessionSpec => []DueAlarmsAreRun
<1>1. AlarmsInv => DueAlarmsAreRun
  BY DEF AlarmsInv, SessionTypeOK, EpollInv, LoopInv, GoneInv, InLoop, DueAlarmsAreRun
<1>2. QED
  BY <1>1, AlarmsInvariant, PTL

\* When a session's memory is free nothing points to its alarm.
THEOREM AlarmsFreedAreForgotten == SessionSpec => []FreedAlarmsAreForgotten
<1>1. AlarmsInv => FreedAlarmsAreForgotten
  BY DEF AlarmsInv
<1>2. QED
  BY <1>1, AlarmsInvariant, PTL

\* While there are closed sessions the alarm that deletes them is set or running.
THEOREM AlarmsClosedAreDeleted == SessionSpec => []ClosedSessionsAreDeleted
<1>1. AlarmsInv => ClosedSessionsAreDeleted
  BY DEF AlarmsInv
<1>2. QED
  BY <1>1, AlarmsInvariant, PTL

-----------------------------------------------------------------------------
(* What a step never does *)

\* Which steps begin or end a callback, and which one begins a round.
LEMMA OtherSteps ==
  ASSUME AlarmsInv, SessionNext,
         running' # running \/ (phase = "outside" /\ phase' = "events")
  PROVE  \/ RunAlarm
         \/ LeavesOnAlarm
         \/ WaitForEvents
<1>1. ASSUME NEW cb \in SessionsOfAlarms, CreateQuicSession(cb)
      PROVE  running' = running /\ phase' = phase
  BY <1>1 DEF CreateQuicSession, vars, roundVars
<1>2. ASSUME NEW cb \in SessionsOfAlarms, OnConnectionClosed(cb)
      PROVE  running' = running /\ phase' = phase
  BY <1>2 DEF OnConnectionClosed, roundVars
<1>3. ASSUME NEW cb \in SessionsOfAlarms, DeleteSession(cb)
      PROVE  running' = running /\ phase' = phase
  BY <1>3 DEF DeleteSession, roundVars
<1>4. ASSUME NEW cb \in SessionsOfAlarms, DestroySession(cb)
      PROVE  running' = running /\ phase' = phase
  BY <1>4 DEF DestroySession, roundVars
<1>5. ASSUME NEW cb \in Alarms, NEW time \in Times, SetAlarm(cb, time)
      PROVE  running' = running /\ phase' = phase
  BY <1>5 DEF SetAlarm, Set, roundVars
<1>6. ASSUME NEW cb \in Alarms, CancelAlarm(cb)
      PROVE  running' = running /\ phase' = phase
  BY <1>6 DEF CancelAlarm, Cancel, roundVars
<1>7. ASSUME NEW time \in 0..MaxTime, OnAlarmReturns(time)
      PROVE  LeavesOnAlarm
  BY <1>7 DEF OnAlarmReturns, QuicAlarmReturns
<1>8. ASSUME NEW time \in 0..MaxTime, RecurringAlarmReturns(time)
      PROVE  LeavesOnAlarm
  BY <1>8 DEF RecurringAlarmReturns
<1>9. ReturnWithoutAlarms \/ CallAlarms \/ ReturnAfterAlarms
        => running' = running /\ ~ (phase = "outside" /\ phase' = "events")
  BY DEF ReturnWithoutAlarms, CallAlarms, ReturnAfterAlarms
<1>10. SkipAlarm => running' = running /\ phase' = phase
  BY DEF SkipAlarm, roundVars
<1>11. CleanupTimeToAlarmCBMap => running' = running /\ phase' = phase
  BY DEF CleanupTimeToAlarmCBMap, roundVars
<1>12. EpollServerRuns => RunAlarm \/ LeavesOnAlarm \/ WaitForEvents
  BY <1>8, <1>9, <1>10 DEF EpollServerRuns
<1>13. QED
  BY <1>1, <1>2, <1>3, <1>4, <1>5, <1>6, <1>7, <1>11, <1>12 DEF SessionNext

\* An alarm whose OnAlarm returned a time that had come is not called again in
\* the same loop, whoever sets and cancels it meanwhile.
THEOREM AlarmsRecurringRunOncePerLoop == SessionSpec => RecurringRunOncePerLoop
<1>1. ASSUME AlarmsInv, [SessionNext]_allVars
      PROVE  [running' # running => running' \notin rerun_due]_vars
  <2>1. SUFFICES ASSUME running' # running PROVE running' \notin rerun_due
    OBVIOUS
  <2>2. SessionNext
    BY <1>1, <2>1 DEF allVars, vars
  <2>3. rerun_due \subseteq Alarms
    BY <1>1 DEF AlarmsInv, SessionTypeOK, TypeOK
  <2>4. CASE RunAlarm
    <3>1. server = "running"
      BY <1>1, <2>4 DEF AlarmsInv, SessionTypeOK, GoneInv, RunAlarm, AtDueEntry
    <3>2. rerun_due \subseteq skipped
      BY <1>1, <3>1 DEF AlarmsInv, EpollInv, LoopInv
    <3>3. running' \notin skipped
      BY <2>4 DEF RunAlarm
    <3>4. QED
      BY <3>2, <3>3
  <2>5. CASE LeavesOnAlarm
    BY <2>3, <2>5, AlarmKinds DEF LeavesOnAlarm
  <2>6. CASE WaitForEvents
    BY <2>1, <2>6 DEF WaitForEvents
  <2>7. QED
    BY <1>1, <2>1, <2>2, <2>4, <2>5, <2>6, OtherSteps
<1>2. QED
  BY <1>1, AlarmsInvariant, PTL DEF SessionSpec, RecurringRunOncePerLoop

\* A round sleeps to the first alarm, to the millisecond above at most, and not
\* at all only when that alarm is due.
THEOREM AlarmsSleepUntilFirst == SessionSpec => SleepsUntilFirstAlarm
<1> DEFINE Sleeps ==
      phase = "outside" /\ phase' = "events" /\ alarm_map # << >> =>
        LET first == alarm_map[1].time IN
          IF first <= clock
          THEN epoll_timeout' = 0
          ELSE /\ epoll_timeout' > 0 \/ timeout_in_us = 0
               /\ clock + epoll_timeout' * UsPerMs < first + UsPerMs
<1>1. ASSUME AlarmsInv, [SessionNext]_allVars
      PROVE  [Sleeps]_vars
  <2>1. SUFFICES ASSUME phase = "outside", phase' = "events", alarm_map # << >>
                 PROVE  IF alarm_map[1].time <= clock
                        THEN epoll_timeout' = 0
                        ELSE /\ epoll_timeout' > 0 \/ timeout_in_us = 0
                             /\ clock + epoll_timeout' * UsPerMs < alarm_map[1].time + UsPerMs
    OBVIOUS
  <2>2. SessionNext
    BY <1>1, <2>1 DEF allVars, vars, roundVars
  <2>3. WaitForEvents
    BY <1>1, <2>1, <2>2, OtherSteps DEF RunAlarm, AtDueEntry, LeavesOnAlarm
  <2>4. epoll_timeout' = EpollTimeout(WaitTime)
    BY <2>3 DEF WaitForEvents
  <2>5. /\ clock \in Nat /\ alarm_map[1].time \in Nat
        /\ timeout_in_us \in Int /\ UsPerMs \in Nat /\ UsPerMs > 0
    <3>1. alarm_map \in Seq(AlarmEntry) /\ clock \in Nat
      BY <1>1, TypeFacts DEF AlarmsInv, SessionTypeOK
    <3>2. 1 \in DOMAIN alarm_map
      BY <2>1, <3>1
    <3>3. QED
      BY <3>1, <3>2, EntryTypes, AlarmsAssumption
  <2> DEFINE wait == WaitTime
             sleep == EpollTimeout(wait)
             until == alarm_map[1].time - clock
  <2>6. wait \in Int
    BY <1>1, WaitTimeType DEF AlarmsInv, SessionTypeOK
  <2>7. IF until < timeout_in_us \/ timeout_in_us < 0
        THEN wait = IF until > 0 THEN until ELSE 0
        ELSE wait = timeout_in_us
    BY <2>1 DEF WaitTime
  <2> HIDE DEF wait
  <2>8. /\ sleep \in Nat \cup {-1}
        /\ wait = 0 => sleep = 0
        /\ wait > 0 => sleep > 0 /\ sleep * UsPerMs < wait + UsPerMs
    BY <2>6, EpollTimeoutOf
  <2> HIDE DEF sleep
  <2>9. CASE alarm_map[1].time <= clock
    <3>1. until <= 0
      BY <2>5, <2>9
    <3>2. wait = 0
      BY <2>5, <2>7, <3>1
    <3>3. QED
      BY <2>4, <2>8, <2>9, <3>2 DEF sleep, wait
  <2>10. CASE ~ (alarm_map[1].time <= clock)
    <3>1. until > 0 /\ until \in Int /\ clock + until = alarm_map[1].time
      BY <2>5, <2>10
    <3>2. wait >= 0 /\ wait <= until /\ (wait > 0 \/ timeout_in_us = 0)
      BY <2>5, <2>7, <3>1
    <3>3. sleep * UsPerMs \in Int
      BY <2>5, <2>8
    <3>4. sleep * UsPerMs < until + UsPerMs
      <4>1. CASE wait = 0
        <5>1. sleep = 0
          BY <2>8, <4>1
        <5>2. sleep * UsPerMs = 0
          BY <2>5, <5>1
        <5>3. QED
          BY <2>5, <3>1, <5>2
      <4>2. CASE wait > 0
        BY <2>5, <2>6, <2>8, <3>1, <3>2, <3>3, <4>2
      <4>3. QED
        BY <2>6, <3>2, <4>1, <4>2
    <3>5. clock + sleep * UsPerMs < alarm_map[1].time + UsPerMs
      BY <2>5, <3>1, <3>3, <3>4
    <3>6. sleep > 0 \/ timeout_in_us = 0
      BY <2>8, <3>2
    <3>7. epoll_timeout' = sleep
      BY <2>4 DEF sleep, wait
    <3>8. QED
      BY <2>10, <3>5, <3>6, <3>7
  <2>11. QED
    BY <2>9, <2>10
<1>2. QED
  BY <1>1, AlarmsInvariant, PTL DEF SessionSpec, SleepsUntilFirstAlarm

-----------------------------------------------------------------------------
(* The refinement of AlarmService *)

\* A round has one time, recorded when its wait ends and forgotten when it
\* returns.
RoundClock == recorded_now = IF phase = "outside" THEN 0 ELSE clock

\* So what a round, an event and an alarm take for the time is the same.
LEMMA NowIsClock ==
  ASSUME TypeOK, RoundClock
  PROVE  ApproximateNow = clock /\ clock \in Nat \ {0}
<1>1. clock \in Nat \ {0}
  BY TimesFacts DEF TypeOK
<1>2. QED
  BY <1>1 DEF RoundClock, ApproximateNow

LEMMA RoundClockNext ==
  ASSUME AlarmsInv, RoundClock, [SessionNext]_allVars
  PROVE  RoundClock'
<1>1. ASSUME UNCHANGED <<clock, recorded_now, phase>>
      PROVE  RoundClock'
  BY <1>1 DEF RoundClock
<1>2. ASSUME NEW cb \in SessionsOfAlarms, CreateQuicSession(cb)
      PROVE  RoundClock'
  BY <1>1, <1>2 DEF CreateQuicSession, vars, roundVars
<1>3. ASSUME NEW cb \in SessionsOfAlarms, OnConnectionClosed(cb)
      PROVE  RoundClock'
  BY <1>1, <1>3 DEF OnConnectionClosed, roundVars
<1>4. ASSUME NEW cb \in SessionsOfAlarms, DeleteSession(cb)
      PROVE  RoundClock'
  BY <1>1, <1>4 DEF DeleteSession, roundVars
<1>5. ASSUME NEW cb \in SessionsOfAlarms, DestroySession(cb)
      PROVE  RoundClock'
  BY <1>1, <1>5 DEF DestroySession, roundVars
<1>6. ASSUME NEW cb \in Alarms, NEW time \in Times, SetAlarm(cb, time)
      PROVE  RoundClock'
  BY <1>1, <1>6 DEF SetAlarm, Set, roundVars
<1>7. ASSUME NEW cb \in Alarms, CancelAlarm(cb)
      PROVE  RoundClock'
  BY <1>1, <1>7 DEF CancelAlarm, Cancel, roundVars
<1>8. LeavesOnAlarm => RoundClock'
  BY DEF LeavesOnAlarm, RoundClock
<1>9. ASSUME NEW time \in 0..MaxTime, OnAlarmReturns(time) \/ RecurringAlarmReturns(time)
      PROVE  RoundClock'
  BY <1>8, <1>9 DEF OnAlarmReturns, QuicAlarmReturns, RecurringAlarmReturns
<1>10. WaitForEvents => RoundClock'
  BY DEF WaitForEvents, RoundClock
<1>11. ReturnWithoutAlarms \/ ReturnAfterAlarms => RoundClock'
  BY DEF ReturnWithoutAlarms, ReturnAfterAlarms, RoundClock
<1>12. CallAlarms \/ RunAlarm => RoundClock'
  BY DEF CallAlarms, RunAlarm, AtDueEntry, RoundClock
<1>13. SkipAlarm => RoundClock'
  BY <1>1 DEF SkipAlarm, roundVars
<1>14. EpollServerRuns => RoundClock'
  BY <1>9, <1>10, <1>11, <1>12, <1>13 DEF EpollServerRuns
<1>15. CleanupTimeToAlarmCBMap => RoundClock'
  BY <1>1 DEF CleanupTimeToAlarmCBMap, roundVars
<1>16. UNCHANGED allVars => RoundClock'
  BY <1>1 DEF allVars, vars, roundVars
<1>17. QED
  BY <1>2, <1>3, <1>4, <1>5, <1>6, <1>7, <1>9, <1>14, <1>15, <1>16 DEF SessionNext

\* The invariant, as the steps below use it.
LEMMA ServiceFacts ==
  ASSUME AlarmsInv
  PROVE  /\ deadline \in [Alarms -> Nat] /\ due \subseteq Alarms
         /\ ClientRuns => running # NoAlarm \/ due = {}
         /\ phase \in {"outside", "events"} => running = NoAlarm /\ due = {}
         /\ phase = "loop" => running = NoAlarm
         /\ phase = "on_alarm" => running # NoAlarm
         /\ \A cb \in due : deadline[cb] # 0
<1>1. deadline \in [Alarms -> Nat] /\ due \subseteq Alarms /\ phase \in Phases
  BY TypeFacts DEF AlarmsInv, SessionTypeOK, TypeOK
<1>2. CASE server = "running"
  <2>1. EpollInv
    BY <1>2 DEF AlarmsInv
  <2>2. ASSUME NEW cb \in due PROVE deadline[cb] # 0
    <3>1. PICK p \in DOMAIN alarm_map \ {Hole} : alarm_map[p].cb = cb
      BY <2>1 DEF EpollInv, Ahead
    <3>2. registered[cb] /\ cb \in Alarms
      BY <1>1, <2>1, <3>1 DEF EpollInv, Agree
    <3>3. QED
      BY <2>1, <3>2 DEF EpollInv, Agree
  <2>3. QED
    BY <1>1, <2>1, <2>2 DEF EpollInv, LoopInv, InLoop, Phases, ClientRuns
<1>3. CASE server # "running"
  BY <1>1, <1>3 DEF AlarmsInv, SessionTypeOK, GoneInv
<1>4. QED
  BY <1>2, <1>3

\* A client's call that leaves the alarm cb with another deadline.
LEMMA ClientStep ==
  ASSUME AlarmsInv, RoundClock, RoundClock', TypeOK', ClientRuns, NEW cb \in Alarms,
         NEW time \in Nat, deadline' = [deadline EXCEPT ![cb] = time],
         due' = due \ {cb}, UNCHANGED <<clock, running>>
  PROVE  Service!SetOrCancel(cb)
<1>1. ApproximateNow' = ApproximateNow
  <2>1. ApproximateNow = clock
    BY NowIsClock DEF AlarmsInv, SessionTypeOK
  <2>2. ApproximateNow' = clock'
    <3>1. clock' \in Nat \ {0}
      BY NowIsClock DEF AlarmsInv, SessionTypeOK
    <3>2. QED
      BY <3>1 DEF RoundClock, ApproximateNow
  <2>3. QED
    BY <2>1, <2>2
<1>2. running # NoAlarm \/ due = {}
  BY ServiceFacts
<1>3. deadline'[cb] = time
  BY ServiceFacts
<1>4. QED
  BY <1>1, <1>2, <1>3 DEF Service!SetOrCancel, Service!OnlyDeadlineOf

\* A return of OnAlarm that leaves the alarm as it set itself, or with the time
\* that it returned.
LEMMA ReturnStep ==
  ASSUME AlarmsInv, RoundClock, RoundClock', TypeOK', LeavesOnAlarm, running \in Alarms,
         \/ deadline' = deadline
         \/ /\ deadline[running] = 0
            /\ \E time \in Nat : deadline' = [deadline EXCEPT ![running] = time]
  PROVE  Service!Return
<1>1. ApproximateNow' = ApproximateNow
  <2>1. ApproximateNow = clock /\ clock \in Nat \ {0}
    BY NowIsClock DEF AlarmsInv, SessionTypeOK
  <2>2. clock' = clock /\ recorded_now' = recorded_now /\ phase' # "outside" /\ phase # "outside"
    BY DEF LeavesOnAlarm
  <2>3. QED
    BY <2>1, <2>2 DEF ApproximateNow
<1>2. running # NoAlarm /\ running' = NoAlarm /\ due' = due
  BY ServiceFacts DEF LeavesOnAlarm
<1>3. CASE deadline' = deadline
  <2>1. /\ deadline'[running] \in Nat
        /\ deadline' = [deadline EXCEPT ![running] = deadline'[running]]
    BY <1>3, ServiceFacts
  <2>2. QED
    BY <1>1, <1>2, <1>3, <2>1 DEF Service!Return, Service!OnlyDeadlineOf
<1>4. CASE /\ deadline[running] = 0
           /\ \E time \in Nat : deadline' = [deadline EXCEPT ![running] = time]
  <2>1. PICK time \in Nat : deadline' = [deadline EXCEPT ![running] = time]
    BY <1>4
  <2>2. deadline'[running] = time
    BY <2>1, ServiceFacts
  <2>3. QED
    BY <1>1, <1>2, <1>4, <2>1, <2>2 DEF Service!Return, Service!OnlyDeadlineOf
<1>5. QED
  BY <1>3, <1>4

\* A step that touches no deadline, starts and ends no alarm and finds none due.
LEMMA SilentStep ==
  ASSUME AlarmsInv, TypeOK', RoundClock, RoundClock',
         UNCHANGED <<clock, deadline, running, due>>
  PROVE  UNCHANGED Service!serviceVars
<1>1. ApproximateNow = clock
  BY NowIsClock DEF AlarmsInv, SessionTypeOK
<1>2. clock' \in Nat \ {0}
  BY NowIsClock DEF AlarmsInv, SessionTypeOK
<1>3. ApproximateNow' = clock'
  BY <1>2 DEF RoundClock, ApproximateNow
<1>4. QED
  BY <1>1, <1>3 DEF Service!serviceVars

\* The rounds of the epoll server.
LEMMA RoundServes ==
  ASSUME AlarmsInv, RoundClock, RoundClock', TypeOK', EpollServerRuns
  PROVE  [Service!Next]_(Service!serviceVars)
<1>1. /\ TypeOK /\ EpollInv
      /\ deadline \in [Alarms -> Nat] /\ due \subseteq Alarms
      /\ ApproximateNow = clock /\ clock \in Nat \ {0}
  BY NowIsClock, ServiceFacts DEF EpollServerRuns, AlarmsInv, SessionTypeOK
<1>2. clock' \in Nat \ {0} /\ (clock' \in Nat \ {0} => ApproximateNow' = clock')
  <2>1. clock' \in Nat \ {0}
    BY TimesFacts DEF TypeOK
  <2>2. QED
    BY <2>1 DEF RoundClock, ApproximateNow
<1>3. CASE WaitForEvents
  <2>1. /\ phase = "outside" /\ clock' >= clock
        /\ UNCHANGED <<deadline, running, due>>
    BY <1>1, <1>3, AlarmsAssumption DEF WaitForEvents
  <2>2. running = NoAlarm /\ due = {}
    BY <2>1, ServiceFacts
  <2>3. CASE clock' = clock
    BY <2>1, <2>3, SilentStep
  <2>4. CASE clock' # clock
    <3>1. clock' > clock /\ clock' \in Nat
      BY <1>1, <1>2, <2>1, <2>4
    <3>2. Service!TimePasses
      BY <1>1, <1>2, <2>1, <2>2, <3>1 DEF Service!TimePasses
    <3>3. QED
      BY <3>2 DEF Service!Next
  <2>5. QED
    BY <2>3, <2>4
<1>4. CASE CallAlarms
  <2>1. /\ phase = "events" /\ recorded_now = clock
        /\ due' = {cb \in Alarms : deadline[cb] # 0 /\ deadline[cb] <= recorded_now}
        /\ UNCHANGED <<clock, deadline, running>>
    BY <1>4 DEF CallAlarms, RoundClock
  <2>2. running = NoAlarm /\ due = {}
    BY <2>1, ServiceFacts
  <2>3. due' = {cb \in Alarms : deadline[cb] \in 1..ApproximateNow}
    BY <1>1, <2>1
  <2>4. Service!FindDue
    BY <1>1, <1>2, <2>1, <2>2, <2>3 DEF Service!FindDue
  <2>5. QED
    BY <2>4 DEF Service!Next
<1>5. CASE RunAlarm
  <2> DEFINE cb == alarm_map[cursor].cb
  <2>1. /\ phase = "loop" /\ cursor \in DOMAIN alarm_map
        /\ alarm_map[cursor].time <= recorded_now
        /\ running' = cb
        /\ deadline' = [deadline EXCEPT ![cb] = 0]
        /\ due' = due \ {cb}
        /\ clock' = clock
    BY <1>5 DEF RunAlarm, AtDueEntry
  <2>2. running = NoAlarm /\ recorded_now = clock
    BY <2>1, ServiceFacts DEF RoundClock
  <2>3. cursor \in DOMAIN alarm_map \ {Hole}
    BY <1>1, <2>1, TypeFacts, EntryTypes DEF Hole
  <2>4. cb \in Alarms /\ alarm_map[cursor].time \in Nat /\ alarm_map[cursor].time >= 1
    BY <1>1, <2>1, TypeFacts, EntryTypes
  <2>5. deadline[cb] = alarm_map[cursor].time
    BY <1>1, <2>3 DEF EpollInv, Agree
  <2>6. deadline[cb] \in 1..ApproximateNow
    BY <1>1, <2>1, <2>2, <2>4, <2>5
  <2> HIDE DEF cb
  <2>7. Service!Fire(cb)
    BY <1>1, <1>2, <2>1, <2>2, <2>6 DEF Service!Fire
  <2>8. QED
    BY <2>4, <2>7 DEF Service!Next
<1>6. ASSUME NEW time \in 0..MaxTime, RecurringAlarmReturns(time)
      PROVE  Service!Return
  <2>1. running \in RecurringAlarms /\ LeavesOnAlarm /\ running \in Alarms
    BY <1>6 DEF RecurringAlarmReturns, Alarms
  <2>2. CASE IsNewTimeout(time)
    <3>1. /\ running \notin all_alarms
          /\ deadline' = [deadline EXCEPT ![running] = time]
      BY <1>6, <2>2 DEF RecurringAlarmReturns, RegisterAlarm
    <3>2. deadline[running] = 0
      BY <1>1, <2>1, <3>1 DEF EpollInv, Agree
    <3>3. time \in Nat
      BY AlarmsAssumption
    <3>4. QED
      BY <2>1, <3>1, <3>2, <3>3, ReturnStep
  <2>3. CASE ~ IsNewTimeout(time)
    <3>1. deadline' = deadline
      BY <1>6, <2>3 DEF RecurringAlarmReturns
    <3>2. QED
      BY <2>1, <3>1, ReturnStep
  <2>4. QED
    BY <2>2, <2>3
<1>7. CASE ReturnWithoutAlarms \/ SkipAlarm \/ ReturnAfterAlarms
  <2>1. UNCHANGED <<clock, deadline, running, due>>
    BY <1>7 DEF ReturnWithoutAlarms, SkipAlarm, ReturnAfterAlarms
  <2>2. QED
    BY <2>1, SilentStep
<1>8. QED
  BY <1>3, <1>4, <1>5, <1>6, <1>7 DEF EpollServerRuns, Service!Next

\* Every step of the sessions and the rounds is one of the service or none.
LEMMA AlarmsServe ==
  ASSUME AlarmsInv, RoundClock, [SessionNext]_allVars
  PROVE  [Service!Next]_(Service!serviceVars)
<1>1. RoundClock' /\ TypeOK'
  BY AlarmsNext, RoundClockNext DEF AlarmsInv, SessionTypeOK
<1>2. deadline \in [Alarms -> Nat] /\ \A cb \in due : deadline[cb] # 0
  BY ServiceFacts
<1>3. ASSUME NEW cb \in Alarms, Service!SetOrCancel(cb)
      PROVE  Service!Next
  BY <1>3 DEF Service!Next
<1>4. SessionsOfAlarms \subseteq Alarms /\ DeleteAlarm \in Alarms /\ 0 \in Nat
  BY SessionAlarmsAssumption DEF SessionsOfAlarms, Alarms
<1>5. ASSUME NEW cb \in SessionsOfAlarms, CreateQuicSession(cb)
      PROVE  UNCHANGED Service!serviceVars
  BY <1>1, <1>5, SilentStep DEF CreateQuicSession, vars
<1>6. ASSUME NEW cb \in SessionsOfAlarms, OnConnectionClosed(cb)
      PROVE  [Service!Next]_(Service!serviceVars)
  <2>1. ClientRuns /\ UNCHANGED <<clock, running>>
    BY <1>6 DEF OnConnectionClosed, SessionsRun
  <2>2. CASE SetDeleteAlarm
    <3>1. /\ deadline' = [deadline EXCEPT ![DeleteAlarm] = ApproximateNow]
          /\ due' = due \ {DeleteAlarm}
      BY <2>2 DEF SetDeleteAlarm
    <3>2. ApproximateNow \in Nat
      BY NowIsClock DEF AlarmsInv, SessionTypeOK
    <3>3. Service!SetOrCancel(DeleteAlarm)
      BY <1>1, <1>4, <2>1, <3>1, <3>2, ClientStep
    <3>4. QED
      BY <1>3, <1>4, <3>3
  <2>3. CASE KeepAlarms
    BY <1>1, <2>1, <2>3, SilentStep DEF KeepAlarms
  <2>4. QED
    BY <1>6, <2>2, <2>3 DEF OnConnectionClosed
<1>7. ASSUME NEW cb \in SessionsOfAlarms, DeleteSession(cb) \/ DestroySession(cb)
      PROVE  Service!Next
  <2>1. /\ deadline' = [deadline EXCEPT ![cb] = 0] /\ due' = due \ {cb}
        /\ UNCHANGED <<clock, running>>
    BY <1>7 DEF DeleteSession, DestroySession, DestroyAlarm
  <2>2. ClientRuns
    <3>1. CASE DeleteSession(cb)
      BY <3>1, ServiceFacts, SessionAlarmsAssumption, AlarmsAssumption
      DEF DeleteSession, ClientRuns
    <3>2. CASE DestroySession(cb)
      BY <3>2 DEF DestroySession, AlarmsInv, GoneInv, ClientRuns
    <3>3. QED
      BY <1>7, <3>1, <3>2
  <2>3. Service!SetOrCancel(cb)
    BY <1>1, <1>4, <2>1, <2>2, ClientStep
  <2>4. QED
    BY <1>3, <1>4, <2>3
<1>8. ASSUME NEW cb \in Alarms, NEW time \in Times, SetAlarm(cb, time)
      PROVE  Service!Next
  <2>1. /\ ClientRuns /\ deadline[cb] = 0
        /\ deadline' = [deadline EXCEPT ![cb] = time]
        /\ UNCHANGED <<clock, running, due>>
    BY <1>8 DEF SetAlarm, Set
  <2>2. due' = due \ {cb}
    BY <1>2, <2>1
  <2>3. time \in Nat
    BY TimesFacts
  <2>4. Service!SetOrCancel(cb)
    BY <1>1, <2>1, <2>2, <2>3, ClientStep
  <2>5. QED
    BY <1>3, <2>4
<1>9. ASSUME NEW cb \in Alarms, CancelAlarm(cb)
      PROVE  Service!Next
  <2>1. /\ ClientRuns /\ due' = due \ {cb}
        /\ deadline' = [deadline EXCEPT ![cb] = 0]
        /\ UNCHANGED <<clock, running>>
    BY <1>9 DEF CancelAlarm, Cancel
  <2>2. Service!SetOrCancel(cb)
    BY <1>1, <1>4, <2>1, ClientStep
  <2>3. QED
    BY <1>3, <2>2
<1>10. ASSUME NEW time \in 0..MaxTime, OnAlarmReturns(time)
       PROVE  Service!Next
  <2>1. running \in Alarms /\ LeavesOnAlarm /\ time \in Nat
    BY <1>10, AlarmsAssumption DEF OnAlarmReturns, QuicAlarmReturns, Alarms
  <2>2. \/ deadline' = deadline
        \/ /\ deadline[running] = 0
           /\ deadline' = [deadline EXCEPT ![running] = time]
    BY <1>10 DEF OnAlarmReturns, QuicAlarmReturns
  <2>3. Service!Return
    BY <1>1, <2>1, <2>2, ReturnStep
  <2>4. QED
    BY <2>3 DEF Service!Next
<1>11. CASE EpollServerRuns
  BY <1>1, <1>11, RoundServes
<1>12. CASE CleanupTimeToAlarmCBMap \/ UNCHANGED allVars
  <2>1. UNCHANGED <<clock, deadline, running, due>>
    BY <1>12 DEF CleanupTimeToAlarmCBMap, allVars, vars
  <2>2. QED
    BY <1>1, <2>1, SilentStep
<1>13. QED
  BY <1>5, <1>6, <1>7, <1>8, <1>9, <1>10, <1>11, <1>12 DEF SessionNext

\* The map, its iterator and the sets keep the promise of AlarmService: an alarm
\* fires when its deadline has come and not if it was cancelled, one at a time,
\* and nothing overtakes an alarm that a round found due.
THEOREM AlarmsImplementService == SessionSpec => ImplementsAlarmService
<1>1. SessionInit => RoundClock
  BY DEF SessionInit, Init, RoundClock
<1>2. SessionInit => Service!Init
  BY DEF SessionInit, Init, ApproximateNow, Service!Init
<1>3. AlarmsInv /\ RoundClock /\ [SessionNext]_allVars => RoundClock'
  BY RoundClockNext
<1>4. AlarmsInv /\ RoundClock /\ [SessionNext]_allVars
        => [Service!Next]_(Service!serviceVars)
  BY AlarmsServe
<1>5. QED
  BY <1>1, <1>2, <1>3, <1>4, AlarmsInvariant, PTL
  DEF SessionSpec, ImplementsAlarmService, Service!Spec
=============================================================================

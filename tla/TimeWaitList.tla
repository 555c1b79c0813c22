---------------------------- MODULE TimeWaitList ----------------------------
(***************************************************************************)
(* QuicTimeWaitListManager (net/tools/quic/quic_time_wait_list_manager.cc):*)
(* the connection ids that were closed recently, in the order in which     *)
(* they were added, and the alarm that retires them.                       *)
(*                                                                         *)
(* connection_id_map_ is a linked_hash_map: a sequence of entries here,    *)
(* first the oldest.  Of an entry's data the QUIC version is left out (it  *)
(* only tells the framer how to parse a packet).  The pending packet queue *)
(* and the writer it shares with the connections are in Dispatcher, which  *)
(* EXTENDS this module and uses its operators in its handlers.             *)
(***************************************************************************)
EXTENDS Integers, Sequences, FiniteSets, SequencesExt

CONSTANTS
  ConnectionIds,     \* the connection ids clients may use
  TimeWaitPeriod,    \* FLAGS_quic_time_wait_list_seconds
  MaxConnections,    \* FLAGS_quic_time_wait_list_max_connections, < 0: no limit
  MaxTime,           \* bound: the clock stops there
  MaxPackets         \* bound: packets counted for one entry

\* With a maximum of 0 the loop of TrimTimeWaitListIfNeeded never ends.
ASSUME TimeWaitAssumption ==
  /\ TimeWaitPeriod \in Nat \ {0}
  /\ MaxConnections \in Int \ {0}
  /\ MaxTime \in Nat
  /\ MaxPackets \in Nat

VARIABLES
  now,                           \* clock_->ApproximateNow()
  connection_id_map,
  connection_id_clean_up_alarm   \* its deadline; the alarm is always set

twVars == <<now, connection_id_map, connection_id_clean_up_alarm>>

Entry == [id : ConnectionIds, num_packets : Nat, time_added : Nat,
          close_packet : BOOLEAN]

-----------------------------------------------------------------------------
(* The operations on the list *)

Ids(list) == {list[k].id : k \in DOMAIN list}

\* The whole of IsConnectionIdInTimeWait.
IsConnectionIdInTimeWait(id) == id \in Ids(connection_id_map)

\* connection_id_map_.find(id), for an id on the list.
Find(list, id) == CHOOSE k \in DOMAIN list : list[k].id = id

\* TrimTimeWaitListIfNeeded: retire the oldest until there is room for one.
TrimTimeWaitListIfNeeded(list) ==
  IF MaxConnections > 0 /\ Len(list) >= MaxConnections
  THEN SubSeq(list, Len(list) - MaxConnections + 2, Len(list))
  ELSE list

\* The record of a reinserted id is replaced; only its packet count is kept.
EraseReinserted(list, id) ==
  IF id \in Ids(list) THEN RemoveAt(list, Find(list, id)) ELSE list

PacketsCounted(list, id) ==
  IF id \in Ids(list) THEN list[Find(list, id)].num_packets ELSE 0

\* Mutants: trims before it erases the old record; forgets the packet count.
Added_TrimsFirst(list, id, close_packet) ==
  Append(EraseReinserted(TrimTimeWaitListIfNeeded(list), id),
         [id |-> id, num_packets |-> PacketsCounted(list, id),
          time_added |-> now, close_packet |-> close_packet])
Added_CountsAnew(list, id, close_packet) ==
  Append(TrimTimeWaitListIfNeeded(EraseReinserted(list, id)),
         [id |-> id, num_packets |-> 0,
          time_added |-> now, close_packet |-> close_packet])

\* The list after AddConnectionIdToTimeWait.
Added(list, id, close_packet) ==
  Append(TrimTimeWaitListIfNeeded(EraseReinserted(list, id)),
         [id |-> id, num_packets |-> PacketsCounted(list, id),
          time_added |-> now, close_packet |-> close_packet])

\* The list after the first lines of ProcessPacket.
Counted(list, id) ==
  [list EXCEPT ![Find(list, id)].num_packets = @ + 1]

\* a & b, one digit after the other.
BitAnd[a \in Nat] ==
  [b \in Nat |->
     IF a = 0 \/ b = 0 THEN 0
     ELSE 2 * BitAnd[a \div 2][b \div 2] + (a % 2) * (b % 2)]

\* Is this packet answered?  received_packet_count & (received_packet_count - 1)
ShouldSendResponse(received_packet_count) ==
  BitAnd[received_packet_count][received_packet_count - 1] = 0

\* Mutant: a full period from now, whoever is on the list.
CleanUpDeadline_FullPeriod(list) == now + TimeWaitPeriod

\* SetConnectionIdCleanUpAlarm, for the list that is left.
CleanUpDeadline(list) ==
  IF list = << >> THEN now + TimeWaitPeriod
  ELSE IF now - list[1].time_added < TimeWaitPeriod
       THEN list[1].time_added + TimeWaitPeriod
       ELSE now   \* "ConnectionId lingered for longer than time_wait_period_"

\* Mutant: a record added exactly one period ago is too recent.
ExpiredUpTo_Strict(list, expiration, k) ==
  /\ \A i \in 1..k : list[i].time_added < expiration
  /\ k < Len(list) => list[k + 1].time_added >= expiration

\* MaybeExpireOldestConnection(expiration) called until it returns false
\* retires the first k entries.
ExpiredUpTo(list, expiration, k) ==
  /\ \A i \in 1..k : list[i].time_added <= expiration
  /\ k < Len(list) => list[k + 1].time_added > expiration

-----------------------------------------------------------------------------
(* The manager on its own: any client of its interface, any delay of the   *)
(* alarm.                                                                  *)

TwInit ==
  /\ now = 0
  /\ connection_id_map = << >>
  /\ connection_id_clean_up_alarm = CleanUpDeadline(<< >>)

AddConnectionIdToTimeWait(id, close_packet) ==
  /\ connection_id_map' = Added(connection_id_map, id, close_packet)
  /\ UNCHANGED <<now, connection_id_clean_up_alarm>>

\* ProcessPacket, called only for an id on the list (its DCHECK).
CountPacket(id) ==
  /\ IsConnectionIdInTimeWait(id)
  /\ PacketsCounted(connection_id_map, id) < MaxPackets
  /\ connection_id_map' = Counted(connection_id_map, id)
  /\ UNCHANGED <<now, connection_id_clean_up_alarm>>

\* The dispatcher rejects a packet without a version for an unknown id: it
\* adds the id and hands over the packet, in one call chain.
AddAndCountPacket(id) ==
  /\ ~ IsConnectionIdInTimeWait(id)
  /\ connection_id_map' = Counted(Added(connection_id_map, id, FALSE), id)
  /\ UNCHANGED <<now, connection_id_clean_up_alarm>>

\* OnAlarm of ConnectionIdCleanUpAlarm; the event loop may be late.
CleanUpOldConnectionIds ==
  /\ connection_id_clean_up_alarm <= now
  /\ \E k \in 0..Len(connection_id_map) :
       /\ ExpiredUpTo(connection_id_map, now - TimeWaitPeriod, k)
       /\ connection_id_map' =
            SubSeq(connection_id_map, k + 1, Len(connection_id_map))
  /\ connection_id_clean_up_alarm' = CleanUpDeadline(connection_id_map')
  /\ UNCHANGED now

Tick ==
  /\ now < MaxTime
  /\ now' = now + 1
  /\ UNCHANGED <<connection_id_map, connection_id_clean_up_alarm>>

TwNext ==
  \/ \E id \in ConnectionIds, close_packet \in BOOLEAN :
       AddConnectionIdToTimeWait(id, close_packet)
  \/ \E id \in ConnectionIds : CountPacket(id)
  \/ \E id \in ConnectionIds : AddAndCountPacket(id)
  \/ CleanUpOldConnectionIds
  \/ Tick

TwSpec == TwInit /\ [][TwNext]_twVars

-----------------------------------------------------------------------------
(* Properties *)

\* The type invariant of the manager's state.
TwTypeOK ==
  /\ now \in Nat
  /\ connection_id_map \in Seq(Entry)
  /\ connection_id_clean_up_alarm \in Nat

\* linked_hash_map with insertion at the end and reinsertion as a new record:
\* an id has one record, and traversal in add order is traversal by age, which
\* MaybeExpireOldestConnection relies on when it looks at begin() alone.
OldestFirst ==
  \A i, j \in DOMAIN connection_id_map :
    i < j => /\ connection_id_map[i].id # connection_id_map[j].id
             /\ connection_id_map[i].time_added <= connection_id_map[j].time_added

\* The DCHECK_LT of AddConnectionIdToTimeWait: trimming keeps the list within
\* the configured maximum, whatever is inserted or reinserted.
WithinMaximum ==
  MaxConnections > 0 => Len(connection_id_map) <= MaxConnections

\* No record outlives its period while the clean-up alarm is still to come:
\* the one alarm, set for the record that was oldest when it was set, covers
\* every record through trimming, reinsertion and late firing.
AlarmCoversEveryRecord ==
  \A k \in DOMAIN connection_id_map :
    connection_id_clean_up_alarm <= connection_id_map[k].time_added + TimeWaitPeriod

\* An id stays for time_wait_period_ (class comment) unless the list is full
\* and it is the oldest: nothing else removes a record, and a reinsertion
\* evicts nobody.
LeavesOnlyWhenDue ==
  [][\A k \in DOMAIN connection_id_map :
       connection_id_map[k].id \notin Ids(connection_id_map') =>
         \/ connection_id_map[k].time_added + TimeWaitPeriod <= now
         \/ /\ k = 1
            /\ Len(connection_id_map) = MaxConnections
            /\ Len(connection_id_map') = MaxConnections]_twVars

\* The alarm re-arms itself from its own OnAlarm: always for a later time, so
\* the alarm loop of the epoll server never runs it twice in a round (and the
\* "lingered" branch of SetConnectionIdCleanUpAlarm is never taken).
AlarmMovesForward ==
  [][connection_id_clean_up_alarm' # connection_id_clean_up_alarm =>
       connection_id_clean_up_alarm' > now]_twVars
=============================================================================

-------------------------- MODULE TimeWaitThrottle --------------------------
(***************************************************************************)
(* QuicTimeWaitListManager with a memory of what each id drew while it was *)
(* on the list, to ask about the answers of a whole stay, reinsertions     *)
(* included, rather than of one packet.  The history constrains no step of *)
(* TimeWaitList.                                                           *)
(***************************************************************************)
EXTENDS TimeWaitList

VARIABLES
  drawn,     \* per id: packets processed since it came to the list
  answered   \* per id: those of them that were answered

throttleVars == <<twVars, drawn, answered>>

\* The history of a step that processes a packet for each id of packets.
Remember(packets) ==
  LET Continued(count, more) ==
        [id \in ConnectionIds |->
           IF id \notin Ids(connection_id_map') THEN 0
           ELSE IF id \in more THEN count[id] + 1 ELSE count[id]] IN
  /\ drawn' = Continued(drawn, packets)
  /\ answered' = Continued(answered, {id \in packets :
       ShouldSendResponse(PacketsCounted(connection_id_map', id))})

ThrottleInit ==
  /\ TwInit
  /\ drawn = [id \in ConnectionIds |-> 0]
  /\ answered = [id \in ConnectionIds |-> 0]

ThrottleNext ==
  \/ \E id \in ConnectionIds, close_packet \in BOOLEAN :
       AddConnectionIdToTimeWait(id, close_packet) /\ Remember({})
  \/ \E id \in ConnectionIds : CountPacket(id) /\ Remember({id})
  \/ \E id \in ConnectionIds : AddAndCountPacket(id) /\ Remember({id})
  \/ CleanUpOldConnectionIds /\ Remember({})
  \/ Tick /\ Remember({})

ThrottleSpec == ThrottleInit /\ [][ThrottleNext]_throttleVars

-----------------------------------------------------------------------------

\* What "a power of 2" means, to hold the bit trick of ShouldSendResponse
\* against.
PowerOfTwo[k \in Nat] == IF k = 0 THEN 1 ELSE 2 * PowerOfTwo[k - 1]

\* "Returns true if the number of packets received is a power of 2 to throttle":
\* of the n packets an id draws while it stays on the list, through all its
\* reinsertions, one more than log2(n) are answered.
AnswersBackOff ==
  \A id \in Ids(connection_id_map) :
    drawn[id] > 0 =>
      /\ answered[id] > 0
      /\ PowerOfTwo[answered[id] - 1] <= drawn[id]
      /\ drawn[id] < PowerOfTwo[answered[id]]
=============================================================================

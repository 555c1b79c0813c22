----------------------------- MODULE PacketPath -----------------------------
(***************************************************************************)
(* The path of one packet through QuicDispatcher                           *)
(* (net/tools/quic/quic_dispatcher.cc): the dispatcher hands it to its     *)
(* QuicFramer, whose calls of QuicFramerVisitor decide, step by step,      *)
(* whether the framer goes on.                                             *)
(*                                                                         *)
(* Dispatcher treats a packet as one step.  Here the steps are the         *)
(* visitor's callbacks, because what they leave behind is shared: there    *)
(* is one framer for all connections, and it parses a packet with the      *)
(* version that was set last.  QuicFramer is libquic's: it calls the       *)
(* visitor for the public header, for a version it does not expect, and    *)
(* for the rest of the header, and each time only if it may go on.         *)
(***************************************************************************)
EXTENDS Integers, FiniteSets

CONSTANTS
  ConnectionIds,
  Versions,       \* supported_versions_
  Front,          \* supported_versions_.front()
  OtherVersions,  \* versions a client may ask for that are not supported
  NoVersion,      \* the id is not in the map
  NoPacket

ASSUME PacketPathAssumption ==
  /\ Front \in Versions
  /\ Versions \cap OtherVersions = {}
  /\ NoVersion \notin Versions \cup OtherVersions

VARIABLES
  session_map,      \* per id the version its connection speaks, or NoVersion
  time_wait,        \* per id the version of its ConnectionIdData, or NoVersion
  framer_version,   \* of framer_
  packet,           \* current_packet_ with its public header, or NoPacket
  stage,            \* what the framer does with it: see Stages
  handlers          \* auxiliary: who has processed the current packet

Stages == {"idle",            \* between two packets
           "public_header",   \* OnUnauthenticatedPublicHeader is called
           "version",         \* it returned true: is the version expected?
           "mismatch",        \* OnProtocolVersionMismatch is called
           "kind",            \* a public reset or a data packet?
           "header",          \* the rest of a data packet's header is parsed
           "unreachable"}     \* DLOG(DFATAL), or a callback of DCHECK(false)

vars == <<session_map, time_wait, framer_version, packet, stage, handlers>>

\* What the public header says.  from_port_zero is the client's address;
\* version is the first of header.versions, present with version_flag.
Packet ==
  {p \in [id : ConnectionIds, from_port_zero : BOOLEAN, reset_flag : BOOLEAN,
          version : Versions \cup OtherVersions \cup {NoVersion}] :
     p.reset_flag => p.version = NoVersion}

ASSUME NoPacketAssumption == NoPacket \notin Packet

HasVersion(p) == p.version # NoVersion   \* header.version_flag

IsLive(id) == session_map[id] # NoVersion
IsConnectionIdInTimeWait(id) == time_wait[id] # NoVersion

-----------------------------------------------------------------------------
(* The time wait list, as far as a packet needs it *)

\* What AddConnectionIdToTimeWait may make of the list: the record is new or
\* replaced, and trimming may retire one other (TimeWaitList says which).
AddedToTimeWait(id, version) ==
  LET added == [time_wait EXCEPT ![id] = version] IN
    {added} \cup {[added EXCEPT ![other] = NoVersion] : other \in ConnectionIds \ {id}}

-----------------------------------------------------------------------------
(* OnUnauthenticatedPublicHeader *)

\* QuicDispatcher::ProcessPacket: current_packet_ is set, and the framer begins.
ProcessPacket(p) ==
  /\ stage = "idle"
  /\ packet' = p
  /\ stage' = "public_header"
  /\ handlers' = {}
  /\ UNCHANGED <<session_map, time_wait, framer_version>>

\* The packet goes no further: the visitor returned false.
Stops ==
  /\ stage' = "idle"
  /\ packet' = NoPacket

AtPublicHeader == stage = "public_header" /\ ~ packet.from_port_zero

PortZero ==
  /\ stage = "public_header"
  /\ packet.from_port_zero
  /\ Stops
  /\ UNCHANGED <<session_map, time_wait, framer_version, handlers>>

GetQuicVersionFromConnectionId(list, id) == list[id]

\* HandlePacketForTimeWait, with the time wait list it finds: a public reset is
\* ignored, for anything else the framer is set to the version of the record.
HandlePacketForTimeWait_KeepsVersion(list) ==
  /\ IF packet.reset_flag
     THEN Stops
     ELSE stage' = "version" /\ UNCHANGED packet
  /\ UNCHANGED framer_version

HandlePacketForTimeWait_ParsesResets(list) ==
  /\ framer_version' = GetQuicVersionFromConnectionId(list, packet.id)
  /\ stage' = "version"
  /\ UNCHANGED packet

HandlePacketForTimeWait(list) ==
  IF packet.reset_flag
  THEN Stops /\ UNCHANGED framer_version
  ELSE /\ framer_version' = GetQuicVersionFromConnectionId(list, packet.id)
       /\ stage' = "version"
       /\ UNCHANGED packet

\* The connection processes the packet (external: QuicConnection).  It stays
\* open, with the version it has or the one the packet asks for, or closes,
\* which puts its id in time wait.
ProcessUdpPacket(version) ==
  \E v \in {version} \cup ({packet.version} \cap Versions) :
    \/ /\ session_map' = [session_map EXCEPT ![packet.id] = v]
       /\ UNCHANGED time_wait
    \/ /\ session_map' = [session_map EXCEPT ![packet.id] = NoVersion]
       /\ time_wait' \in AddedToTimeWait(packet.id, v)

\* Mutant: a packet that closed its connection goes on to time wait.
DispatchToSession_GoesOn ==
  /\ AtPublicHeader
  /\ IsLive(packet.id)
  /\ handlers' = {"session"}
  /\ ProcessUdpPacket(session_map[packet.id])
  /\ IF time_wait'[packet.id] # NoVersion
     THEN HandlePacketForTimeWait(time_wait')
     ELSE Stops /\ UNCHANGED framer_version

DispatchToSession ==
  /\ AtPublicHeader
  /\ IsLive(packet.id)
  /\ handlers' = {"session"}
  /\ ProcessUdpPacket(session_map[packet.id])
  /\ Stops
  /\ UNCHANGED framer_version

DispatchToTimeWait ==
  /\ AtPublicHeader
  /\ ~ IsLive(packet.id)
  /\ IsConnectionIdInTimeWait(packet.id)
  /\ HandlePacketForTimeWait(time_wait)
  /\ UNCHANGED <<session_map, time_wait, handlers>>

UnknownId ==
  /\ AtPublicHeader
  /\ ~ IsLive(packet.id)
  /\ ~ IsConnectionIdInTimeWait(packet.id)

\* "If the packet is a public reset, there is nothing we must do or can do."
IgnoreReset ==
  /\ UnknownId
  /\ packet.reset_flag
  /\ Stops
  /\ UNCHANGED <<session_map, time_wait, framer_version, handlers>>

\* A packet without a version for an id nobody knows: the server may have lost the
\* connection, and answers from the time wait list to "fast-fail" it.
RejectUnknownId ==
  /\ UnknownId
  /\ ~ packet.reset_flag
  /\ ~ HasVersion(packet)
  /\ time_wait' \in AddedToTimeWait(packet.id, Front)
  /\ HandlePacketForTimeWait(time_wait')
  /\ UNCHANGED <<session_map, handlers>>

\* CreateQuicSession always returns a session.  Its connection is given
\* supported_versions_ and starts with the first.
VersionOfNewSession == Front

\* AdditionalValidityChecksThenCreateSession, and the packet for the new session.
CreateSession ==
  /\ UnknownId
  /\ HasVersion(packet)
  /\ handlers' = {"session"}
  /\ ProcessUdpPacket(VersionOfNewSession)
  /\ Stops
  /\ UNCHANGED framer_version

-----------------------------------------------------------------------------
(* The framer goes on *)

\* External: a server's framer compares the version of the packet, if any.
CompareVersion ==
  /\ stage = "version"
  /\ stage' = IF HasVersion(packet) /\ packet.version # framer_version
              THEN "mismatch" ELSE "kind"
  /\ UNCHANGED <<session_map, time_wait, framer_version, packet, handlers>>

\* "Keep processing after protocol mismatch - this will be dealt with by the
\* TimeWaitListManager"; an id that is not there is a DFATAL.
OnProtocolVersionMismatch ==
  /\ stage = "mismatch"
  /\ stage' = IF IsConnectionIdInTimeWait(packet.id) THEN "kind" ELSE "unreachable"
  /\ UNCHANGED <<session_map, time_wait, framer_version, packet, handlers>>

\* External: a public reset has no sequence number, and goes to its callback,
\* OnPublicResetPacket.
CompareKind ==
  /\ stage = "kind"
  /\ stage' = IF packet.reset_flag THEN "unreachable" ELSE "header"
  /\ UNCHANGED <<session_map, time_wait, framer_version, packet, handlers>>

\* OnError: the rest of the header does not parse.
HeaderIsMalformed ==
  /\ stage = "header"
  /\ Stops
  /\ UNCHANGED <<session_map, time_wait, framer_version, handlers>>

\* OnUnauthenticatedHeader gives the packet to the time wait list manager and
\* returns false, so that the framer never gets to the payload.
OnUnauthenticatedHeader ==
  /\ stage = "header"
  /\ handlers' = handlers \cup {"time_wait"}
  /\ Stops
  /\ UNCHANGED <<session_map, time_wait, framer_version>>

-----------------------------------------------------------------------------
(* Between packets *)

\* A connection closes of its own: an alarm, a failed write.
ConnectionCloses(id) ==
  /\ stage = "idle"
  /\ IsLive(id)
  /\ session_map' = [session_map EXCEPT ![id] = NoVersion]
  /\ time_wait' \in AddedToTimeWait(id, session_map[id])
  /\ UNCHANGED <<framer_version, packet, stage, handlers>>

\* CleanUpOldConnectionIds retires a record.
Expires(id) ==
  /\ stage = "idle"
  /\ IsConnectionIdInTimeWait(id)
  /\ time_wait' = [time_wait EXCEPT ![id] = NoVersion]
  /\ UNCHANGED <<session_map, framer_version, packet, stage, handlers>>

-----------------------------------------------------------------------------
\* The constructor: the framer starts with the first supported version.
Init ==
  /\ session_map = [id \in ConnectionIds |-> NoVersion]
  /\ time_wait = [id \in ConnectionIds |-> NoVersion]
  /\ framer_version = Front
  /\ packet = NoPacket
  /\ stage = "idle"
  /\ handlers = {}

OnUnauthenticatedPublicHeader ==
  \/ PortZero
  \/ DispatchToSession
  \/ DispatchToTimeWait
  \/ IgnoreReset
  \/ RejectUnknownId
  \/ CreateSession

Next ==
  \/ \E p \in Packet : ProcessPacket(p)
  \/ OnUnauthenticatedPublicHeader
  \/ CompareVersion
  \/ OnProtocolVersionMismatch
  \/ CompareKind
  \/ HeaderIsMalformed
  \/ OnUnauthenticatedHeader
  \/ \E id \in ConnectionIds : ConnectionCloses(id) \/ Expires(id)

Spec == Init /\ [][Next]_vars

-----------------------------------------------------------------------------
(* Properties *)

\* The type invariant of the packet's path.
TypeOK ==
  /\ session_map \in [ConnectionIds -> Versions \cup {NoVersion}]
  /\ time_wait \in [ConnectionIds -> Versions \cup {NoVersion}]
  /\ framer_version \in Versions
  /\ packet \in Packet \cup {NoPacket}
  /\ stage \in Stages
  /\ stage = "idle" <=> packet = NoPacket
  /\ handlers \subseteq {"session", "time_wait"}

\* "The following methods should never get called because we always return
\* false": whatever the packet says and whatever became of its id, the framer
\* gets neither to a public reset's nor to the payload's callbacks, and meets an
\* unexpected version only for an id in time wait.
NothingBehindTheHeader == stage # "unreachable"

\* A packet is processed by a session or by the time wait list, never by both:
\* one that closes its connection is not answered as a packet that came after.
HandledOnce == Cardinality(handlers) <= 1

\* The one framer is shared, and the version it has is that of the last packet
\* for an id in time wait.  When it parses the number that the public reset will
\* quote, the version is the one recorded for this packet's id, which is still
\* in time wait (the DCHECK of OnUnauthenticatedHeader).
ParsedWithItsVersion ==
  stage = "header" =>
    /\ IsConnectionIdInTimeWait(packet.id)
    /\ framer_version = time_wait[packet.id]
=============================================================================

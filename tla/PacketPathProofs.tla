-------------------------- MODULE PacketPathProofs --------------------------
(***************************************************************************)
(* Theorems about PacketPath, for all ids and versions.  The properties    *)
(* follow from one invariant that says what is known of the packet's id    *)
(* while the framer works on the packet: once the visitor has let it go on *)
(* the id is in time wait, the framer has the version of its record, and   *)
(* nobody has processed the packet.                                        *)
(***************************************************************************)
EXTENDS PacketPath, FiniteSetTheorems, TLAPS

\* The stages in which the framer parses for the time wait list.
Behind == {"version", "mismatch", "kind", "header"}

\* A packet that may go on belongs to an id in time wait, and it is no reset.
ForTimeWait ==
  stage \in Behind =>
    /\ ~ packet.reset_flag
    /\ time_wait[packet.id] # NoVersion
    /\ framer_version = time_wait[packet.id]

\* A packet has no handler before the visitor's decision.
NotHandledYet == stage \in Behind \cup {"public_header"} => handlers = {}

OneHandler == handlers \in {{}, {"session"}, {"time_wait"}}

PathInv ==
  /\ TypeOK
  /\ NothingBehindTheHeader
  /\ ForTimeWait
  /\ NotHandledYet
  /\ OneHandler

-----------------------------------------------------------------------------
(* What the operators of the model return *)

\* The id that is added is in the list, with its version, and all records have
\* versions, whatever was trimmed.
LEMMA AddedIsThere ==
  ASSUME TypeOK, NEW id \in ConnectionIds, NEW version \in Versions,
         NEW list \in AddedToTimeWait(id, version)
  PROVE  /\ list \in [ConnectionIds -> Versions \cup {NoVersion}]
         /\ list[id] = version
  BY DEF TypeOK, AddedToTimeWait

\* The packet at hand is one, unless the framer is idle.
LEMMA PacketAtHand ==
  ASSUME TypeOK, stage # "idle"
  PROVE  /\ packet \in Packet
         /\ packet.id \in ConnectionIds
         /\ packet.reset_flag \in BOOLEAN
         /\ packet.version \in Versions \cup OtherVersions \cup {NoVersion}
  BY DEF TypeOK, Packet

\* A session that processes the packet leaves maps of versions.
LEMMA ProcessedKeepsTypes ==
  ASSUME TypeOK, stage # "idle", NEW version \in Versions, ProcessUdpPacket(version)
  PROVE  /\ session_map' \in [ConnectionIds -> Versions \cup {NoVersion}]
         /\ time_wait' \in [ConnectionIds -> Versions \cup {NoVersion}]
<1>1. packet.id \in ConnectionIds
  BY PacketAtHand
<1>2. PICK v \in {version} \cup ({packet.version} \cap Versions) :
        \/ /\ session_map' = [session_map EXCEPT ![packet.id] = v]
           /\ UNCHANGED time_wait
        \/ /\ session_map' = [session_map EXCEPT ![packet.id] = NoVersion]
           /\ time_wait' \in AddedToTimeWait(packet.id, v)
  BY DEF ProcessUdpPacket
<1>3. v \in Versions
  BY <1>2
<1>4. CASE /\ session_map' = [session_map EXCEPT ![packet.id] = v]
           /\ UNCHANGED time_wait
  BY <1>3, <1>4 DEF TypeOK
<1>5. CASE /\ session_map' = [session_map EXCEPT ![packet.id] = NoVersion]
           /\ time_wait' \in AddedToTimeWait(packet.id, v)
  <2>1. session_map' \in [ConnectionIds -> Versions \cup {NoVersion}]
    BY <1>5 DEF TypeOK
  <2>2. time_wait' \in [ConnectionIds -> Versions \cup {NoVersion}]
    BY <1>1, <1>3, <1>5, AddedIsThere
  <2> QED BY <2>1, <2>2
<1> QED BY <1>2, <1>4, <1>5

\* Any way to stop leaves the framer idle, whose invariant asks for types only.
LEMMA StoppedIsFine ==
  ASSUME Stops,
         session_map' \in [ConnectionIds -> Versions \cup {NoVersion}],
         time_wait' \in [ConnectionIds -> Versions \cup {NoVersion}],
         framer_version' \in Versions,
         handlers' \in {{}, {"session"}, {"time_wait"}}
  PROVE  PathInv'
  BY DEF PathInv, TypeOK, Stops, Stages, NothingBehindTheHeader, ForTimeWait,
         NotHandledYet, OneHandler, Behind

\* HandlePacketForTimeWait lets a packet go on only with the version of its
\* record, provided that the id is in the list the step leaves behind.
LEMMA HandledForTimeWait ==
  ASSUME TypeOK, stage = "public_header", handlers = {},
         time_wait' \in [ConnectionIds -> Versions \cup {NoVersion}],
         time_wait'[packet.id] # NoVersion,
         HandlePacketForTimeWait(time_wait'),
         UNCHANGED <<session_map, handlers>>
  PROVE  PathInv'
<1>1. packet.id \in ConnectionIds /\ packet \in Packet
  BY PacketAtHand
<1>2. time_wait'[packet.id] \in Versions
  BY <1>1
<1>3. CASE packet.reset_flag
  BY <1>3, StoppedIsFine DEF HandlePacketForTimeWait, TypeOK
<1>4. CASE ~ packet.reset_flag
  <2>1. /\ framer_version' = time_wait'[packet.id]
        /\ stage' = "version"
        /\ packet' = packet
    BY <1>4 DEF HandlePacketForTimeWait, GetQuicVersionFromConnectionId
  <2>2. TypeOK'
    BY <1>1, <1>2, <2>1, NoPacketAssumption DEF TypeOK, Stages
  <2> QED
    BY <1>4, <2>1, <2>2
    DEF PathInv, NothingBehindTheHeader, ForTimeWait, NotHandledYet, OneHandler, Behind
<1> QED BY <1>3, <1>4

-----------------------------------------------------------------------------
(* The invariant *)

LEMMA PathInit ==
  ASSUME Init PROVE PathInv
  BY PacketPathAssumption
  DEF Init, PathInv, TypeOK, Stages, NothingBehindTheHeader, ForTimeWait,
      NotHandledYet, OneHandler, Behind

LEMMA PathBegins ==
  ASSUME PathInv, NEW p \in Packet, ProcessPacket(p)
  PROVE  PathInv'
<1>1. p # NoPacket
  BY NoPacketAssumption
<1> QED
  BY <1>1
  DEF PathInv, ProcessPacket, TypeOK, Stages, NothingBehindTheHeader, ForTimeWait,
      NotHandledYet, OneHandler, Behind

LEMMA PathDecides ==
  ASSUME PathInv, OnUnauthenticatedPublicHeader
  PROVE  PathInv'
<1>1. TypeOK
  BY DEF PathInv
<1>2. CASE PortZero
  BY <1>2, StoppedIsFine DEF PathInv, TypeOK, OneHandler, PortZero
<1>3. CASE DispatchToSession
  <2>1. stage # "idle" /\ session_map[packet.id] \in Versions
    BY <1>1, <1>3, PacketAtHand DEF DispatchToSession, AtPublicHeader, IsLive, TypeOK
  <2>2. /\ session_map' \in [ConnectionIds -> Versions \cup {NoVersion}]
        /\ time_wait' \in [ConnectionIds -> Versions \cup {NoVersion}]
    BY <1>1, <1>3, <2>1, ProcessedKeepsTypes DEF DispatchToSession
  <2> QED BY <1>3, <2>2, StoppedIsFine DEF DispatchToSession, PathInv, TypeOK
<1>4. CASE DispatchToTimeWait
  <2>1. /\ stage = "public_header"
        /\ handlers = {}
        /\ time_wait' = time_wait
        /\ time_wait'[packet.id] # NoVersion
        /\ HandlePacketForTimeWait(time_wait')
    BY <1>4
    DEF DispatchToTimeWait, AtPublicHeader, IsConnectionIdInTimeWait, PathInv, NotHandledYet
  <2> QED BY <1>1, <1>4, <2>1, HandledForTimeWait DEF DispatchToTimeWait, TypeOK
<1>5. CASE IgnoreReset
  BY <1>5, StoppedIsFine DEF PathInv, TypeOK, OneHandler, IgnoreReset
<1>6. CASE RejectUnknownId
  <2>1. /\ stage = "public_header"
        /\ handlers = {}
    BY <1>6 DEF RejectUnknownId, UnknownId, AtPublicHeader, PathInv, NotHandledYet
  <2>2. packet.id \in ConnectionIds
    BY <1>1, <2>1, PacketAtHand
  <2>3. /\ time_wait' \in [ConnectionIds -> Versions \cup {NoVersion}]
        /\ time_wait'[packet.id] # NoVersion
    BY <1>1, <1>6, <2>2, AddedIsThere, PacketPathAssumption DEF RejectUnknownId
  <2> QED BY <1>1, <1>6, <2>1, <2>3, HandledForTimeWait DEF RejectUnknownId
<1>7. CASE CreateSession
  <2>1. stage # "idle"
    BY <1>7 DEF CreateSession, UnknownId, AtPublicHeader
  <2>2. /\ session_map' \in [ConnectionIds -> Versions \cup {NoVersion}]
        /\ time_wait' \in [ConnectionIds -> Versions \cup {NoVersion}]
    BY <1>1, <1>7, <2>1, ProcessedKeepsTypes, PacketPathAssumption
    DEF CreateSession, VersionOfNewSession
  <2> QED BY <1>7, <2>2, StoppedIsFine DEF CreateSession, PathInv, TypeOK
<1> QED
  BY <1>2, <1>3, <1>4, <1>5, <1>6, <1>7 DEF OnUnauthenticatedPublicHeader

\* The framer goes on, and meets no version that is not of the packet's record.
LEMMA PathGoesOn ==
  ASSUME PathInv, CompareVersion \/ OnProtocolVersionMismatch \/ CompareKind
  PROVE  PathInv'
<1>1. stage \in Behind /\ stage' \in Behind
  BY DEF PathInv, ForTimeWait, Behind, CompareVersion, OnProtocolVersionMismatch,
         CompareKind, IsConnectionIdInTimeWait
<1>2. UNCHANGED <<session_map, time_wait, framer_version, packet, handlers>>
  BY DEF CompareVersion, OnProtocolVersionMismatch, CompareKind
<1>3. TypeOK'
  BY <1>1, <1>2 DEF PathInv, TypeOK, Stages, Behind
<1> QED
  BY <1>1, <1>2, <1>3
  DEF PathInv, NothingBehindTheHeader, ForTimeWait, NotHandledYet, OneHandler, Behind

LEMMA PathEnds ==
  ASSUME PathInv, HeaderIsMalformed \/ OnUnauthenticatedHeader
  PROVE  PathInv'
<1>1. handlers = {}
  BY DEF PathInv, NotHandledYet, Behind, HeaderIsMalformed, OnUnauthenticatedHeader
<1> QED
  BY <1>1, StoppedIsFine
  DEF PathInv, TypeOK, HeaderIsMalformed, OnUnauthenticatedHeader

LEMMA PathBetweenPackets ==
  ASSUME PathInv, NEW id \in ConnectionIds, ConnectionCloses(id) \/ Expires(id)
  PROVE  PathInv'
<1>1. TypeOK /\ stage = "idle"
  BY DEF PathInv, ConnectionCloses, Expires
<1>2. UNCHANGED <<framer_version, packet, stage, handlers>>
  BY DEF ConnectionCloses, Expires
<1>3. /\ session_map' \in [ConnectionIds -> Versions \cup {NoVersion}]
      /\ time_wait' \in [ConnectionIds -> Versions \cup {NoVersion}]
  <2>1. CASE ConnectionCloses(id)
    <3>1. session_map[id] \in Versions
      BY <1>1, <2>1 DEF ConnectionCloses, IsLive, TypeOK
    <3>2. time_wait' \in [ConnectionIds -> Versions \cup {NoVersion}]
      BY <1>1, <2>1, <3>1, AddedIsThere DEF ConnectionCloses
    <3>3. session_map' \in [ConnectionIds -> Versions \cup {NoVersion}]
      BY <1>1, <2>1 DEF ConnectionCloses, TypeOK
    <3> QED BY <3>2, <3>3
  <2>2. CASE Expires(id)
    BY <1>1, <2>2 DEF Expires, TypeOK
  <2> QED BY <2>1, <2>2
<1>4. TypeOK'
  BY <1>1, <1>2, <1>3 DEF TypeOK
<1> QED
  BY <1>1, <1>2, <1>4
  DEF PathInv, NothingBehindTheHeader, ForTimeWait, NotHandledYet, OneHandler, Behind

LEMMA PathStep ==
  ASSUME PathInv, [Next]_vars
  PROVE  PathInv'
<1>1. CASE \E p \in Packet : ProcessPacket(p)
  BY <1>1, PathBegins
<1>2. CASE OnUnauthenticatedPublicHeader
  BY <1>2, PathDecides
<1>3. CASE CompareVersion \/ OnProtocolVersionMismatch \/ CompareKind
  BY <1>3, PathGoesOn
<1>4. CASE HeaderIsMalformed \/ OnUnauthenticatedHeader
  BY <1>4, PathEnds
<1>5. CASE \E id \in ConnectionIds : ConnectionCloses(id) \/ Expires(id)
  BY <1>5, PathBetweenPackets
<1>6. CASE UNCHANGED vars
  BY <1>6
  DEF vars, PathInv, TypeOK, NothingBehindTheHeader, ForTimeWait, NotHandledYet, OneHandler
<1> QED
  BY <1>1, <1>2, <1>3, <1>4, <1>5, <1>6 DEF Next

-----------------------------------------------------------------------------
(* Theorems *)

\* The inductive invariant: what is known of a packet at each stage of the path
\* through the framer and the visitor.
THEOREM PathInvariant == Spec => []PathInv
<1>1. Init => PathInv
  BY PathInit
<1>2. PathInv /\ [Next]_vars => PathInv'
  BY PathStep
<1> QED BY <1>1, <1>2, PTL DEF Spec

\* Type correctness of the dispatcher's packet path.
THEOREM PathTypeCorrect == Spec => []TypeOK
<1>1. PathInv => TypeOK
  BY DEF PathInv
<1> QED BY <1>1, PathInvariant, PTL

\* The callbacks behind the header are never reached, whatever packets say.
THEOREM PathNothingBehindTheHeader == Spec => []NothingBehindTheHeader
<1>1. PathInv => NothingBehindTheHeader
  BY DEF PathInv
<1> QED BY <1>1, PathInvariant, PTL

\* No packet is processed by a session and by the time wait list.
THEOREM PathHandledOnce == Spec => []HandledOnce
<1>1. PathInv => HandledOnce
  <2> SUFFICES ASSUME PathInv PROVE Cardinality(handlers) <= 1
    BY DEF HandledOnce
  <2>1. Cardinality({}) = 0
    BY FS_EmptySet
  <2>2. Cardinality({"session"}) = 1 /\ Cardinality({"time_wait"}) = 1
    BY FS_Singleton
  <2>3. CASE handlers = {}
    BY <2>1, <2>3
  <2>4. CASE handlers = {"session"}
    BY <2>2, <2>4
  <2>5. CASE handlers = {"time_wait"}
    BY <2>2, <2>5
  <2> QED BY <2>3, <2>4, <2>5 DEF PathInv, OneHandler
<1> QED BY <1>1, PathInvariant, PTL

\* The shared framer parses every packet with the version recorded for its id.
THEOREM PathParsedWithItsVersion == Spec => []ParsedWithItsVersion
<1>1. PathInv => ParsedWithItsVersion
  BY DEF PathInv, ForTimeWait, Behind, ParsedWithItsVersion, IsConnectionIdInTimeWait
<1> QED BY <1>1, PathInvariant, PTL
=============================================================================

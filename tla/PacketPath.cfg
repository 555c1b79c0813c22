CONSTANTS
  ConnectionIds = {c1, c2}
  Versions = {v1, v2}
  Front = v1
  OtherVersions = {v3}
  NoVersion = NoVersion
  NoPacket = NoPacket
SPECIFICATION Spec
INVARIANTS
  NothingBehindTheHeader
  HandledOnce
  ParsedWithItsVersion

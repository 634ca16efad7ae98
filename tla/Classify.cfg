SPECIFICATION Spec
CONSTANTS
  Packets <- MCPackets
  Outbound = {"sent", "other"}
  EtherType <- MCEtherTypes
INVARIANTS
  TypeOK
  TakenOnce
  OneVersion
  DataStartKept
PROPERTIES
  Arrives

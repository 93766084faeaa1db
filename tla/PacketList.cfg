SPECIFICATION FairSpec
CONSTANTS
  Core = {c1, c2}
  Packet = {p1, p2, p3}
  NoPacket = NoPacket
INVARIANTS TypeOK MutualExclusion WellLinked
PROPERTIES ImplementsFifo CallsReturn

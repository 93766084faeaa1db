SPECIFICATION FairSpec
CONSTANTS
  Packet = {p1, p2, p3, p4}
  NoPacket = NoPacket
  Poller = Poller
  Checker = Checker
  Hasher = {h1, h2}
  RING_SIZE = 2
  NET_MAXPKT = 1
  WORD = 4
  Frame = {"data"}
  FrameLength <- MCFrameLength
  Content <- OneContent
  Received <- MCReceived
  HashValue <- OneHash
  Djb2 <- MCDjb2
  Tables <- OneTable
  Execute <- MCExecute
  Classify <- MCClassify
  Statistics <- OneTotal
  UpdateStats <- NoUpdate
INVARIANTS TypeOK ExclusiveOwner NoLeak DmaSafe RingBounded WaitsForNetwork
PROPERTIES RingDrains Recycled

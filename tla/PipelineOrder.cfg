SPECIFICATION HistorySpec
CONSTANTS
  Packet = {p1, p2, p3}
  NoPacket = NoPacket
  Poller = Poller
  Checker = Checker
  Hasher = {h1, h2}
  RING_SIZE = 1
  NET_MAXPKT = 2
  WORD = 4
  Frame = {"add", "data", "runt"}
  FrameLength <- MCFrameLength
  Content <- MCContent
  Received <- MCReceived
  HashValue <- MCHashValue
  Djb2 <- MCDjb2
  Tables <- MCTables
  Execute <- MCExecute
  Classify <- MCClassify
  Statistics <- MCStatistics
  UpdateStats <- MCUpdateStats
SYMMETRY Symmetry
PROPERTY ImplementsQueue

SPECIFICATION FairSpec
CONSTANTS
  Boards = {b1, b2, b3}
  TSBuf = 1
  LinkRoom = 1
  QueueRoom = 1
  MaxTS = 2
  Senders = {b1}
  MaxAxons = 1
CHECK_DEADLOCK FALSE
INVARIANTS EarlyByOneAtMost NoStraggler NoOverrun ReporterHonest
PROPERTIES ImplementsBarrier KeepsGoing

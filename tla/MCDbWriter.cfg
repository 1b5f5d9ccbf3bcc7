CONSTANTS
  eventLoop = eventLoop
  reload = reload
  Producers = {eventLoop, reload}
  Sends <- LoopAndReload
  Flushers = {f1}
  Stages = 2
  ChannelCapacity <- OneEach
  MaxSeq = 3
SPECIFICATION WriterSpec
INVARIANTS
  DropsCounted
  TradesSurvive
  ShutdownDrains
PROPERTIES
  SnapshotNeverOlder

SPECIFICATION Spec
CONSTANTS
  C1 = C1
  C2 = C2
  Clients = {C1, C2}
  Sleepers = {C1}
  Tickers = {C1}
  IoUsers = {C1, C2}
  MaxCount = 1
  SlotSize = 2
  MaxLevel = 2
  Period = 2
  SubmitInterval = 2
  Batch = 1
  Delays = {1,4}
  MaxOps = 3
  MaxTime = 3
CHECK_DEADLOCK FALSE
INVARIANTS TypeOK WatchIsArmed NothingIsHeldBack CompletionsAreAwaited TimersAreKept
PROPERTIES EarlyOnlyByLag IntervalsKeepTheGrid SignalSpec

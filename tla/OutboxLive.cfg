\* Two passes race over one live order that its venue fills in parts.
SPECIFICATION Spec
CONSTANTS
  o1 = o1
  o2 = o2
  o3 = o3
  btc = btc
  eth = eth
  Orders = {o1}
  Symbols = {btc}
  Workers = {w1, w2}
  Symbol <- OneSymbol
  Side <- AllBuy
  Quantity <- Two
  Mode <- AllLive
  Cancellable = {o1}
  AdapterModes <- PaperOrLive
  Rejecting = FALSE
  BatchSize = 2
  FaultKinds = {"crash", "expire", "lock", "db", "event", "ack", "garbled"}
  MaxFaults = 1
SYMMETRY WorkerSymmetry
INVARIANTS LiveEndsComplete
PROPERTIES ImplementsLedger

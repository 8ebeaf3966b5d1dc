\* The venue reports an order filled without a quantity that can be read.
SPECIFICATION Spec
CONSTANTS
  o1 = o1
  o2 = o2
  o3 = o3
  btc = btc
  eth = eth
  Orders = {o1}
  Symbols = {btc}
  Workers = {w1}
  Symbol <- OneSymbol
  Side <- AllBuy
  Quantity <- Two
  Mode <- AllLive
  Cancellable = {o1}
  AdapterModes <- PaperOrLive
  Rejecting = FALSE
  BatchSize = 2
  FaultKinds = {"garbled"}
  MaxFaults = 1
INVARIANTS FilledIsWhole

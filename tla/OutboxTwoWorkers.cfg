\* Two passes race over one paper order: leases run out under them, they die,
\* statements and acknowledgements fail.
SPECIFICATION Spec
CONSTANTS
  o1 = o1
  o2 = o2
  o3 = o3
  btc = btc
  eth = eth
  Orders = {o1}
  Symbols = {btc}
  Workers = {w1, w2}
  Symbol <- OneSymbol
  Side <- AllBuy
  Quantity <- Two
  Mode <- AllPaper
  Cancellable = {o1}
  AdapterModes <- Paper
  Rejecting = TRUE
  BatchSize = 2
  FaultKinds = {"crash", "expire", "db", "ack"}
  MaxFaults = 3
SYMMETRY WorkerSymmetry
INVARIANTS TypeOK FillsCountedOnce JournalMatchesOrders WritesFromFreshState DeliveredMeansDone NoSpuriousEscalation
PROPERTIES TerminalIsFinal CancelHonoured ImplementsLedger

\* Listings change, parse or do not, and orders are checked against what was
\* taken last.
SPECIFICATION Spec
CONSTANTS
  btc = btc
  eth = eth
  Symbols = {btc, eth}
  Entries <- MCEntries
  Intents <- MCIntents
  Estimates <- MCEstimates
  MaxDecimal = 1000
INVARIANTS AcceptedOrdersFit

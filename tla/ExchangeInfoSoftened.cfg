\* A bound on the notional that does not decode.
SPECIFICATION Spec
CONSTANTS
  btc = btc
  eth = eth
  Symbols = {btc, eth}
  Entries <- MCEntries
  Intents <- MCIntents
  Estimates <- MCEstimates
  MaxDecimal = 1000
INVARIANTS WholeListingFits

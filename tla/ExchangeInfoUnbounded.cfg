\* A symbol is listed without a percent-price filter.
SPECIFICATION Spec
CONSTANTS
  btc = btc
  eth = eth
  Symbols = {btc, eth}
  Entries <- MCEntries
  Intents <- MCIntents
  Estimates <- MCEstimates
  MaxDecimal = 1000
INVARIANTS ValidationAnswers

------------------------ MODULE MCSequentialTrading ------------------------
(***************************************************************************)
(* Three symbols of which two are correlated, and limits tight enough that *)
(* each rule decides some trade.                                           *)
(***************************************************************************)
EXTENDS SequentialTrading, TLC

CONSTANTS btc, eth, doge

TwoCorrelated ==
  {btc :> "layer1" @@ eth :> "layer1" @@ doge :> NoGroup}

(* One config bounded by the number of positions, one by exposure.          *)
TwoConfigs ==
  {[dailyMaxLossPct |-> 25, maxPositionPctEquity |-> 100,
    maxConcurrentPositions |-> 1, maxCorrelatedExposurePct |-> 100],
   [dailyMaxLossPct |-> 50, maxPositionPctEquity |-> 50,
    maxConcurrentPositions |-> 2, maxCorrelatedExposurePct |-> 75]}
============================================================================

--------------------------- MODULE MCGatedOutbox ---------------------------
(***************************************************************************)
(* An account that may hold one position buys three units of one symbol    *)
(* and may sell two of them twice, or buy another symbol.                  *)
(***************************************************************************)
EXTENDS GatedOutbox, TLC

CONSTANTS o1, o2, o3, o4, btc, eth

OneOfEth == [o \in Orders |-> IF o = o4 THEN eth ELSE btc]
Sides == [o \in Orders |-> IF o \in {o1, o4} THEN "buy" ELSE "sell"]
Quantities == [o \in Orders |-> IF o = o1 THEN 3 ELSE 2]
AllPaper == [o \in Orders |-> "paper"]
Paper == {"paper"}

OnePosition == [dailyMaxLossPct |-> 50, maxPositionPctEquity |-> 100,
                maxConcurrentPositions |-> 1, maxCorrelatedExposurePct |-> 100]
============================================================================

----------------------------- MODULE MCOutbox -----------------------------
(***************************************************************************)
(* Small instances of the outbox for TLC: named column values from which   *)
(* each .cfg picks the orders of its scenario.                             *)
(***************************************************************************)
EXTENDS OutboxProperties, TLC

CONSTANTS o1, o2, o3, btc, eth

(* Passes are interchangeable. *)
WorkerSymmetry == Permutations(Workers)

(* Two orders on two symbols, on one symbol, and buy then sell.             *)
TwoSymbols == o1 :> btc @@ o2 :> eth
OneSymbol == [o \in Orders |-> btc]
AllBuy == [o \in Orders |-> "buy"]
BuyThenSell == o1 :> "buy" @@ o2 :> "sell"
BuySellBuy == BuyThenSell @@ o3 :> "buy"
Two == [o \in Orders |-> 2]
TwoThenThree == o1 :> 2 @@ o2 :> 3
AllPaper == [o \in Orders |-> "paper"]
AllLive == [o \in Orders |-> "live"]
PaperAndLive == o1 :> "paper" @@ o2 :> "live"

Paper == {"paper"}
PaperOrLive == {"paper", "live"}
===========================================================================

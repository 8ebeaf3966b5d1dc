--------------------------- MODULE MCAccountGate ---------------------------
(***************************************************************************)
(* Two orders on two symbols, limits that are tight at one equity and not  *)
(* at the other, two concurrent requests.                                  *)
(***************************************************************************)
EXTENDS AccountGate, TLC

CONSTANTS o1, o2, btc, eth

ClientSymmetry == Permutations(Clients)

TwoSymbols == o1 :> btc @@ o2 :> eth

Loose == [dailyMaxLossPct |-> 25, maxPositionPctEquity |-> 25,
          maxConcurrentPositions |-> 2, maxCorrelatedExposurePct |-> 25]
Tight == [Loose EXCEPT !.maxConcurrentPositions = 1]
LooseAndTight == {Loose, Tight}
OnlyTight == {Tight}

Apart == [s \in Symbols |-> NoGroup]
Together == [s \in Symbols |-> "layer1"]
ApartOrTogether == {Apart, Together}
============================================================================

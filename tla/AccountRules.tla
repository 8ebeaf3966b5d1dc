--------------------------- MODULE AccountRules ---------------------------
(***************************************************************************)
(* What the handlers of one account promise together, with no request in   *)
(* progress, no lock, no version and no row in sight: every operation is   *)
(* decided and done in one step, on the account as it is in that step      *)
(* (db.rs lock_account: evaluations, kill-switch flips and breaker trips   *)
(* for one account serialize).                                             *)
(***************************************************************************)
EXTENDS Integers

CONSTANTS Orders, Symbols, Symbol, Configs, Groupings, Equities,
          ExchangeMode, NoMode,
          IsApproved(_, _, _), CircuitBreakerShouldTrip(_, _)  \* the engine

VARIABLES
  equity, loss,   \* of the account, of today
  halted,         \* the kill switch
  tripped,        \* the breaker, for today
  owed,           \* a trip the day before called for is still to be stored
  limits, groups,
  mode,           \* where new orders go: to paper, until a mode is chosen
  chosen,
  placed,         \* orders placed so far, and where each went
  working,        \* those not ended
  holding         \* units held of each symbol

rules == <<equity, loss, halted, tripped, owed, limits, groups, mode, chosen,
           placed, working, holding>>

Intent(o) == [symbol |-> Symbol[o], side |-> "buy", quantity |-> 1, price |-> 1]

Account ==
  [equity            |-> equity,
   loss              |-> loss,
   killSwitchEngaged |-> halted,
   tripped           |-> tripped,
   groups            |-> groups,
   positions         |->
     {[symbol |-> s, side |-> "long", quantity |-> holding[s],
       notional |-> holding[s]] : s \in {x \in Symbols : holding[x] > 0}}]

Due == CircuitBreakerShouldTrip(Account, limits)
Flat == working = {} /\ \A s \in Symbols : holding[s] = 0

RulesInit ==
  /\ equity \in Equities /\ loss = 0
  /\ halted = FALSE /\ tripped = FALSE /\ owed = FALSE
  /\ limits \in Configs /\ groups \in Groupings
  /\ mode = "paper" /\ chosen = FALSE
  /\ placed = [o \in Orders |-> NoMode]
  /\ working = {}
  /\ holding = [s \in Symbols |-> 0]

(* An order goes out only if the rules approve of it, where the account is. *)
Place(o) ==
  /\ placed[o] = NoMode
  /\ IsApproved(Intent(o), Account, limits)
  /\ placed' = [placed EXCEPT ![o] = mode]
  /\ working' = working \cup {o}
  /\ UNCHANGED <<equity, loss, halted, tripped, owed, limits, groups, mode,
                 chosen, holding>>

(* It ends filled, or without a fill.                                       *)
End(o) ==
  /\ o \in working
  /\ working' = working \ {o}
  /\ holding' \in {holding, [holding EXCEPT ![Symbol[o]] = @ + 1]}
  /\ UNCHANGED <<equity, loss, halted, tripped, owed, limits, groups, mode,
                 chosen, placed>>

(* The breaker trips when the loss calls for it, today or the day before.   *)
Trip ==
  /\ ~tripped
  /\ Due \/ owed
  /\ tripped' = TRUE
  /\ owed' = FALSE
  /\ UNCHANGED <<equity, loss, halted, limits, groups, mode, chosen, placed,
                 working, holding>>

Halt ==
  /\ halted' = ~halted
  /\ UNCHANGED <<equity, loss, tripped, owed, limits, groups, mode, chosen,
                 placed, working, holding>>

(* The first choice asks for nothing, and what is open on paper stays there. *)
ChooseMode ==
  /\ ~chosen
  /\ chosen' = TRUE
  /\ mode' \in ExchangeMode
  /\ UNCHANGED <<equity, loss, halted, tripped, owed, limits, groups,
                 placed, working, holding>>

(* After that nothing is left behind on the other exchange.                 *)
SwitchMode ==
  /\ chosen
  /\ Flat
  /\ mode' \in ExchangeMode
  /\ UNCHANGED <<equity, loss, halted, tripped, owed, limits, groups,
                 chosen, placed, working, holding>>

SetTerms ==
  /\ \/ equity' \in Equities /\ UNCHANGED <<limits, groups>>
     \/ limits' \in Configs /\ UNCHANGED <<equity, groups>>
     \/ groups' \in Groupings /\ UNCHANGED <<equity, limits>>
  /\ UNCHANGED <<loss, halted, tripped, owed, mode, chosen, placed, working,
                 holding>>

Lose ==
  /\ loss' = loss + 1
  /\ UNCHANGED <<equity, halted, tripped, owed, limits, groups, mode,
                 chosen, placed, working, holding>>

NewDay ==
  /\ loss' = 0
  /\ tripped' = FALSE
  /\ owed' \in {FALSE, Due \/ owed}
  /\ UNCHANGED <<equity, halted, limits, groups, mode, chosen, placed,
                 working, holding>>

RulesNext ==
  \/ \E o \in Orders : Place(o) \/ End(o)
  \/ Trip \/ Halt \/ ChooseMode \/ SwitchMode \/ SetTerms \/ Lose \/ NewDay

RulesSpec == RulesInit /\ [][RulesNext]_rules
============================================================================

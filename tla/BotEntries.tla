----------------------------- MODULE BotEntries -----------------------------
(***************************************************************************)
(* How large the bot's entries are (quanta.bot.strategy, size, and Bot.open*)
(* of runner): the stop's distance gives the quantity, caps per contract   *)
(* and over all contracts cut it, and what counts against the caps is read *)
(* from the positions and from the bot's own trades.  An entry rests and   *)
(* is filled bit by bit while the prices, the balance and other entries    *)
(* move.                                                                   *)
(*                                                                         *)
(* Prices are in ticks, quantities in steps, a tick times a step is worth  *)
(* 1; shares and distances are in percent.  The entries that the broker,   *)
(* the fee or the age of the model refuse are entries that are not placed; *)
(* one whose answer is lost is a matter of BotTrades.                      *)
(***************************************************************************)
EXTENDS Integers, FiniteSetsExt, Functions

CONSTANTS
  Symbols,
  Marks,                       \* mark prices: the bid is there, the ask one tick above
  Equities, Distances,         \* balances, and stop distances (from the volatility)
  risk_per_trade, cap_symbol, cap_gross, max_positions, leverage,
  max_order_notional,
  min_qty, max_qty, min_notional  \* of the contract

VARIABLES
  mark, equity,
  trades,     \* symbol -> [side, qty, px, dist, equity, state], of those that go on
  positions   \* symbol -> quantity held

BotAssumption ==
  /\ IsFiniteSet(Symbols)
  /\ Marks \subseteq Nat \ {0} /\ Equities \subseteq Nat /\ Distances \subseteq Nat \ {0}
  /\ {risk_per_trade, cap_symbol, cap_gross, max_positions, max_order_notional} \subseteq Nat

vars == <<mark, equity, trades, positions>>

Sides == {1, -1}

Init ==
  /\ mark \in [Symbols -> Marks]
  /\ equity \in Equities
  /\ trades = <<>>
  /\ positions = [s \in Symbols |-> 0]

-----------------------------------------------------------------------------
(* Sizing.                                                                 *)

(* Bug for the mutants: entries that rest do not count.                    *)
PositionsOnly == [s \in {s \in Symbols : positions[s] # 0} |-> positions[s] * mark[s]]

(* A contract counts with its position, if it has one, or else its trade.  *)
open_notional ==
  [s \in {s \in Symbols : positions[s] # 0} \cup DOMAIN trades |->
     IF positions[s] # 0 THEN positions[s] * mark[s] ELSE trades[s].qty * trades[s].px]

(* Post-only: a buy joins the bid, a sell the ask.                         *)
entry_price(s, side) == IF side = 1 THEN mark[s] ELSE mark[s] + 1

(* Rounded away from the entry: down below a long's, up above a short's.   *)
stop_price(px, side, dist) ==
  IF side = 1 THEN (px * (100 - dist)) \div 100 ELSE -((-(px * (100 + dist))) \div 100)

(* Bug: the stop distance is not looked at.                                *)
NotionalOfCaps(dist) == Min({cap_symbol * equity, cap_gross * equity - 100 * SumFunction(open_notional)})

(* In hundredths.  The balance's share at risk is the loss at the stop.    *)
Notional(dist) ==
  Min({(100 * risk_per_trade * equity) \div dist,
       cap_symbol * equity,
       cap_gross * equity - 100 * SumFunction(open_notional),
       99 * max_order_notional})

Valid(qty, px) == qty > 0 /\ qty \in min_qty .. max_qty /\ qty * px >= min_notional

(* The quantity for a signal, 0 if there is none.                          *)
size(s, px, dist) ==
  LET qty == Notional(dist) \div (100 * px)
  IN  IF /\ s \notin DOMAIN open_notional
         /\ Cardinality(DOMAIN open_notional) < max_positions
         /\ dist * leverage < 50
         /\ Valid(qty, px)
      THEN qty ELSE 0

-----------------------------------------------------------------------------
(* What is at the exchange: positions, and what is left of resting entries.*)

Rest(s) ==
  IF s \in DOMAIN trades /\ trades[s].state = "entry" THEN trades[s].qty - positions[s] ELSE 0

RestWorth(s) == IF Rest(s) = 0 THEN 0 ELSE Rest(s) * trades[s].px

Committed == SumFunction([s \in Symbols |-> positions[s] * mark[s] + RestWorth(s)])

(* What the sizing does not see: of an entry that is filled in part, only  *)
(* the part that is a position counts.                                     *)
Unseen == SumFunction([s \in Symbols |-> IF positions[s] # 0 THEN RestWorth(s) ELSE 0])

Open(s, side, dist) ==
  LET px  == entry_price(s, side)
      qty == size(s, px, dist)
  IN  /\ s \notin DOMAIN trades
      /\ qty # 0
      /\ trades' = [x \in DOMAIN trades \cup {s} |->
                      IF x = s THEN [side |-> side, qty |-> qty, px |-> px, dist |-> dist,
                                     equity |-> equity, state |-> "entry"]
                      ELSE trades[x]]
      /\ UNCHANGED <<mark, equity, positions>>

Fill(s) ==
  /\ Rest(s) # 0
  /\ \E q \in 1 .. Rest(s) : positions' = [positions EXCEPT ![s] = @ + q]
  /\ UNCHANGED <<mark, equity, trades>>

Forget(s) == trades' = [x \in DOMAIN trades \ {s} |-> trades[x]]

(* The entry is filled, or it is cancelled: the trade goes on with what it *)
(* got, or ends.                                                           *)
EntryEnds(s) ==
  /\ s \in DOMAIN trades /\ trades[s].state = "entry"
  /\ IF positions[s] = 0 THEN Forget(s) ELSE trades' = [trades EXCEPT ![s].state = "open"]
  /\ UNCHANGED <<mark, equity, positions>>

(* A stop, target or exit takes the position, or a part of it.             *)
Reduce(s) ==
  /\ s \in DOMAIN trades /\ trades[s].state = "open" /\ positions[s] # 0
  /\ \E q \in 1 .. positions[s] : positions' = [positions EXCEPT ![s] = @ - q]
  /\ UNCHANGED <<mark, equity, trades>>

Finish(s) ==
  /\ s \in DOMAIN trades /\ trades[s].state = "open" /\ positions[s] = 0
  /\ Forget(s)
  /\ UNCHANGED <<mark, equity, positions>>

Move ==
  /\ \/ /\ \E s \in Symbols, m \in Marks : m # mark[s] /\ mark' = [mark EXCEPT ![s] = m]
        /\ UNCHANGED equity
     \/ /\ \E e \in Equities \ {equity} : equity' = e
        /\ UNCHANGED mark
  /\ UNCHANGED <<trades, positions>>

Next ==
  \/ Move
  \/ \E s \in Symbols :
       \/ \E side \in Sides, dist \in Distances : Open(s, side, dist)
       \/ Fill(s) \/ EntryEnds(s) \/ Reduce(s) \/ Finish(s)

Spec == Init /\ [][Next]_vars

-----------------------------------------------------------------------------

Distance(t) == IF t.side = 1 THEN t.px - stop_price(t.px, t.side, t.dist)
               ELSE stop_price(t.px, t.side, t.dist) - t.px

(* "a stopped-out trade loses risk_per_trade of the balance" (strategy.py) *)
(* whatever the caps and the rounding of quantity and stop do: at most a   *)
(* tick of the stop more than that share of the balance at its entry.      *)
RiskIsBounded ==
  \A s \in DOMAIN trades :
    LET t == trades[s]
    IN  100 * t.qty * (Distance(t) - 1) <= risk_per_trade * t.equity

(* No more contracts are held or bid for at once than the settings allow.  *)
PositionsAreBounded ==
  Cardinality({s \in Symbols : positions[s] # 0 \/ Rest(s) # 0}) <= max_positions

Opens == DOMAIN trades # DOMAIN trades' /\ DOMAIN trades \subseteq DOMAIN trades'

(* When an entry is placed, all positions and all resting entries together *)
(* are worth no more than cap_gross of the balance - save for the rest of  *)
(* entries that are filled in part.  A step property.                      *)
GrossIsBounded == Opens => 100 * (Committed' - Unseen) <= cap_gross * equity

(* What config.py says of cap_gross, "all positions together", without the *)
(* exception: does not hold.                                               *)
GrossHolds == Opens => 100 * Committed' <= cap_gross * equity

-----------------------------------------------------------------------------
(* Why they hold.                                                          *)

Trades ==
  [side : Sides, qty : Nat \ {0}, px : Nat \ {0}, dist : Nat \ {0}, equity : Nat,
   state : {"entry", "open"}]

TypeOK ==
  /\ mark \in [Symbols -> Nat \ {0}] /\ equity \in Nat
  /\ DOMAIN trades \subseteq Symbols /\ trades \in [DOMAIN trades -> Trades]
  /\ positions \in [Symbols -> Nat]

(* Every position is of a trade, and the trades are no more than allowed.  *)
PositionsAreTraded == \A s \in Symbols : positions[s] # 0 => s \in DOMAIN trades

TradesAreFew == Cardinality(DOMAIN trades) <= max_positions

BotInv == TypeOK /\ PositionsAreTraded /\ TradesAreFew /\ RiskIsBounded

=============================================================================

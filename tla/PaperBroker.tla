---------------------------- MODULE PaperBroker -----------------------------
(***************************************************************************)
(* The paper broker (quanta.bot.broker): limit orders, stops and closes    *)
(* simulated on one contract's public trades, book and mark price, and     *)
(* funding.  The bot places what BotTrades says: an entry; once it is      *)
(* filled a stop and a target; an exit; a close.                           *)
(*                                                                         *)
(* The book is [bid |-> p, ask |-> p + 1] and the mark p; fees are per lot.*)
(***************************************************************************)
EXTENDS Integers, FiniteSetsExt

CONSTANTS
  MaxPrice, Lots,
  MakerFee, TakerFee,
  FundingEvery,                    \* ticks between funding times
  MaxTrades, MaxMoves, LastTick    \* bounds: entries, price moves, time

Prices == 1..MaxPrice

VARIABLES
  now, p, moves,
  funding,         \* the feed's last word: the next funding time, 0 before the first
  pos, entry,      \* signed lots, entry price
  orders,          \* [id, role, side, price, qty, reduce]: resting
  filled,          \* ids of orders that were filled
  balance,
  cash,            \* what the fills moved: price times lots, fees, funding
  due,             \* _next_funding, 0 before the first
  payments,        \* funding payments at each funding time
  trade            \* the bot's trade: number, side, state

vars == <<now, p, moves, funding, pos, entry, orders, filled, balance, cash, due, payments, trade>>

(* Where a taker buys and sells.                                           *)
Touch(side, price) == IF side = 1 THEN price + 1 ELSE price

Absolute(n) == IF n < 0 THEN -n ELSE n

Init ==
  /\ now = 0 /\ p = 2 /\ moves = 0 /\ funding = 0
  /\ pos = 0 /\ entry = 0 /\ orders = {} /\ filled = {}
  /\ balance = 0 /\ cash = 0
  /\ due = 0 /\ payments = [t \in 1..LastTick |-> 0]
  /\ trade = [n |-> 0, side |-> 1, state |-> "none"]

-----------------------------------------------------------------------------
(* Bug for the mutants: a short's profit has the sign of a long's.         *)
RealizedLong(s, closed, px) == closed * (px - s.entry)

Realized(s, closed, px) == closed * (px - s.entry) * (IF s.pos > 0 THEN 1 ELSE -1)

(* _fill, on a state [pos, entry, balance, cash].                          *)

Filled(s, side, qty, px, fee) ==
  LET signed == side * qty
      new == s.pos + signed
      reducing == s.pos * signed < 0
      closed == Min({qty, Absolute(s.pos)})
      realized == IF reducing THEN Realized(s, closed, px) ELSE 0
  IN  [pos |-> new,
       entry |-> IF ~ reducing THEN (s.entry * Absolute(s.pos) + px * qty) \div (Absolute(s.pos) + qty)
                 ELSE IF new = 0 THEN 0
                 ELSE IF new * s.pos < 0 THEN px ELSE s.entry,
       balance |-> s.balance + realized - qty * fee,
       cash |-> s.cash - signed * px - qty * fee]

Account == [pos |-> pos, entry |-> entry, balance |-> balance, cash |-> cash]

Becomes(s) == pos' = s.pos /\ entry' = s.entry /\ balance' = s.balance /\ cash' = s.cash

(* Bug: the whole order, whatever there is to reduce.      *)
ReducibleAll(o, position) == o.qty

(* What a reduce-only order still has to reduce; 0 lets it expire.         *)
Reducible(o, position) ==
  IF ~ o.reduce THEN o.qty
  ELSE IF position * o.side < 0 THEN Min({o.qty, Absolute(position)}) ELSE 0

(* _trade: a limit order fills when a trade goes through its price; all    *)
(* orders a trade goes through fill one after the other.                   *)
Through(o, price) == o.role # "stop" /\ o.side * (o.price - price) > 0

PublicTrade(price) ==
  \E o \in orders :
    /\ Through(o, price)
    /\ orders' = orders \ {o}
    /\ LET qty == Reducible(o, pos)
       IN  IF qty = 0 THEN UNCHANGED <<pos, entry, balance, cash, filled>>
           ELSE Becomes(Filled(Account, o.side, qty, o.price, MakerFee)) /\ filled' = filled \cup {o.id}
    /\ UNCHANGED <<now, p, moves, funding, due, payments, trade>>

(* _mark: stops the mark price has reached fill at the touch.              *)
Hit(o, mark) == o.role = "stop" /\ o.side * (mark - o.price) >= 0

AfterStops(price) ==
  LET hit == {o \in orders : Hit(o, price) /\ pos * o.side < 0}
  IN  IF hit = {} THEN Account
      ELSE LET o == CHOOSE h \in hit : TRUE
           IN  Filled(Account, o.side, Absolute(pos), Touch(o.side, price), TakerFee)

(* Bug: the feed says when the next funding is.                            *)
NextFundingFeed(current, nxt) == nxt

NextFunding(current, nxt) == IF nxt > current THEN nxt ELSE current + FundingEvery

(* _funding, when the position is settled.                                 *)
Funds(s, nxt) ==
  LET current == IF due = 0 THEN nxt ELSE due
      passed == nxt # 0 /\ now >= current
      pay == IF passed THEN s.pos ELSE 0
  IN  /\ Becomes([s EXCEPT !.balance = @ - pay, !.cash = @ - pay])
      /\ payments' = IF pay # 0 THEN [payments EXCEPT ![current] = @ + 1] ELSE payments
      /\ due' = IF passed THEN NextFunding(current, nxt) ELSE current

(* A mark price message: stops, then funding.                              *)
Mark(price, nxt) ==
  /\ moves < MaxMoves /\ moves' = moves + 1
  /\ p' = price /\ funding' = nxt
  /\ filled' = filled \cup {o.id : o \in {h \in orders : Hit(h, price)}}
  /\ orders' = {o \in orders : ~ Hit(o, price)}
  /\ Funds(AfterStops(price), nxt)
  /\ UNCHANGED <<now, trade>>

(* Messages are at most a tick old, so they may still name a funding time  *)
(* that has just passed.                                                   *)
NextFundingTimes ==
  {t \in 1..LastTick : t % FundingEvery = 0 /\ \E sent \in {now - 1, now} :
     t > sent /\ t - sent <= FundingEvery}

Tick == now < LastTick /\ now' = now + 1
        /\ UNCHANGED <<p, moves, funding, pos, entry, orders, filled, balance, cash, due, payments, trade>>

-----------------------------------------------------------------------------
(* The bot's calls; a key is used once, by role and trade.                 *)

Id(role) == <<trade.n, role>>
Rests(role, side, price, qty, reduce) ==
  orders' = orders \cup {[id |-> <<trade'.n, role>>, role |-> role, side |-> side, price |-> price,
                          qty |-> qty, reduce |-> reduce]}

(* limit is post-only: an order that would cross the book is refused.      *)
Crosses(side, price) == side * (price - Touch(side, p)) >= 0

Quiet == UNCHANGED <<now, p, moves, funding, due, payments>>

Enter(side, qty) ==
  /\ trade.state = "none" /\ trade.n < MaxTrades
  /\ trade' = [n |-> trade.n + 1, side |-> side, state |-> "entry"]
  /\ Rests("entry", side, Touch(-side, p), qty, FALSE)
  /\ UNCHANGED <<pos, entry, filled, balance, cash>> /\ Quiet

Cancel(roles) == {o \in orders : o.id \notin {Id(r) : r \in roles}}

(* An entry that did not fill in time.                                     *)
GiveUp ==
  /\ trade.state = "entry" /\ Id("entry") \notin filled
  /\ orders' = Cancel({"entry"})
  /\ trade' = [trade EXCEPT !.state = "none"]
  /\ UNCHANGED <<pos, entry, filled, balance, cash>> /\ Quiet

(* _on_filled: stop, which may fire at once and looks at the funding like  *)
(* every mark price, and target.                                           *)
Protect(stop, target) ==
  /\ trade.state = "entry" /\ Id("entry") \in filled
  /\ (target - stop) * trade.side > 0
  /\ trade' = [trade EXCEPT !.state = "open"]
  /\ LET side == -trade.side
         o == [id |-> Id("stop"), role |-> "stop", side |-> side, price |-> stop, qty |-> 0, reduce |-> TRUE]
         t == [id |-> Id("target"), role |-> "target", side |-> side, price |-> target,
               qty |-> Absolute(pos), reduce |-> TRUE]
     IN  IF Hit(o, p)
         THEN /\ Funds(Filled(Account, side, Absolute(pos), Touch(side, p), TakerFee), funding)
              /\ filled' = filled \cup {Id("stop")}
              /\ UNCHANGED orders
         ELSE /\ orders' = orders \cup {o} \cup (IF Crosses(side, target) THEN {} ELSE {t})
              /\ Funds(Account, funding)
              /\ UNCHANGED filled
  /\ UNCHANGED <<now, p, moves, funding>>

(* The hold time is over: the target makes way for an exit.                *)
Exit ==
  /\ trade.state = "open" /\ pos # 0
  /\ trade' = [trade EXCEPT !.state = "exit"]
  /\ LET side == -trade.side
     IN  orders' = Cancel({"target"}) \cup
           {[id |-> Id("exit"), role |-> "exit", side |-> side,
             price |-> Touch(-side, p), qty |-> Absolute(pos), reduce |-> TRUE]}
  /\ UNCHANGED <<pos, entry, filled, balance, cash>> /\ Quiet

(* close, at the touch.                                                    *)
Close ==
  /\ trade.state = "exit" /\ pos # 0
  /\ orders' = Cancel({"exit", "target"})
  /\ Becomes(Filled(Account, -trade.side, Absolute(pos), Touch(-trade.side, p), TakerFee))
  /\ UNCHANGED <<filled, trade>> /\ Quiet

Finish ==
  /\ trade.state \in {"open", "exit"} /\ pos = 0
  /\ orders' = Cancel({"entry", "stop", "target", "exit"})
  /\ trade' = [trade EXCEPT !.state = "none"]
  /\ UNCHANGED <<pos, entry, filled, balance, cash>> /\ Quiet

Next ==
  \/ \E price \in Prices : PublicTrade(price)
  \/ \E price \in Prices, nxt \in NextFundingTimes : Mark(price, nxt)
  \/ Tick
  \/ \E side \in {1, -1}, qty \in Lots : Enter(side, qty)
  \/ \E stop, target \in Prices : Protect(stop, target)
  \/ GiveUp \/ Exit \/ Close \/ Finish

Spec == Init /\ [][Next]_vars

-----------------------------------------------------------------------------

(* "flipped (never by the bot's own orders)": the position is never on the *)
(* other side of the trade, and nobody's when there is none.               *)
NeverFlips == IF trade.state = "none" THEN pos = 0 ELSE pos * trade.side >= 0

(* The profit booked is what the fills moved, less what is still invested. *)
CashAddsUp == balance = cash + pos * entry

(* A funding time is paid once at most.                                    *)
FundingOnce == \A t \in DOMAIN payments : payments[t] <= 1

-----------------------------------------------------------------------------
(* What makes them hold.                                                   *)

PaperAssumption ==
  /\ {MaxPrice, LastTick} \subseteq Nat /\ {MakerFee, TakerFee} \subseteq Int
  /\ Lots \subseteq Nat \ {0} /\ FundingEvery \in Nat \ {0}

Roles == {"entry", "stop", "target", "exit"}

Orders == [id : Nat \X Roles, role : Roles, side : {1, -1}, price : Int, qty : Nat, reduce : BOOLEAN]

TypeOK ==
  /\ {now, funding, due} \subseteq Nat /\ {p, pos, entry, balance, cash} \subseteq Int
  /\ orders \subseteq Orders /\ filled \subseteq (Nat \X Roles)
  /\ payments \in [1..LastTick -> Nat]
  /\ trade \in [n : Nat, side : {1, -1}, state : {"none", "entry", "open", "exit"}]

(* What rests is of the current trade: its entry alone, or what reduces it.*)
OfTheTrade ==
  /\ \A i \in filled : i[1] <= trade.n
  /\ \A o \in orders :
       /\ o.id = Id(o.role) /\ trade.state # "none"
       /\ o.role = "entry" => /\ trade.state = "entry" /\ o.id \notin filled /\ orders = {o}
                              /\ ~ o.reduce /\ o.side = trade.side /\ o.qty > 0
       /\ o.role # "entry" => trade.state # "entry" /\ o.reduce /\ o.side = -trade.side

(* The position is that of the trade.                                      *)
HeldByTrade ==
  /\ trade.state = "none" => pos = 0
  /\ trade.state = "entry" => (pos = 0 <=> Id("entry") \notin filled)
  /\ pos * trade.side >= 0

(* What was paid is before the next funding time.                          *)
PaidBefore == \A t \in DOMAIN payments : payments[t] # 0 => payments[t] = 1 /\ t < due

PaperInv == TypeOK /\ OfTheTrade /\ HeldByTrade /\ CashAddsUp /\ PaidBefore

=============================================================================

----------------------------- MODULE RiskCheck ------------------------------
(***************************************************************************)
(* The check every order passes (quanta.risk.limits, Trader.place): the    *)
(* size and rate limits, against the positions of the store, which are     *)
(* those that were filled.  Orders rest between the check and their fill,  *)
(* and several tasks place them: the bot, the canary and the drills.       *)
(* Emergency closes, and the stops of ensure_protected, are handed to the  *)
(* OMS as they are: they pass no check and are not remembered.             *)
(*                                                                         *)
(* A quantity is a signed number of lots and a lot is worth 1 throughout,  *)
(* limits are in lots: prices, and the rules about prices, are left out,   *)
(* and so are those that refuse a moment - the kill switch, stale data, a  *)
(* clock that is off: an entry they refuse is one that is not placed.      *)
(***************************************************************************)
EXTENDS Integers, Sequences, FiniteSetsExt

CONSTANTS
  Symbols,
  Lots,                                \* sizes of orders
  max_order_notional, max_symbol_exposure, max_gross_exposure, max_positions,
  max_orders_per_min, max_new_positions_per_hour,
  Minute, Hour,                        \* in ticks
  MaxOrders, LastTick, MaxCrashes      \* bounds

VARIABLES
  now,
  positions,                    \* signed lots
  resting,                      \* orders: [id, symbol, qty signed, reduce]
  order_times, position_times,  \* of the last minute and hour
  sent,                         \* every order placed: [t, opens]
  slack, slackPositions,        \* the most that rested when an entry passed
  crashes

RiskAssumption ==
  /\ IsFiniteSet(Symbols) /\ Lots \subseteq Nat
  /\ {max_gross_exposure, max_positions, max_orders_per_min, max_new_positions_per_hour,
      Minute, Hour} \subseteq Nat

vars == <<now, positions, resting, order_times, position_times, sent, slack,
          slackPositions, crashes>>

Signed == Lots \cup {-n : n \in Lots}

Absolute(n) == IF n < 0 THEN -n ELSE n

Init ==
  /\ now = 0
  /\ positions = [s \in Symbols |-> 0]
  /\ resting = {}
  /\ order_times = <<>> /\ position_times = <<>>
  /\ sent = <<>>
  /\ slack = 0 /\ slackPositions = 0
  /\ crashes = 0

-----------------------------------------------------------------------------
(* context() and check().                                                  *)

(* The first is dropped for as long as it is too old.                      *)
Recent(times, width) ==
  LET old == CHOOSE n \in 0..Len(times) :
               /\ \A i \in 1..n : now - times[i] > width
               /\ n < Len(times) => now - times[n + 1] <= width
  IN  SubSeq(times, old + 1, Len(times))

Gross == SumFunction([s \in Symbols |-> Absolute(positions[s])])
Held == {s \in Symbols : positions[s] # 0}

Opening(i) == ~ i.reduce /\ i.purpose \in {"entry", "drill"}

After(i) == Absolute(positions[i.symbol] + i.qty)

(* Bug for the mutants: a limit against the order by itself.               *)
ExposureOfOrder(i) == After(i) <= max_symbol_exposure /\ Absolute(i.qty) <= max_gross_exposure

Exposure(i) ==
  /\ After(i) <= max_symbol_exposure
  /\ Gross + After(i) - Absolute(positions[i.symbol]) <= max_gross_exposure

(* Bug: the orders that rest are counted, not those that were sent.        *)
RateOfResting(i) == i.purpose # "flatten" => Cardinality(resting) < max_orders_per_min

Rate(i) == i.purpose # "flatten" => Len(Recent(order_times, Minute)) < max_orders_per_min

Allowed(i) ==
  /\ Rate(i)
  /\ i.reduce => positions[i.symbol] * i.qty < 0
  /\ Opening(i) =>
       /\ Absolute(i.qty) <= max_order_notional
       /\ Exposure(i)
       /\ positions[i.symbol] = 0 =>
            /\ Cardinality(Held) < max_positions
            /\ Len(Recent(position_times, Hour)) < max_new_positions_per_hour

Entries == {o \in resting : ~ o.reduce}
Bid == SumFunction([o \in Entries |-> Absolute(o.qty)])

(* What rests when an entry passes is what its check did not see; one      *)
(* against the position counts twice, as the position may be gone first.   *)
Unseen(i) == Bid + (IF positions[i.symbol] * i.qty < 0 THEN 2 * Absolute(i.qty) ELSE 0)
UnseenPositions(i) == Cardinality({o.symbol : o \in Entries} \ (Held \cup {i.symbol}))

(* A stop that protects has no quantity and closes what there is.          *)
Rests(i) ==
  IF i.purpose = "protect" THEN {}
  ELSE {[id |-> Len(sent), symbol |-> i.symbol, qty |-> i.qty, reduce |-> i.reduce]}

Place(i) ==
  /\ Len(sent) < MaxOrders
  /\ Allowed(i)
  /\ LET opens == ~ i.reduce /\ ~ i.algo /\ positions[i.symbol] = 0
     IN  /\ order_times' = Append(Recent(order_times, Minute), now)
         /\ position_times' = Recent(position_times, Hour) \o (IF opens THEN <<now>> ELSE <<>>)
         /\ sent' = Append(sent, [t |-> now, opens |-> opens])
  /\ resting' = resting \cup Rests(i)
  /\ slack' = IF Opening(i) THEN Max({slack, Unseen(i)}) ELSE slack
  /\ slackPositions' = IF Opening(i) THEN Max({slackPositions, UnseenPositions(i)}) ELSE slackPositions
  /\ UNCHANGED <<now, positions, crashes>>

-----------------------------------------------------------------------------
(* What happens between checks.                                            *)

(* An order is filled, a reduce-only one as far as there is a position.    *)
Filled(o) ==
  LET pos == positions[o.symbol]
      qty == IF ~ o.reduce THEN o.qty
             ELSE IF pos * o.qty >= 0 THEN 0
             ELSE IF Absolute(o.qty) > Absolute(pos) THEN -pos ELSE o.qty
  IN  /\ positions' = [positions EXCEPT ![o.symbol] = @ + qty]
      /\ resting' = resting \ {o}
      /\ UNCHANGED <<now, order_times, position_times, sent, slack, slackPositions, crashes>>

Cancelled(o) ==
  /\ resting' = resting \ {o}
  /\ UNCHANGED <<now, positions, order_times, position_times, sent, slack,
                 slackPositions, crashes>>

(* What nobody checks or counts takes from a position: a protective stop   *)
(* closes it, and an order of flatten, which goes straight to the OMS,     *)
(* as far as it is filled.                                                 *)
Closes(s, qty) ==
  /\ positions[s] * qty < 0 /\ Absolute(qty) <= Absolute(positions[s])
  /\ positions' = [positions EXCEPT ![s] = @ + qty]
  /\ UNCHANGED <<now, resting, order_times, position_times, sent, slack,
                 slackPositions, crashes>>

Tick ==
  /\ now < LastTick /\ now' = now + 1
  /\ UNCHANGED <<positions, resting, order_times, position_times, sent, slack,
                 slackPositions, crashes>>

(* The process dies: the times are in memory.                              *)
Crash ==
  /\ crashes < MaxCrashes /\ crashes' = crashes + 1
  /\ order_times' = <<>> /\ position_times' = <<>>
  /\ UNCHANGED <<now, positions, resting, sent, slack, slackPositions>>

(* What the bot, the canary and the drills place: entries, the dead-man    *)
(* drill's stop order that would open a position, exits, and the stops     *)
(* that protect.                                                           *)
Intents ==
  {[symbol |-> s, qty |-> q, purpose |-> "entry", reduce |-> FALSE, algo |-> FALSE] :
     s \in Symbols, q \in Signed}
  \cup {[symbol |-> s, qty |-> q, purpose |-> "drill", reduce |-> FALSE, algo |-> TRUE] :
          s \in Symbols, q \in Lots}
  \cup {[symbol |-> s, qty |-> -positions[s], purpose |-> "exit", reduce |-> TRUE, algo |-> FALSE] :
          s \in Held}
  \cup {[symbol |-> s, qty |-> 0, purpose |-> "protect", reduce |-> FALSE, algo |-> TRUE] :
          s \in Symbols}

Next ==
  \/ \E i \in Intents : Place(i)
  \/ \E o \in resting : Filled(o) \/ Cancelled(o)
  \/ \E s \in Symbols : \E qty \in Signed \cup {-positions[s]} : Closes(s, qty)
  \/ Tick \/ Crash

Spec == Init /\ [][Next]_vars

-----------------------------------------------------------------------------

(* Gross exposure and the number of positions exceed their limits by no    *)
(* more than what was resting, unseen, when some entry passed the check.   *)
WithinLimits ==
  /\ Gross <= max_gross_exposure + slack
  /\ Cardinality(Held) <= max_positions + slackPositions

InWindow(n, width) == {m \in 1..n : sent[n].t - sent[m].t <= width}

(* However the tasks interleave, place sends at most so many orders in any *)
(* minute, of whatever purpose, and opens at most so many positions in any *)
(* hour, in each process: one that was restarted has forgotten those it    *)
(* sent.                                                                   *)
RatesHold ==
  \A n \in DOMAIN sent :
    /\ Cardinality(InWindow(n, Minute)) <= max_orders_per_min * (1 + crashes)
    /\ sent[n].opens =>
         Cardinality({m \in InWindow(n, Hour) : sent[m].opens})
           <= max_new_positions_per_hour * (1 + crashes)

-----------------------------------------------------------------------------
(* Why they hold.                                                          *)

TypeOK ==
  /\ {now, slack, slackPositions, crashes} \subseteq Nat
  /\ positions \in [Symbols -> Int]
  /\ resting \subseteq [id : Nat, symbol : Symbols, qty : Int, reduce : BOOLEAN]
  /\ IsFiniteSet(resting)
  /\ order_times \in Seq(Nat) /\ position_times \in Seq(Nat)
  /\ sent \in Seq([t : Nat, opens : BOOLEAN])

(* Every order placed is known by its number, and is of the past.          *)
Numbered == \A o \in resting : o.id < Len(sent)
Past     == \A n \in DOMAIN sent : sent[n].t <= now

(* With all that rests, the limits are exceeded by no more.                *)
GrossIsKnown == Gross + Bid <= max_gross_exposure + slack
NumberIsKnown ==
  Cardinality(Held \cup {o.symbol : o \in Entries}) <= max_positions + slackPositions

(* How many of those sent from time u on, and of the times remembered.     *)
From(M, u) == Cardinality({m \in M : sent[m].t >= u})
Remembered(times, u) == Cardinality({i \in DOMAIN times : times[i] >= u})

(* The orders M that a limit counts: from any time in the window on, each  *)
(* process sent no more than the limit, and this one remembers them all.   *)
Counted(M, times, width, limit) ==
  \A u \in (now - width)..now :
    /\ From(M, u) <= limit * crashes + Remembered(times, u)
    /\ From(M, u) <= limit * crashes + limit

OrdersAreCounted ==
  /\ Counted(DOMAIN sent, order_times, Minute, max_orders_per_min)
  /\ Counted({m \in DOMAIN sent : sent[m].opens}, position_times, Hour, max_new_positions_per_hour)

RiskInv ==
  TypeOK /\ Numbered /\ Past /\ GrossIsKnown /\ NumberIsKnown /\ OrdersAreCounted /\ RatesHold

=============================================================================

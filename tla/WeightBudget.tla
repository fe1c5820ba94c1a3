---------------------------- MODULE WeightBudget ----------------------------
(***************************************************************************)
(* The weight budget of the REST clients (quanta.venues.binance_usdm       *)
(* .ratelimit, with the requests of rest and trade_rest): a request is let *)
(* through when the weight used in this minute, as far as is known, and    *)
(* the weight in flight leave room for it.  The exchange counts what it    *)
(* executes in minutes of its own clock and tells in each response.        *)
(* Responses come in any order, or not at all, and a request that was      *)
(* given up may still be executed.                                         *)
(*                                                                         *)
(* A request is on its way ("sent"), executed ("done", its header the      *)
(* count told), given up before it arrived ("late"), or over.              *)
(***************************************************************************)
EXTENDS Integers, FiniteSetsExt, Functions

CONSTANTS
  Requests,   \* bound: requests made
  Weight,     \* their weights: a function
  Limit,      \* the budget: a fraction of the exchange's limit
  Minutes,    \* ticks of a minute
  LastTick,   \* bound: ticks
  MaxSkew,    \* ticks the local clock is ahead of the exchange's at most
  MaxOthers   \* bound: weight others use on the same address

VARIABLES
  now, skew,
  window, used, in_flight, blocked,   \* of the budget
  req,
  count, own, lost,  \* exchange: weight of its minute, ours, and ours of requests given up
  others

(* The clocks are less than a minute apart: the trader halts at a second.  *)
BudgetAssumption ==
  /\ IsFiniteSet(Requests) /\ Weight \in [Requests -> Nat]
  /\ {Limit, LastTick, MaxSkew, MaxOthers} \subseteq Nat
  /\ Minutes \in Nat \ {0} /\ MaxSkew < Minutes

vars == <<now, skew, window, used, in_flight, blocked, req, count, own, lost, others>>

Init ==
  /\ now = 0 /\ skew \in 0..MaxSkew
  /\ window = 0 /\ used = 0 /\ in_flight = 0 /\ blocked = 0
  /\ req = [r \in Requests |-> [step |-> "idle", header |-> 0, minute |-> 0]]
  /\ count = 0 /\ own = 0 /\ lost = 0 /\ others = 0

Window(t) == t - (t % Minutes)

(* The exchange's clock is behind by the skew; its minute begins on it.    *)
Tick ==
  /\ now < LastTick
  /\ now' = now + 1
  /\ LET new == (now' - skew) % Minutes = 0 /\ now' >= skew
     IN  /\ count' = IF new THEN 0 ELSE count
         /\ own' = IF new THEN 0 ELSE own
         /\ lost' = IF new THEN 0 ELSE lost
  /\ UNCHANGED <<skew, window, used, in_flight, blocked, req, others>>

-----------------------------------------------------------------------------
(* The budget.  Every operation looks at the clock first.                  *)

Rolled == IF Window(now) = window THEN used ELSE 0

Roll == window' = Window(now)

(* Bug for the mutants: what is in flight is not counted.                  *)
FitsUsed(w) == Rolled + w <= Limit

Fits(w) == Rolled + in_flight + w <= Limit

(* acquire, when it gets through, and the request that follows at once.    *)
Acquire(r) ==
  /\ req[r].step = "idle"
  /\ now >= blocked /\ Fits(Weight[r])
  /\ Roll /\ used' = Rolled
  /\ in_flight' = in_flight + Weight[r]
  /\ req' = [req EXCEPT ![r].step = "sent"]
  /\ UNCHANGED <<blocked, count, own, lost>>

Landed(r) == Max({0, in_flight - Weight[r]})

(* Bug: the last header is taken, not the highest of the minute.           *)
ReleaseLast(r, header) ==
  /\ Roll /\ used' = header
  /\ in_flight' = Landed(r)

(* release: the highest count told in this minute.                         *)
Release(r, header) ==
  /\ Roll /\ used' = Max({Rolled, header})
  /\ in_flight' = Landed(r)

ReleaseUnanswered(r) ==
  /\ Roll /\ used' = Rolled + Weight[r]
  /\ in_flight' = Landed(r)

-----------------------------------------------------------------------------
(* The exchange, the network and the requests.                             *)

Minute(t) == (t - skew + Minutes) \div Minutes

Executed(r) ==
  /\ count' = count + Weight[r]
  /\ own' = own + Weight[r]

Execute(r) ==
  /\ req[r].step = "sent"
  /\ Executed(r)
  /\ req' = [req EXCEPT ![r] = [step |-> "done", header |-> count', minute |-> Minute(now)]]
  /\ UNCHANGED <<window, used, in_flight, blocked, lost>>

(* A response, of success or of an error; 429 and 418 close the gate.      *)
Respond(r) ==
  /\ req[r].step = "done"
  /\ Release(r, req[r].header)
  /\ blocked' \in {blocked, Max({blocked, now + Minutes})}
  /\ req' = [req EXCEPT ![r].step = "over"]
  /\ UNCHANGED <<count, own, lost>>

(* A timeout or a broken connection, before or after it was executed.      *)
GiveUp(r) ==
  /\ req[r].step \in {"sent", "done"}
  /\ ReleaseUnanswered(r)
  /\ req' = [req EXCEPT ![r].step = IF req[r].step = "sent" THEN "late" ELSE "over"]
  /\ lost' = IF req[r].step = "done" /\ req[r].minute = Minute(now) THEN lost + Weight[r] ELSE lost
  /\ UNCHANGED <<blocked, count, own>>

ArriveLate(r) ==
  /\ req[r].step = "late"
  /\ Executed(r)
  /\ lost' = lost + Weight[r]
  /\ req' = [req EXCEPT ![r].step = "over"]
  /\ UNCHANGED <<window, used, in_flight, blocked>>

Others ==
  /\ others < MaxOthers
  /\ others' = others + 1
  /\ count' = count + 1
  /\ UNCHANGED <<now, skew, window, used, in_flight, blocked, req, own, lost>>

RequestStep ==
  /\ \E r \in Requests :
       Acquire(r) \/ Execute(r) \/ Respond(r) \/ GiveUp(r) \/ ArriveLate(r)
  /\ UNCHANGED <<now, skew, others>>

Next == Tick \/ Others \/ RequestStep

Spec == Init /\ [][Next]_vars

-----------------------------------------------------------------------------

(* "We must never trigger 418": in a minute of the exchange we never use   *)
(* more than the budget, except for the requests among them that were given*)
(* up, whose weight a header may hide; and when the clocks disagree, never *)
(* more than twice the budget, which is the exchange's limit for a fraction*)
(* of one half.                                                            *)
WithinLimit == own <= lost + (IF skew = 0 THEN Limit ELSE 2 * Limit)

-----------------------------------------------------------------------------
(* Why it holds.                                                           *)

Ours(R) == SumFunctionOnSet(Weight, R)

TypeOK ==
  /\ {now, window, used, in_flight, blocked, count, own, lost, others} \subseteq Nat
  /\ skew \in 0..MaxSkew
  /\ req \in [Requests ->
       [step : {"idle", "sent", "done", "late", "over"}, header : Nat, minute : Int]]

Sent == {r \in Requests : req[r].step = "sent"}

Waiting == {r \in Requests : req[r].step \in {"sent", "done"}}

(* What is in flight is counted, and never more than the budget.           *)
FlightIsCounted == Ours(Waiting) <= in_flight /\ in_flight <= Limit

(* The local minute began within the exchange's: what was used before it   *)
(* is forgotten, and was within the budget.                                *)
Crossed == now % Minutes < (now - skew) % Minutes

Forgotten == IF Crossed THEN Limit ELSE 0

(* Executed in this minute, with a header beyond x that is on its way.     *)
Untold(x) ==
  {r \in Requests : req[r].step = "done" /\ req[r].minute = Minute(now) /\ req[r].header > x}

(* Whatever is taken for the weight used, so long as it is no less than    *)
(* what the headers told: the rest of what we used is in flight.           *)
Explained(x) == own <= lost + Forgotten + x + Ours(Untold(x))

UseIsKnown == own <= count /\ \A x \in Rolled .. (Rolled + count) : Explained(x)

(* With those that are on the way, too, the budget is kept.                *)
BudgetIsKept == own + Ours(Sent) <= lost + Limit + Forgotten

BudgetInv == TypeOK /\ FlightIsCounted /\ UseIsKnown /\ BudgetIsKept

=============================================================================

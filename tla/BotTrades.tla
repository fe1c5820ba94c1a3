----------------------------- MODULE BotTrades -----------------------------
(***************************************************************************)
(* A trade of the bot (quanta.bot.runner) on one contract: the decision    *)
(* loop places an entry, the manage loop takes the trade through its stop, *)
(* target and exit and closes positions it cannot explain, while the       *)
(* exchange fills orders and the user stream reports the fills to the      *)
(* store.  Every await of the two loops is a point where the others act.   *)
(* The process may crash or be stopped; trades.json and the store survive. *)
(*                                                                         *)
(* The broker (quanta.bot.broker) is the exchange's: an order it could not *)
(* place or learn the fate of has no id.  Prices, sizes and the journal of *)
(* closed trades are left out; a quantity is a number of lots.             *)
(***************************************************************************)
EXTENDS Integers, SequencesExt

CONSTANTS
  Plans,        \* bound: what the entries of a run order, in lots (with <<1, 3>> also <<1>>)
  MaxFaults,    \* bound: failures, crashes and shutdowns
  Kinds,        \* those that happen: "failures" (a request fails, a report is late),
                \* "crashes", "stops"
  MaxCloses,    \* bound: attempts to close before the trader is ready
  CloseOnExit,  \* the settings of close_on_exit
  None          \* no trade

ASSUME BotAssumption ==
  /\ Plans # {} /\ IsFiniteSet(Plans) /\ Plans \subseteq Seq(Nat \ {0})
  /\ MaxFaults \in Nat /\ Kinds \subseteq {"failures", "crashes", "stops"}
  /\ MaxCloses \in Nat /\ CloseOnExit \subseteq BOOLEAN

(* Two trades of a lot each, and one that may fill in parts.               *)
SmallPlans == {<<1>>, <<1, 1>>, <<3>>}

MaxTrades == Max({Len(plan) : plan \in Plans})
Lots      == Max(UNION {Range(plan) : plan \in Plans})

Roles  == {"entry", "stop", "target", "exit"}
Orders == (1..MaxTrades) \X Roles

VARIABLES
  ex,       \* exchange: the orders
  xpos,     \* exchange: the position, in lots
  reports,  \* user stream: events on their way
  seen,     \* store: what is known of the orders
  spos,     \* store: the position the fills add up to (after a crash some are missing)
  keys,     \* store: intent keys used
  saved,    \* trades.json
  trade,    \* memory: the trade, or None
  due,      \* its current deadline: set, not near yet, passed, and 30 s more
  entering, \* memory: the entry being placed (decision loop), or 0
  task,     \* memory: where the manage loop is: cancels to do, then a step
  phase,    \* the process: up, stopping, last, exits, down
  ready,    \* the trader has reconciled
  signals,  \* what the entries decided so far ordered
  faults

exchange == <<ex, xpos>>
store    == <<seen, spos, keys>>
process  == <<phase, ready, signals>>
vars     == <<exchange, reports, store, saved, trade, due, entering, task, process, faults>>

NoFaults == [failures |-> 0, crashes |-> 0, stops |-> 0]
Idle     == [pc |-> "idle", todo |-> <<>>, pos |-> 0, tries |-> 0]
Then(pc, todo) == [Idle EXCEPT !.pc = pc, !.todo = todo]
NewTrade(n) == [n |-> n, state |-> "entry", stop |-> FALSE, target |-> FALSE, exit |-> FALSE,
                closes |-> 0]

Init ==
  /\ ex = [o \in Orders |-> [live |-> FALSE, left |-> 0, filled |-> 0]]
  /\ xpos = 0
  /\ reports = <<>>
  /\ seen = [o \in Orders |-> [done |-> FALSE, filled |-> FALSE]]
  /\ spos = 0
  /\ keys = {}
  /\ saved = None /\ trade = None
  /\ due = "no"
  /\ entering = 0
  /\ task = Idle
  /\ phase = "up" /\ ready = FALSE
  /\ signals = <<>>
  /\ faults = NoFaults

Faults == faults.failures + faults.crashes + faults.stops
Fault(kind) ==
  /\ kind \in Kinds /\ Faults < MaxFaults
  /\ faults' = [faults EXCEPT ![kind] = @ + 1]
Fails == Fault("failures")

Passed == due \in {"due", "late"}

Own(role) == <<trade.n, role>>
Size == IF spos < 0 THEN -spos ELSE spos

(* _cancel: the orders whose ids the trade has.                            *)
Known(roles) == SelectSeq(roles, LAMBDA r : r = "entry" \/ trade[r])

-----------------------------------------------------------------------------
(* The exchange and the user stream.                                       *)

Report(o, qty, done) == reports' = Append(reports, [order |-> o, qty |-> qty, done |-> done])

Resting(left) == [live |-> TRUE, left |-> left, filled |-> 0]

FillLot(o) ==
  /\ ex[o].live /\ o[2] # "stop"
  /\ o[2] # "entry" => xpos > 0
  /\ LET qty == IF o[2] = "entry" THEN 1 ELSE -1
         end == ex[o].left = 1
     IN  /\ ex' = [ex EXCEPT ![o] = [live |-> ~ end, left |-> @.left - 1, filled |-> @.filled + 1]]
         /\ xpos' = xpos + qty
         /\ Report(o, qty, end)

(* A stop closes the position.                                             *)
FireStop(o) ==
  /\ ex[o].live /\ o[2] = "stop" /\ xpos > 0
  /\ ex' = [ex EXCEPT ![o] = [live |-> FALSE, left |-> 0, filled |-> xpos]]
  /\ xpos' = 0
  /\ Report(o, -xpos, TRUE)

(* The dead man's switch cancels an entry nobody renews.                   *)
Lapse(o) ==
  /\ ex[o].live /\ o[2] = "entry"
  /\ phase = "down"
  /\ ex' = [ex EXCEPT ![o].live = FALSE]
  /\ UNCHANGED <<xpos, reports>>

ExchangeStep ==
  /\ \E o \in Orders : FillLot(o) \/ FireStop(o) \/ Lapse(o)
  /\ UNCHANGED <<store, saved, trade, due, entering, task, process, faults>>

Truth(o) == [done |-> ~ ex[o].live, filled |-> ex[o].filled > 0]

(* An event reaches the store: the fill, and what became of the order.     *)
Deliver ==
  /\ phase # "down" /\ reports # <<>>
  /\ LET r == Head(reports)
     IN  /\ spos' = spos + r.qty
         /\ seen' = IF r.order = None THEN seen
                    ELSE [seen EXCEPT ![r.order] =
                            [done |-> @.done \/ r.done, filled |-> @.filled \/ r.qty # 0]]
  /\ reports' = Tail(reports)
  /\ UNCHANGED <<exchange, keys, saved, trade, due, entering, task, process, faults>>

(* Startup: the store takes over what the exchange says.                   *)
Reconcile ==
  /\ phase # "down" /\ ~ ready /\ reports = <<>>
  /\ ready' = TRUE
  /\ spos' = xpos
  /\ seen' = [o \in Orders |-> IF ex[o].live \/ ex[o].left + ex[o].filled > 0
                               THEN Truth(o) ELSE seen[o]]
  /\ UNCHANGED <<exchange, reports, keys, saved, trade, due, entering, task, phase, signals, faults>>

-----------------------------------------------------------------------------
(* Requests of the bot.                                                    *)

(* cancel: it works, or the order was done already and how it ended is     *)
(* learned; or the request fails, and nobody asks whether it did.          *)
Cancel(o) ==
  \/ /\ ex' = [ex EXCEPT ![o].live = FALSE]
     /\ seen' = [seen EXCEPT ![o] = [done |-> TRUE, filled |-> ex[o].filled > 0]]
     /\ UNCHANGED <<reports, faults>>
  \/ /\ Fails
     /\ \/ UNCHANGED <<ex, reports>>
        \/ ex[o].live /\ ex' = [ex EXCEPT ![o].live = FALSE] /\ Report(o, 0, TRUE)
     /\ UNCHANGED seen

(* A reduce-only post-only limit for task.pos lots: it rests, or it is     *)
(* refused, or what became of it is not known.                             *)
PlaceReducing(o, ok) ==
  /\ keys' = IF spos > 0 THEN keys \cup {o} ELSE keys
  /\ \/ /\ ok /\ o \notin keys /\ spos > 0 /\ xpos > 0
        /\ ex' = [ex EXCEPT ![o] = Resting(task.pos)]
        /\ UNCHANGED faults
     \/ ~ ok /\ UNCHANGED <<ex, faults>>
     \/ /\ ~ ok /\ o \notin keys /\ spos > 0 /\ xpos > 0
        /\ ex' = [ex EXCEPT ![o] = Resting(task.pos)]
        /\ Fails

-----------------------------------------------------------------------------
(* The decision loop.                                                      *)

Decided(plan) ==
  /\ signals' = plan
  /\ entering' = Len(plan)
  /\ ex' = [ex EXCEPT ![<<entering', "entry">>] = Resting(Last(plan))]

(* Bug for the mutants: a symbol with a trade gets another entry.          *)
OpenAgain ==
  /\ phase = "up" /\ ready
  /\ entering = 0
  /\ \E plan \in Plans : signals = Front(plan) /\ Decided(plan)
  /\ UNCHANGED <<xpos, reports, store, saved, trade, due, task, phase, ready, faults>>

(* open: a symbol without a trade; the entry is sent ...                   *)
Open ==
  /\ phase = "up" /\ ready
  /\ entering = 0 /\ trade = None
  /\ \E plan \in Plans : signals = Front(plan) /\ Decided(plan)
  /\ UNCHANGED <<xpos, reports, store, saved, trade, due, task, phase, ready, faults>>

(* ... and the trade is kept when it is accepted, but not when its fate is *)
(* not known.                                                              *)
Opened ==
  /\ entering # 0 /\ phase # "down"
  /\ entering' = 0
  /\ \/ trade' = NewTrade(entering) /\ saved' = trade' /\ due' = "set" /\ UNCHANGED faults
     \/ Fails /\ UNCHANGED <<saved, trade, due>>
  /\ UNCHANGED <<exchange, reports, store, task, process>>

-----------------------------------------------------------------------------
(* The manage loop: the beginning of a step ...                            *)

At(pc) == task.pc = pc /\ task.todo = <<>>

(* Bug: the stop is left to the exchange.                                  *)
FinishKeepsStop == Then("finish", Known(<<"entry", "target", "exit">>))

Finish == Then("finish", Known(<<"entry", "stop", "target", "exit">>))

(* Bug: the fill report is not waited for.                                 *)
SettleAtOnce ==
  \/ spos # 0 /\ task' = [Then("stop", <<>>) EXCEPT !.pos = Size]
  \/ spos = 0 /\ task' = Finish

(* An entry that is over: its position is protected, or its fill report    *)
(* is waited for, or there is no trade.                                    *)
Settle ==
  LET waits == seen[Own("entry")].filled /\ due # "late"
  IN  \/ spos # 0 /\ task' = [Then("stop", <<>>) EXCEPT !.pos = Size]
      \/ spos = 0 /\ waits /\ task' = Idle
      \/ spos = 0 /\ ~ waits /\ task' = Finish

(* Bug: an entry that filled in part is taken for one that is over.        *)
StepEntryInPart ==
  /\ trade.state = "entry"
  /\ \/ (seen[Own("entry")].done \/ spos # 0) /\ Settle
     \/ /\ ~ seen[Own("entry")].done
        /\ Passed \/ phase # "up"
        /\ task' = Then("settle", <<"entry">>)

StepEntry ==
  /\ trade.state = "entry"
  /\ \/ seen[Own("entry")].done /\ Settle
     \/ /\ ~ seen[Own("entry")].done
        /\ Passed \/ phase # "up"
        /\ task' = Then("settle", <<"entry">>)

StepFlat == trade.state # "entry" /\ spos = 0 /\ task' = Finish

(* Bug: the stop is cancelled together with the target.                    *)
HoldElapsedUnstops ==
  /\ trade.state = "open" /\ spos # 0 /\ Passed
  /\ task' = [Then("exit", Known(<<"stop", "target">>)) EXCEPT !.pos = Size]

HoldElapsed ==
  /\ trade.state = "open" /\ spos # 0 /\ Passed
  /\ task' = [Then("exit", Known(<<"target">>)) EXCEPT !.pos = Size]

(* Bug: one attempt to close is made.                                      *)
ExitElapsedOnce ==
  /\ trade.state = "exit" /\ spos # 0
  /\ Passed \/ ~ trade.exit
  /\ trade.closes = 0
  /\ task' = Then("close", Known(<<"exit", "target">>))

ExitElapsed ==
  /\ trade.state = "exit" /\ spos # 0
  /\ Passed \/ ~ trade.exit
  /\ ready \/ trade.closes < MaxCloses
  /\ task' = Then("close", Known(<<"exit", "target">>))

(* A step belongs to the loop, to the last look at an entry during a       *)
(* shutdown, or to the three attempts to close that follow it.             *)
Follow == [up |-> "up", stopping |-> "last", exits3 |-> "exits2", exits2 |-> "exits1",
           exits1 |-> "exits0"]

BeginStep ==
  /\ task = Idle /\ trade # None
  /\ phase \in DOMAIN Follow
  /\ phase = "stopping" => trade.state = "entry"
  /\ StepEntry \/ StepFlat \/ HoldElapsed \/ ExitElapsed
  /\ phase' = Follow[phase]
  /\ UNCHANGED <<exchange, reports, store, saved, trade, due, entering, ready, signals, faults>>

(* Bug: positions are looked at before the first entry only.               *)
AdoptOrphanOnce ==
  /\ phase = "up" /\ ready
  /\ task = Idle /\ trade = None /\ spos # 0
  /\ signals = <<>>
  /\ task' = Then("orphan", <<>>)
  /\ UNCHANGED <<exchange, reports, store, saved, trade, due, entering, process, faults>>

(* adopt_orphans: a position without a trade is closed.                    *)
AdoptOrphan ==
  /\ phase = "up" /\ ready
  /\ task = Idle /\ trade = None /\ spos # 0
  /\ task' = Then("orphan", <<>>)
  /\ UNCHANGED <<exchange, reports, store, saved, trade, due, entering, process, faults>>

-----------------------------------------------------------------------------
(* ... and what follows its awaits.                                        *)

CancelNext ==
  /\ task.todo # <<>>
  /\ task' = [task EXCEPT !.todo = Tail(@)]
  /\ LET o == Own(Head(task.todo))
     IN  IF seen[o].done THEN UNCHANGED <<ex, seen, reports, faults>> ELSE Cancel(o)
  /\ UNCHANGED <<xpos, keys, saved, trade, due>>

SettleEntry ==
  /\ At("settle") /\ Settle
  /\ UNCHANGED <<exchange, reports, seen, keys, saved, trade, due, faults>>

(* _on_filled: the stop; without one the position is to be closed ...      *)
PlaceStop ==
  /\ At("stop")
  /\ LET o == Own("stop")
         placed == ex' = [ex EXCEPT ![o] = Resting(1)]
     IN  /\ keys' = keys \cup {o}
         /\ \/ /\ o \notin keys /\ placed
               /\ trade' = [trade EXCEPT !.stop = TRUE]
               /\ task' = [task EXCEPT !.pc = "target"]
               /\ UNCHANGED <<saved, due, faults>>
            \/ /\ \/ o \in keys /\ UNCHANGED <<ex, faults>>
                  \/ o \notin keys /\ Fails /\ (placed \/ UNCHANGED ex)
               /\ trade' = [trade EXCEPT !.state = "exit"]
               /\ saved' = trade' /\ due' = "due"
               /\ task' = Idle
  /\ UNCHANGED <<xpos, reports, seen>>

(* ... and the target.                                                     *)
PlaceTarget ==
  /\ At("target")
  /\ \E ok \in BOOLEAN :
       PlaceReducing(Own("target"), ok) /\ trade' = [trade EXCEPT !.state = "open", !.target = ok]
  /\ saved' = trade' /\ due' = "set"
  /\ task' = Idle
  /\ UNCHANGED <<xpos, reports, seen>>

PlaceExit ==
  /\ At("exit")
  /\ \E ok \in BOOLEAN :
       PlaceReducing(Own("exit"), ok) /\ trade' = [trade EXCEPT !.state = "exit", !.exit = ok]
  /\ saved' = trade' /\ due' = "set"
  /\ task' = Idle
  /\ UNCHANGED <<xpos, reports, seen>>

Close ==
  /\ At("close")
  /\ trade' = [trade EXCEPT !.closes = @ + 1]
  /\ task' = Then("closing", <<>>)
  /\ UNCHANGED <<exchange, reports, seen, keys, saved, due, faults>>

(* Bug: the order is not reduce-only.                                      *)
ReducibleAny == Size

(* What a reduce-only order for the position of the store can close.       *)
Reducible == IF spos > 0 THEN Min({spos, xpos}) ELSE 0

(* close_position: an IOC, then MARKET for the remainder.                  *)
CloseOrder ==
  /\ task.pc \in {"closing", "orphan"} /\ task.tries < 2
  /\ spos # 0
  /\ task' = [task EXCEPT !.tries = @ + 1]
  /\ LET key  == <<trade.n, "close", trade.closes, task.tries>>
         used == task.pc = "closing" /\ key \in keys
     IN  /\ keys' = IF task.pc = "closing" THEN keys \cup {key} ELSE keys
         /\ \/ /\ ~ used /\ UNCHANGED faults
               /\ \E qty \in IF task.tries = 0 THEN 0..Reducible ELSE {Reducible} :
                    /\ xpos' = xpos - qty
                    /\ IF qty = 0 THEN UNCHANGED reports ELSE Report(None, -qty, TRUE)
            \/ used /\ UNCHANGED <<xpos, reports, faults>>
            \/ ~ used /\ Fails /\ UNCHANGED <<xpos, reports>>
  /\ UNCHANGED <<ex, seen, saved, trade, due>>

(* The position has to be seen closed; the fills may be late.              *)
CloseReturns ==
  /\ task.pc \in {"closing", "orphan"}
  /\ \/ spos = 0 /\ UNCHANGED faults
     \/ spos # 0 /\ task.tries = 2 /\ IF reports = <<>> THEN UNCHANGED faults ELSE Fails
  /\ task' = IF task.pc = "closing" /\ spos = 0 THEN Finish ELSE Idle
  /\ UNCHANGED <<exchange, reports, seen, keys, saved, trade, due>>

(* _finish, after the cancels.                                             *)
Forget ==
  /\ At("finish")
  /\ trade' = None /\ saved' = None /\ due' = "no"
  /\ task' = Idle
  /\ UNCHANGED <<exchange, reports, seen, keys, faults>>

GoOn ==
  /\ phase # "down"
  /\ \/ CancelNext \/ SettleEntry \/ PlaceStop \/ PlaceTarget \/ PlaceExit
     \/ Close \/ CloseOrder \/ CloseReturns \/ Forget
  /\ UNCHANGED <<spos, entering, process>>

-----------------------------------------------------------------------------
(* Time, crashes, shutdown, restart.                                       *)

(* The deadline of the entry, the hold or the exit is minutes away: when   *)
(* it passes, what was on its way when it was set, a report or a close of  *)
(* the manage loop, has long arrived or ended, or that is a failure.  Then *)
(* 30 s: in less an entry is cancelled and a fill reported.                *)
Tick ==
  /\ trade # None \/ saved # None
  /\ \/ /\ due = "set" /\ due' = "no"
        /\ IF reports = <<>> /\ task = Idle THEN UNCHANGED faults ELSE Fails
     \/ due = "no" /\ due' = "due" /\ UNCHANGED faults
     \/ /\ due = "due" /\ due' = "late"
        /\ IF \/ reports # <<>>
              \/ trade # None /\ ex[Own("entry")].live
           THEN Fails ELSE UNCHANGED faults
  /\ UNCHANGED <<exchange, reports, store, saved, trade, entering, task, process>>

Dies ==
  /\ phase' = "down" /\ ready' = FALSE
  /\ reports' = <<>>
  /\ trade' = None /\ entering' = 0 /\ task' = Idle
  /\ UNCHANGED <<exchange, store, signals>>

Crash ==
  /\ phase # "down"
  /\ Fault("crashes")
  /\ Dies
  /\ UNCHANGED <<saved, due>>

Stop ==
  /\ phase = "up"
  /\ Fault("stops")
  /\ phase' = "stopping"
  /\ UNCHANGED <<exchange, reports, store, saved, trade, due, entering, task, ready, signals>>

NoLastStep ==
  /\ phase = "stopping" /\ task = Idle /\ entering = 0
  /\ trade # None => trade.state # "entry"
  /\ phase' = "last"
  /\ UNCHANGED <<exchange, reports, store, saved, trade, due, entering, task, ready, signals, faults>>

(* close_on_exit: the trade is to be closed now.                           *)
CloseNow ==
  /\ phase = "last" /\ task = Idle
  /\ TRUE \in CloseOnExit /\ trade # None
  /\ trade' = [trade EXCEPT !.state = "exit", !.exit = FALSE]
  /\ due' = "due"
  /\ phase' = "exits3"
  /\ UNCHANGED <<exchange, reports, store, saved, entering, task, ready, signals, faults>>

(* The loops and the shutdown are over: the trades are saved.              *)
Exit ==
  /\ task = Idle
  /\ \/ phase = "last" /\ (FALSE \in CloseOnExit \/ trade = None)
     \/ phase = "exits0"
     \/ phase \in {"exits1", "exits2"} /\ trade = None
  /\ saved' = trade
  /\ Dies
  /\ UNCHANGED <<due, faults>>

(* A restart resumes the trades that were saved.                           *)
Start ==
  /\ phase = "down"
  /\ phase' = "up"
  /\ trade' = saved
  /\ UNCHANGED <<exchange, reports, store, saved, due, entering, task, ready, signals, faults>>

-----------------------------------------------------------------------------

Bot == BeginStep \/ GoOn \/ AdoptOrphan
Shutdown == NoLastStep \/ CloseNow \/ Exit

Next ==
  \/ ExchangeStep \/ Deliver \/ Reconcile
  \/ Open \/ Opened \/ Bot
  \/ Tick \/ Crash \/ Stop \/ Shutdown \/ Start

Spec == Init /\ [][Next]_vars

(* The loops go on (the shutdown takes over from the manage loop),         *)
(* requests are answered, reports arrive, time passes.                     *)
FairSpec ==
  /\ Spec
  /\ WF_vars(Deliver \/ Reconcile)
  /\ WF_vars(Opened) /\ WF_vars(Bot \/ Shutdown)
  /\ WF_vars(Tick)

-----------------------------------------------------------------------------
(* Properties.                                                             *)

TypeOK ==
  /\ ex \in [Orders -> [live : BOOLEAN, left : 0..Lots, filled : 0..Lots]]
  /\ xpos \in 0..MaxTrades * Lots
  /\ \A i \in DOMAIN reports : reports[i].order \in Orders \cup {None}
  /\ seen \in [Orders -> [done : BOOLEAN, filled : BOOLEAN]]
  /\ spos \in -(MaxTrades * Lots)..MaxTrades * Lots
  /\ \A t \in {trade, saved} \ {None} :
       t \in [n : 1..MaxTrades, state : {"entry", "open", "exit"}, stop : BOOLEAN,
              target : BOOLEAN, exit : BOOLEAN, closes : Nat]
  /\ due \in {"no", "set", "due", "late"}
  /\ entering \in 0..MaxTrades
  /\ task.pc \in {"idle", "settle", "stop", "target", "exit", "close", "closing", "orphan",
                  "finish"}
  /\ phase \in {"up", "stopping", "last", "exits3", "exits2", "exits1", "exits0", "down"}
  /\ ready \in BOOLEAN

(* A trade that is given up as over leaves no position behind, also when   *)
(* its entry filled in parts while adopt_orphans was closing ...           *)
FinishIsFlat == (faults = NoFaults /\ task.pc = "finish") => xpos = 0

(* ... and a trade that is over leaves no order behind; "Ctrl+C cancels    *)
(* entries": after a shutdown none can fill any more.                      *)
Clean == faults.failures = 0 /\ faults.crashes = 0
NothingLeft ==
  /\ (faults = NoFaults /\ trade = None /\ entering = 0) => \A o \in Orders : ~ ex[o].live
  /\ (Clean /\ phase = "down") => \A n \in 1..MaxTrades : ~ ex[<<n, "entry">>].live

(* The entries that may still fill and the position together never exceed  *)
(* what one trade planned.                                                 *)
Pending(o) == IF o[2] = "entry" /\ ex[o].live THEN ex[o].left ELSE 0
Exposure ==
  (faults = NoFaults /\ signals # <<>>) => xpos + MapThenSumSet(Pending, Orders) <= Last(signals)

(* The three together.                                                     *)
TradesEndFlat == FinishIsFlat /\ NothingLeft /\ Exposure

(* The stop of an open trade stays at the exchange as long as it holds a   *)
(* position, also when the entry fills in parts and adopt_orphans sells    *)
(* some of them, and over one failure, crash or shutdown.                  *)
StopStays ==
  (/\ Faults <= 1
   /\ trade # None /\ task.pc # "finish"
   /\ trade.state = "open" /\ xpos > 0 /\ ex[Own("stop")].filled = 0) => ex[Own("stop")].live

(* "... otherwise their stops stay at the exchange".                       *)
LeftWithStop ==
  (Clean /\ phase = "down" /\ xpos > 0) => \E n \in 1..MaxTrades : ex[<<n, "stop">>].live

(* A shutdown that closes leaves no order that could trade later.          *)
LeftWithoutOrders ==
  (Clean /\ phase = "down" /\ xpos = 0) => \A o \in Orders : ~ ex[o].live

(* "not filled: cancelled, no trade": an entry that rests has its trade.   *)
EntryHasTrade ==
  (phase = "up" /\ entering = 0) =>
    \A n \in 1..MaxTrades : ex[<<n, "entry">>].live => trade # None /\ trade.n = n

(* "A restart resumes them": a trade is not given up while it has a        *)
(* position.                                                               *)
Resumes == task.pc = "finish" => xpos = 0

(* A position gets its stop, or is closed, as long as the bot runs.        *)
Guarded ==
  xpos > 0 ~> (xpos = 0 \/ (\E n \in 1..MaxTrades : ex[<<n, "stop">>].live) \/ phase # "up")

(* Every trade comes to an end.                                            *)
Ends == trade # None ~> (trade = None \/ phase # "up")

(* Both: no trade and no position is forgotten while the bot runs.         *)
NothingForgotten == Guarded /\ Ends

=============================================================================

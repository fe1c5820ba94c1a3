------------------------------ MODULE DeadMan ------------------------------
(***************************************************************************)
(* The dead-man switch of one symbol (Trader.deadman in trader.service,    *)
(* drill_deadman in trader.drills): the exchange cancels the symbol's      *)
(* orders when a countdown runs out, which the trader's loop renews while  *)
(* its store has an entry open.  The demo account runs drills and no exit  *)
(* rests there; the bot's account is the other way round.                  *)
(***************************************************************************)
EXTENDS Integers

CONSTANTS
  Renew,          \* deadman_renew_s
  Countdown,      \* deadman_ms
  DrillCountdown, \* deadman_countdown_ms, of the drill
  Delay,          \* bound: how late a pass of the loop ends
  Accounts,       \* whether exits rest on the book, with the bounds: drills, faults, entries
  LastTick        \* bound

(* What the constants must be.                                             *)
DeadManAssumption ==
  /\ {Renew, Countdown, DrillCountdown, LastTick} \subseteq Nat
  /\ Delay \in Nat \ {0}
  /\ Accounts \subseteq [exits : BOOLEAN, drills : Nat, faults : Nat, entries : Nat]
  /\ Renew + 3 * Delay < Countdown   \* between two renewals, with a drill about to begin

VARIABLES
  now,
  down,    \* when the trader died, 0 while it runs
  last,    \* memory: the last pass that renewed
  on,      \* memory: _deadman_on
  ask,     \* memory: the request under way, and whether the exchange has executed it
  drill,   \* memory: where the drill is, and when it set its countdown; it holds the symbol
  row,     \* store: an entry is open
  book,    \* exchange: the kinds of orders that rest
  holding, \* exchange: there is a position
  timer,   \* exchange: when the countdown runs out, 0 if it is off
  cut,     \* history: kinds of orders the switch cancelled under a trader that was well
  clear,   \* history: since when an entry rests, and nothing kept the loop from covering it
  excuse,  \* history: a countdown the loop does not know of may run
  left     \* the account, and what is left of its bounds

memory  == <<last, on, ask, drill>>
account == <<book, holding>>
history == <<cut, clear, excuse>>
vars    == <<now, down, memory, row, account, timer, history, left>>

NoAsk   == [what |-> "none", done |-> FALSE]
NoDrill == [at |-> "none", since |-> 0]
Hold    == drill.at # "none"

Init ==
  /\ now = 1 /\ down = 0
  /\ last = 1 - Renew /\ on = FALSE /\ ask = NoAsk /\ drill = NoDrill
  /\ row = FALSE /\ book = {} /\ holding = FALSE /\ timer = 0
  /\ cut = {} /\ clear = 1 /\ excuse = FALSE
  /\ left \in Accounts

Spend(what) == left[what] > 0 /\ left' = [left EXCEPT ![what] = @ - 1]

Fault == Spend("faults")

-----------------------------------------------------------------------------
(* The orders of the symbol.                                               *)

PlaceEntry ==
  /\ down = 0 /\ ~ row /\ ~ holding /\ "entry" \notin book
  /\ Spend("entries")
  /\ row' = TRUE /\ book' = book \cup {"entry"} /\ clear' = now
  /\ UNCHANGED <<now, down, memory, holding, timer, cut, excuse>>

CancelEntry ==
  /\ down = 0 /\ "entry" \in book
  /\ row' = FALSE /\ book' = book \ {"entry"}
  /\ UNCHANGED <<now, down, memory, holding, timer, history, left>>

EntryFills ==
  /\ "entry" \in book
  /\ book' = book \ {"entry"} /\ holding' = TRUE
  /\ UNCHANGED <<now, down, memory, row, timer, history, left>>

(* The stream tells that the entry was filled or cancelled.                *)
Told ==
  /\ down = 0 /\ row /\ "entry" \notin book
  /\ row' = FALSE
  /\ UNCHANGED <<now, down, memory, account, timer, history, left>>

PlaceExit ==
  /\ left.exits /\ down = 0 /\ holding /\ ~ row /\ "exit" \notin book
  /\ book' = book \cup {"exit"}
  /\ UNCHANGED <<now, down, memory, row, holding, timer, history, left>>

(* The position is closed by the exit, or in another way.                  *)
PositionCloses ==
  /\ holding /\ ("exit" \in book \/ ~ left.exits)
  /\ holding' = FALSE /\ book' = book \ {"exit"}
  /\ UNCHANGED <<now, down, memory, row, timer, history, left>>

-----------------------------------------------------------------------------
(* The loop.                                                               *)

Due == now - last >= Renew

(* Bug for the mutants: a countdown that was set is not renewed.           *)
NeededOnce == row /\ ~ on

Needed == row

(* Bug: it is never turned off.                                            *)
NeverIdle == FALSE

Idle == on /\ ~ row

Pass ==
  /\ down = 0 /\ Due /\ ask = NoAsk
  /\ IF ~ Hold /\ Needed THEN ask' = [what |-> "arm", done |-> FALSE] /\ UNCHANGED last
     ELSE IF ~ Hold /\ Idle THEN ask' = [what |-> "off", done |-> FALSE] /\ UNCHANGED last
     ELSE last' = now /\ UNCHANGED ask
  /\ UNCHANGED <<now, down, on, drill, row, account, timer, history, left>>

(* countdownCancelAll at the exchange, and its answer.                     *)
Execute ==
  /\ ask.what # "none" /\ ~ ask.done
  /\ ask' = [ask EXCEPT !.done = TRUE]
  /\ timer' = IF ask.what = "arm" THEN now + Countdown ELSE 0
  /\ excuse' = (excuse /\ Hold)
  /\ UNCHANGED <<now, down, last, on, drill, row, account, cut, clear, left>>

Answer ==
  /\ ask.done
  /\ ask' = NoAsk /\ on' = (ask.what = "arm") /\ last' = now
  /\ UNCHANGED <<now, down, drill, row, account, timer, history, left>>

(* The request fails, executed or not: the pass is repeated.               *)
RequestFails ==
  /\ ask.what # "none" /\ Fault
  /\ ask' = NoAsk /\ excuse' = TRUE
  /\ UNCHANGED <<now, down, last, on, drill, row, account, timer, cut, clear>>

Crash ==
  /\ down = 0 /\ Fault
  /\ down' = now /\ on' = FALSE /\ ask' = NoAsk /\ drill' = NoDrill
  /\ excuse' = TRUE
  /\ clear' = IF Hold THEN now ELSE clear
  /\ UNCHANGED <<now, last, row, account, timer, cut>>

(* Start-up reconciles before the first pass.                              *)
Restart ==
  /\ down > 0
  /\ down' = 0 /\ last' = now - Renew
  /\ row' = ("entry" \in book) /\ clear' = now
  /\ UNCHANGED <<now, on, ask, drill, account, timer, cut, excuse, left>>

-----------------------------------------------------------------------------
(* The drill: an order of its own, its short countdown, and a look at what *)
(* is left; then everything is cancelled and the countdown turned off.     *)
DrillPlaces ==
  /\ down = 0 /\ ~ Hold
  /\ Spend("drills")
  /\ drill' = [at |-> "placed", since |-> now]
  /\ book' = book \cup {"drill"}
  /\ UNCHANGED <<now, down, last, on, ask, row, holding, timer, history>>

DrillArms ==
  /\ drill.at = "placed"
  /\ drill' = [at |-> "armed", since |-> now]
  /\ timer' = now + DrillCountdown /\ excuse' = TRUE
  /\ UNCHANGED <<now, down, last, on, ask, row, account, cut, clear, left>>

(* Bug: the symbol stays with the drill.                                   *)
DrillKeeps ==
  /\ drill.at = "armed" /\ now > drill.since + DrillCountdown
  /\ book' = {} /\ timer' = 0 /\ excuse' = FALSE /\ clear' = now
  /\ drill' = [at |-> "kept", since |-> 0]
  /\ UNCHANGED <<now, down, last, on, ask, row, holding, cut, left>>

DrillEnds ==
  /\ drill.at = "armed" /\ now > drill.since + DrillCountdown
  /\ book' = {} /\ timer' = 0 /\ excuse' = FALSE /\ clear' = now
  /\ drill' = NoDrill
  /\ UNCHANGED <<now, down, last, on, ask, row, holding, cut, left>>

(* One of its requests fails: the orders may be cancelled by then, and     *)
(* the countdown stays as it is.                                           *)
DrillFails ==
  /\ Hold /\ Fault
  /\ \/ UNCHANGED book
     \/ drill.at = "armed" /\ book' = {}
  /\ drill' = NoDrill /\ excuse' = TRUE /\ clear' = now
  /\ UNCHANGED <<now, down, last, on, ask, row, holding, timer, cut>>

-----------------------------------------------------------------------------

Expired == timer # 0 /\ now >= timer

(* The countdown has run out: every order of the symbol is cancelled.      *)
Expire ==
  /\ Expired
  /\ book' = {} /\ timer' = 0
  /\ cut' = IF excuse THEN cut ELSE cut \cup book
  /\ UNCHANGED <<now, down, memory, row, holding, clear, excuse, left>>

(* Time passes; the loop and the drill keep up with it.                    *)
Tick ==
  /\ now < LastTick /\ ~ Expired
  /\ down = 0 => now < last + Renew + Delay
  /\ drill.at = "placed" => now < drill.since + Delay
  /\ drill.at = "armed" => now <= drill.since + DrillCountdown
  /\ now' = now + 1
  /\ UNCHANGED <<down, memory, row, account, timer, history, left>>

Next ==
  \/ PlaceEntry \/ CancelEntry \/ EntryFills \/ Told \/ PlaceExit \/ PositionCloses
  \/ Pass \/ Execute \/ Answer \/ RequestFails \/ Crash \/ Restart
  \/ DrillPlaces \/ DrillArms \/ DrillEnds \/ DrillFails
  \/ Expire \/ Tick

Spec == Init /\ [][Next]_vars

-----------------------------------------------------------------------------
(* A pass that turns the countdown off, and the next one that arms it.     *)
CoverTime == Renew + 2 * Delay

(* An entry that had rested for one renewal when the trader died is gone   *)
(* from the book when a countdown has passed since.                        *)
AbandonedEntriesEnd ==
  down > clear + CoverTime /\ now > down + Countdown => "entry" \notin book

(* What a drill may take from one of its steps to the next.                *)
DrillTime == DrillCountdown + Delay

(* The same while the trader lives, where the end of the countdown is in   *)
(* the future: the entry is covered, but for the time of a drill.          *)
EntriesAreCovered ==
  /\ down = 0 /\ "entry" \in book /\ now > clear + CoverTime
  /\ Hold => now > drill.since + DrillTime
  => timer > 0

(* The switch cancels nothing under a trader that is alive and whose       *)
(* requests are answered: neither the entry it covers, nor an exit that    *)
(* rests after the entry was filled.                                       *)
NothingIsCut == cut = {}

-----------------------------------------------------------------------------
(* What makes them hold.                                                   *)

Asks   == [what : {"none", "arm", "off"}, done : BOOLEAN]
Drills == [at : {"none", "placed", "armed"}, since : Nat]
Bounds == [exits : BOOLEAN, drills : Nat, faults : Nat, entries : Nat]

Times == {now, down, clear, timer} \subseteq Nat /\ last \in Int

TypeOK ==
  Times /\ ask \in Asks /\ drill \in Drills /\ left \in Bounds /\ book \subseteq {"entry", "exit", "drill"}

(* Nothing lies in the future but the end of the countdown.                *)
Past ==
  /\ last <= now /\ down <= now /\ drill.since <= now /\ 0 < clear /\ clear <= now
  /\ timer # 0 => now <= timer

(* The loop and the drill keep up with the clock.                          *)
LoopInTime ==
  /\ down = 0 => now <= last + Renew + Delay
  /\ ask.what # "none" => last + Renew <= now
DrillInTime ==
  /\ drill.at = "placed" => now <= drill.since + Delay
  /\ drill.at = "armed" => now <= drill.since + DrillCountdown + 1

DeadIsStill == down > 0 => ask = NoAsk /\ drill = NoDrill /\ excuse

AskIsAsked == ask.done => ask.what # "none"
DrillIsExcused == drill.at = "armed" => excuse

(* A countdown the loop knows of is on in its memory, or is about to be,   *)
(* and will be renewed before it runs out.                                 *)
Remembered == ~ excuse /\ timer # 0 => (ask.done => ask.what = "arm") /\ (on \/ ask.done)
Renewed ==
  ~ excuse /\ timer # 0 =>
    /\ Hold => timer > drill.since + Delay
    /\ ~ Hold /\ ask.done => timer >= last + Renew + Countdown
    /\ ~ Hold /\ ~ ask.done => timer >= last + Countdown - Delay

Covered == timer # 0 /\ timer <= now + Countdown

(* An entry that rests is in the store; while nothing covers it, the loop  *)
(* has not made a whole pass since, and when a trader left it covered, the *)
(* countdown runs.                                                         *)
EntryIsKnown == down = 0 /\ "entry" \in book => row
CoveredSoon ==
  down = 0 /\ ~ Hold /\ "entry" \in book =>
    /\ ask.what = "off" => last + Renew <= clear
    /\ ~ Covered => last <= clear + Delay /\ (ask.done => last + Renew <= clear)
LeftCovered ==
  down > clear + CoverTime /\ "entry" \in book => timer # 0 /\ timer <= down + Countdown

SwitchInv ==
  /\ TypeOK /\ Past /\ LoopInTime /\ DrillInTime /\ DeadIsStill
  /\ AskIsAsked /\ DrillIsExcused /\ Remembered /\ Renewed
  /\ EntryIsKnown /\ CoveredSoon /\ LeftCovered /\ NothingIsCut

=============================================================================

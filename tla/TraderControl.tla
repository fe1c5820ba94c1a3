--------------------------- MODULE TraderControl ---------------------------
(***************************************************************************)
(* Who may trade: the kill switch (quanta.risk.killswitch) and the three   *)
(* tasks of the trader that set it and act on it - the one-second loop     *)
(* (trader.service), the daily drill and the canary (trader.drills,        *)
(* trader.canary) - with the operator's command files, the emergency close *)
(* and the protective stop.  One symbol; every step runs to its next await.*)
(* The order management is reduced to what matters here: an order request  *)
(* may stay without an answer, which freezes the symbol until a query      *)
(* resolves it (module Oms has the whole).                                 *)
(***************************************************************************)
EXTENDS Integers, Sequences

CONSTANTS
  Canary,       \* the canary runs
  MaxDrills,    \* bound: flatten drills
  MaxCommands,  \* bound: command files the operator writes
  MaxFailures,  \* bound: REST calls that fail, and reconciliations that find something
  MaxUnknown,   \* bound: order requests without an answer
  MaxCrashes,   \* bound: crashes of the process
  MaxLags       \* bound: passes that miss a position in the store, or a mark price

ASSUME TraderControlAssumption ==
  /\ Canary \in BOOLEAN
  /\ MaxDrills \in Nat
  /\ MaxCommands \in Nat
  /\ MaxFailures \in Nat
  /\ MaxUnknown \in Nat
  /\ MaxCrashes \in Nat
  /\ MaxLags \in Nat

VARIABLES
  sticky,   \* persisted: the level set by limits or a person
  reason,   \* persisted: who set it
  conds,    \* memory: the conditions that are set
  ready,    \* memory: start-up is over
  flat,     \* memory: the flatten that runs
  loop,     \* memory: where the loop is
  since,    \* memory: a position without a stop was seen
  drill,    \* memory: where the drill is
  canary,   \* memory: where the canary is
  frozen,   \* memory: the symbol takes no order
  files,    \* the operator's command files
  entry,    \* the entry order of the drill and of the canary, at the exchange
  position, \* the position at the exchange
  stop,     \* a protective stop is armed there
  asked,    \* history: a limit or a person wants trading stopped
  spent     \* the bounds used up

control    == <<sticky, reason, conds>>
tasks      == <<loop, since, drill, canary>>
account    == <<entry, position, stop>>
traderVars == <<control, ready, flat, tasks, frozen, files, account, asked, spent>>

ACTIVE == 0
PAUSED == 1
REDUCING == 2
HALTED == 3
FLATTENING == 4

Owners     == {"drill", "canary"}
Conditions == {"feed", "unknown_order", "mismatch", "daily_loss", "error", "canary"}
NoFlatten  == [by |-> "none", why |-> "none", step |-> "cancel", left |-> 0, back |-> "top"]

TraderInit ==
  /\ sticky = ACTIVE /\ reason = "none"
  /\ conds = {}
  /\ ready = FALSE
  /\ flat = NoFlatten
  /\ loop = "top" /\ since = FALSE
  /\ drill = "idle" /\ canary = "idle"
  /\ frozen = FALSE
  /\ files = <<>>
  /\ entry = [t \in Owners |-> "none"]
  /\ position = 0 /\ stop = FALSE
  /\ asked = FALSE
  /\ spent = [drills |-> 0, commands |-> 0, failures |-> 0, unknown |-> 0, crashes |-> 0,
              lags |-> 0]

Spend(what, bound) ==
  /\ spent[what] < bound
  /\ spent' = [spent EXCEPT ![what] = @ + 1]

-----------------------------------------------------------------------------
(* The kill switch.                                                        *)

(* The highest of the sticky level and the conditions.                     *)
level ==
  IF sticky >= REDUCING THEN sticky
  ELSE IF "daily_loss" \in conds THEN REDUCING
  ELSE IF conds # {} THEN PAUSED
  ELSE sticky

allows_entry == level = ACTIVE

escalate(lv, why) ==
  IF lv <= sticky THEN UNCHANGED <<sticky, reason>> ELSE sticky' = lv /\ reason' = why

set_sticky(lv, why) == sticky' = lv /\ reason' = why

resume == sticky' = ACTIVE /\ reason' = "none"

-----------------------------------------------------------------------------
(* The emergency close.                                                    *)

Flattening == flat.by # "none"

(* Bug for the mutants: the level is left as it was.                       *)
FlattenSilently(by, why, back) ==
  /\ ~ Flattening
  /\ flat' = [by |-> by, why |-> why, step |-> "cancel", left |-> 4, back |-> back]
  /\ UNCHANGED <<sticky, reason>>

Flatten(by, why, back) ==
  /\ ~ Flattening
  /\ flat' = [by |-> by, why |-> why, step |-> "cancel", left |-> 4, back |-> back]
  /\ set_sticky(FLATTENING, why)

(* Everything is cancelled, as far as the calls get through: their errors  *)
(* are suppressed.  An order request on the wire is not there yet.         *)
FlattenCancels ==
  /\ Flattening /\ flat.step = "cancel"
  /\ flat' = [flat EXCEPT !.step = "close"]
  /\ LET Cancelled == [t \in Owners |-> IF entry[t] = "open" THEN "none" ELSE entry[t]]
     IN \/ entry' = Cancelled /\ stop' = FALSE /\ UNCHANGED spent
        \/ /\ Spend("failures", MaxFailures)
           /\ \/ entry' = Cancelled /\ UNCHANGED stop
              \/ stop' = FALSE /\ UNCHANGED entry
  /\ UNCHANGED <<control, ready, tasks, frozen, files, position, asked>>

(* Bug: one attempt too many.                                              *)
FlattenClosesOnce ==
  /\ Flattening /\ flat.step = "close"
  /\ flat' = IF position = 0 THEN [flat EXCEPT !.step = "verify"] ELSE [flat EXCEPT !.left = @ - 1]
  /\ UNCHANGED <<control, ready, tasks, frozen, files, account, asked, spent>>

(* One attempt: nothing to close, a frozen symbol refuses the order, an IOC*)
(* (never the last one, a MARKET order) finds no counterpart, the position *)
(* is closed, or the answer is lost.                                       *)
FlattenCloses ==
  /\ Flattening /\ flat.step = "close"
  /\ \/ /\ position = 0 \/ flat.left = 0
        /\ flat' = [flat EXCEPT !.step = "verify"]
        /\ UNCHANGED <<conds, frozen, position, spent>>
     \/ /\ position # 0 /\ flat.left > 0
        /\ flat' = [flat EXCEPT !.left = @ - 1]
        /\ \/ frozen /\ UNCHANGED <<conds, frozen, position, spent>>
           \/ ~ frozen /\ flat.left > 1 /\ UNCHANGED <<conds, frozen, position, spent>>
           \/ ~ frozen /\ position' = 0 /\ UNCHANGED <<conds, frozen, spent>>
           \/ /\ ~ frozen
              /\ Spend("unknown", MaxUnknown)
              /\ frozen' = TRUE
              /\ conds' = conds \cup {"unknown_order"}
              /\ position' \in {0, position}
  /\ UNCHANGED <<sticky, reason, ready, tasks, files, entry, stop, asked>>

(* What the task does when its flatten is over.                            *)
FlattenReturns ==
  IF flat.by = "drill" THEN drill' = "after" /\ UNCHANGED <<loop, canary, since>>
  ELSE loop' = flat.back /\ UNCHANGED <<drill, canary, since>>

FlattenEnds ==
  /\ Flattening /\ flat.step = "verify"
  /\ set_sticky(HALTED, flat.why)
  /\ flat' = NoFlatten
  /\ FlattenReturns
  /\ conds' = IF flat.by = "loop" /\ flat.back = "resolve" THEN conds \ {"daily_loss"} ELSE conds
  /\ UNCHANGED <<ready, frozen, files, account, asked, spent>>

(* A failing query of the position leaves flatten: the level stays, the    *)
(* loop reports a problem, the drill an error.                             *)
FlattenFails ==
  /\ Flattening /\ flat.step \in {"close", "verify"}
  /\ Spend("failures", MaxFailures)
  /\ flat' = NoFlatten
  /\ IF flat.by = "drill"
     THEN drill' = "idle" /\ UNCHANGED <<loop, conds>>
     ELSE loop' = "top" /\ conds' = conds \cup {"error"} /\ UNCHANGED drill
  /\ UNCHANGED <<sticky, reason, ready, canary, since, frozen, files, account, asked>>

-----------------------------------------------------------------------------
(* The loop.                                                               *)

(* _conditions: what is seen of the feeds, the clock and the frozen        *)
(* symbols.  A clock that is off pauses, one that is far off halts.        *)
SetConditions ==
  \E feed \in SUBSET {"feed"} :
    /\ conds' = (conds \ {"feed", "unknown_order"})
                \cup feed \cup (IF frozen THEN {"unknown_order"} ELSE {})
    /\ \/ UNCHANGED <<sticky, reason, asked>>
       \/ feed # {} /\ escalate(HALTED, "system") /\ asked' = TRUE

Top ==
  /\ loop = "top"
  /\ loop' = "account"
  /\ IF ready THEN SetConditions ELSE UNCHANGED <<control, asked>>
  /\ UNCHANGED <<ready, flat, since, drill, canary, frozen, files, account, spent>>

(* refresh_account: the equity is fine (or not looked at this time), lost  *)
(* 2 %, 3 %, or 10 % since the peak.                                       *)
Account ==
  /\ loop = "account"
  /\ \/ /\ loop' = "resolve"
        /\ conds' \in {conds, conds \ {"daily_loss"}, conds \cup {"daily_loss"}}
        /\ UNCHANGED <<sticky, reason, flat, asked>>
     \/ /\ sticky < HALTED
        /\ Flatten("loop", "system", "resolve")
        /\ loop' = "flatten"
        /\ asked' = TRUE
        /\ UNCHANGED conds
     \/ /\ escalate(HALTED, "system")
        /\ loop' = "resolve"
        /\ conds' = conds \ {"daily_loss"}
        /\ asked' = TRUE
        /\ UNCHANGED flat
  /\ UNCHANGED <<ready, since, drill, canary, frozen, files, account, spent>>

(* Bug: the freeze is never lifted.                                        *)
ResolveNever ==
  /\ loop = "resolve"
  /\ loop' = "reconcile"
  /\ UNCHANGED frozen
  /\ UNCHANGED <<control, ready, flat, since, drill, canary, files, account, asked, spent>>

(* resolve_unknown: the query tells what became of the order, or not yet.  *)
Resolve ==
  /\ loop = "resolve"
  /\ loop' = "reconcile"
  /\ frozen' \in {frozen, FALSE}
  /\ UNCHANGED <<control, ready, flat, since, drill, canary, files, account, asked, spent>>

(* Bug: a good reconciliation does not clear the condition.                *)
ReconcileKeeps ==
  /\ loop = "reconcile"
  /\ loop' = IF ready THEN "flatten?" ELSE "account"
  /\ ready' = TRUE
  /\ \/ UNCHANGED <<conds, spent>>
     \/ Spend("failures", MaxFailures) /\ conds' = conds \cup {"mismatch"}
  /\ UNCHANGED <<sticky, reason, flat, since, drill, canary, frozen, files, account, asked>>

(* reconcile, when it is due, needed or part of the start-up.              *)
Reconcile ==
  /\ loop = "reconcile"
  /\ loop' = IF ready THEN "flatten?" ELSE "account"
  /\ ready' = TRUE
  /\ \/ ready /\ UNCHANGED <<conds, spent>>
     \/ conds' = conds \ {"mismatch"} /\ UNCHANGED spent
     \/ Spend("failures", MaxFailures) /\ conds' = conds \cup {"mismatch"}
  /\ UNCHANGED <<sticky, reason, flat, since, drill, canary, frozen, files, account, asked>>

(* Bug: a flatten that was interrupted is not taken up again.              *)
FlattenIfAsked ==
  /\ loop = "flatten?"
  /\ loop' = "protect"
  /\ UNCHANGED <<control, ready, flat, since, drill, canary, frozen, files, account, asked, spent>>

FlattenIfTold ==
  /\ loop = "flatten?"
  /\ IF level = FLATTENING /\ ~ Flattening
     THEN Flatten("loop", reason, "protect") /\ loop' = "flatten"
     ELSE loop' = "protect" /\ UNCHANGED <<sticky, reason, flat>>
  /\ UNCHANGED <<conds, ready, since, drill, canary, frozen, files, account, asked, spent>>

(* Bug: no stop is placed any more once trading is halted.                 *)
UnprotectedActive(held) == held /\ ~ stop /\ ~ Flattening /\ sticky < HALTED

Unprotected(held) == held /\ ~ stop /\ ~ Flattening

(* ensure_protected, after the grace period (seen in an earlier pass), for *)
(* a position the store holds and a mark price that is known.  A stop that *)
(* is refused, or stays without an answer, flattens.                       *)
Protects(held, priced) ==
  /\ loop = "protect"
  /\ IF Unprotected(held) /\ since /\ ~ frozen /\ priced
     THEN \/ stop' = TRUE /\ loop' = "commands"
             /\ UNCHANGED <<control, flat, frozen, spent>>
          \/ /\ Spend("failures", MaxFailures)
             /\ conds' = conds \cup {"error"}
             /\ Flatten("loop", "system", "commands")
             /\ loop' = "flatten"
             /\ UNCHANGED <<frozen, stop>>
          \/ /\ Spend("unknown", MaxUnknown)
             /\ frozen' = TRUE
             /\ conds' = conds \cup {"error", "unknown_order"}
             /\ stop' \in BOOLEAN
             /\ Flatten("loop", "system", "commands")
             /\ loop' = "flatten"
     ELSE /\ loop' = "commands"
          /\ IF position # 0 /\ ~ (held /\ priced)
             THEN Spend("lags", MaxLags)
             ELSE UNCHANGED spent
          /\ UNCHANGED <<control, flat, frozen, stop>>
  /\ since' = (held /\ ~ stop /\ (since \/ ~ Flattening))
  /\ UNCHANGED <<ready, drill, canary, files, entry, position, asked>>

(* The store's position follows the events, which may be under way; what   *)
(* is missed again and again is missed a bounded number of times.          *)
EnsureProtected == \E held, priced \in BOOLEAN : Protects(held, priced)

(* commands: the files in the order they were written.  A flatten while    *)
(* another one runs returns at once.                                       *)
Commands ==
  /\ loop = "commands"
  /\ \/ /\ files = <<>>
        /\ loop' = "top"
        /\ UNCHANGED <<sticky, reason, flat, files, asked>>
     \/ /\ files # <<>>
        /\ files' = Tail(files)
        /\ \/ /\ Head(files) = "halt"
              /\ escalate(HALTED, "operator")
              /\ asked' = TRUE
              /\ UNCHANGED <<flat, loop>>
           \/ /\ Head(files) = "resume"
              /\ resume
              /\ asked' = FALSE
              /\ UNCHANGED <<flat, loop>>
           \/ /\ Head(files) = "flatten"
              /\ asked' = TRUE
              /\ IF Flattening THEN UNCHANGED <<sticky, reason, flat, loop>>
                 ELSE Flatten("loop", "operator", "commands") /\ loop' = "flatten"
  /\ UNCHANGED <<conds, ready, since, drill, canary, frozen, account, spent>>

(* A REST call of the pass fails: the pass ends with a problem, named after*)
(* the kind of failure; a refused key halts.                               *)
PassFails ==
  /\ loop \in {"account", "resolve", "reconcile", "protect"}
  /\ Spend("failures", MaxFailures)
  /\ loop' = "top"
  /\ \/ conds' = conds \cup {"error"} /\ UNCHANGED <<sticky, reason, asked>>
     \/ escalate(HALTED, "system") /\ asked' = TRUE /\ UNCHANGED conds
  /\ UNCHANGED <<ready, flat, since, drill, canary, frozen, files, account>>

-----------------------------------------------------------------------------
(* Entries.                                                                *)

(* Trader.place lets an entry through, and the OMS takes it.               *)
MayEnter == ready /\ allows_entry /\ position = 0 /\ ~ frozen

(* The order request of an entry reaches the exchange: the canary's rests, *)
(* the drill's is filled; or it is refused, or lost.                       *)
EntryArrives(t) ==
  /\ entry[t] = "flying"
  /\ \/ /\ t = "canary"
        /\ entry' = [entry EXCEPT ![t] = "open"]
        /\ UNCHANGED position
     \/ /\ t = "drill"
        /\ entry' = [entry EXCEPT ![t] = "none"]
        /\ position' = position + 1
     \/ entry' = [entry EXCEPT ![t] = "none"] /\ UNCHANGED position
  /\ UNCHANGED <<control, ready, flat, tasks, frozen, files, stop, asked, spent>>

EntryFills(t) ==
  /\ entry[t] = "open"
  /\ entry' = [entry EXCEPT ![t] = "none"]
  /\ position' = position + 1
  /\ UNCHANGED <<control, ready, flat, tasks, frozen, files, stop, asked, spent>>

StopFires ==
  /\ stop /\ position # 0
  /\ stop' = FALSE
  /\ position' = 0
  /\ UNCHANGED <<control, ready, flat, tasks, frozen, files, entry, asked, spent>>

(* No answer to the entry's request: the task gives up, the symbol freezes,*)
(* the order may still arrive.                                             *)
EntryUnknown(t) ==
  /\ IF t = "drill" THEN drill = "opening" ELSE canary = "entering"
  /\ Spend("unknown", MaxUnknown)
  /\ frozen' = TRUE
  /\ conds' = conds \cup {"unknown_order"}
  /\ IF t = "drill" THEN drill' = "idle" /\ UNCHANGED canary
                    ELSE canary' = "idle" /\ UNCHANGED drill
  /\ UNCHANGED <<sticky, reason, ready, flat, loop, since, files, account, asked>>

(* A protective stop of the canary or the drill: placed, or not (the risk  *)
(* check or the OMS refuses it on a frozen symbol, or the exchange does).  *)
PlaceStop ==
  \/ ~ frozen /\ stop' = TRUE /\ UNCHANGED spent
  \/ frozen /\ UNCHANGED <<stop, spent>>
  \/ Spend("failures", MaxFailures) /\ UNCHANGED stop

-----------------------------------------------------------------------------
(* The canary.                                                             *)

CanaryEnters ==
  /\ Canary /\ canary = "idle" /\ MayEnter
  /\ entry["canary"] = "none"
  /\ canary' = "entering"
  /\ entry' = [entry EXCEPT !["canary"] = "flying"]
  /\ UNCHANGED <<control, ready, flat, loop, since, drill, frozen, files, position, stop, asked,
                 spent>>

(* The entry was not filled in time: it is cancelled, or the cancel fails. *)
CanaryGivesUp ==
  /\ canary = "entering" /\ entry["canary"] # "flying"
  /\ \/ entry' = [entry EXCEPT !["canary"] = "none"] /\ UNCHANGED spent
     \/ Spend("failures", MaxFailures) /\ UNCHANGED entry
  /\ canary' = IF position = 0 THEN "idle" ELSE "filled"
  /\ UNCHANGED <<control, ready, flat, loop, since, drill, frozen, files, position, stop, asked>>

CanaryProtects ==
  /\ canary = "filled"
  /\ canary' = "holding"
  /\ PlaceStop
  /\ UNCHANGED <<control, ready, flat, loop, since, drill, frozen, files, entry, position, asked>>

(* Time is up, the level is HALTED or the position is gone: the stop is    *)
(* cancelled, or the cancel fails.                                         *)
CanaryReleases ==
  /\ canary = "holding"
  /\ canary' = "closing"
  /\ \/ stop' = FALSE /\ UNCHANGED spent
     \/ Spend("failures", MaxFailures) /\ UNCHANGED stop
  /\ UNCHANGED <<control, ready, flat, loop, since, drill, frozen, files, entry, position, asked>>

(* close_position: an IOC, then a MARKET order, unless they are refused or *)
(* stay without an answer.                                                 *)
CanaryCloses ==
  /\ canary = "closing"
  /\ canary' = "idle"
  /\ \/ (position = 0 \/ ~ frozen) /\ position' = 0 /\ UNCHANGED <<conds, frozen, spent>>
     \/ /\ position # 0 /\ frozen
        /\ conds' = conds \cup {"canary"}
        /\ UNCHANGED <<frozen, position, spent>>
     \/ /\ position # 0 /\ ~ frozen
        /\ Spend("unknown", MaxUnknown)
        /\ frozen' = TRUE
        /\ position' \in {0, position}
        /\ conds' = conds \cup {"unknown_order"} \cup (IF position' = 0 THEN {} ELSE {"canary"})
  /\ UNCHANGED <<sticky, reason, ready, flat, loop, since, drill, files, entry, stop, asked>>

-----------------------------------------------------------------------------
(* The flatten drill.                                                      *)

DrillOpens ==
  /\ drill = "idle" /\ MayEnter
  /\ entry["drill"] = "none"
  /\ Spend("drills", MaxDrills)
  /\ drill' = "opening"
  /\ entry' = [entry EXCEPT !["drill"] = "flying"]
  /\ UNCHANGED <<control, ready, flat, loop, since, canary, frozen, files, position, stop, asked>>

(* The answer to the entry is there; the stop follows.                     *)
DrillProtects ==
  /\ drill = "opening" /\ entry["drill"] # "flying"
  /\ drill' = "opened"
  /\ PlaceStop
  /\ UNCHANGED <<control, ready, flat, loop, since, canary, frozen, files, entry, position, asked>>

DrillFlattens ==
  /\ drill = "opened"
  /\ IF Flattening THEN drill' = "after" /\ UNCHANGED <<sticky, reason, flat>>
     ELSE Flatten("drill", "drill", "top") /\ drill' = "flattening"
  /\ UNCHANGED <<conds, ready, loop, since, canary, frozen, files, account, asked, spent>>

(* Bug: the drill resumes whatever the level was set for.                  *)
DrillResumesAlways ==
  /\ drill = "after"
  /\ drill' = "idle"
  /\ resume
  /\ UNCHANGED <<conds, ready, flat, loop, since, canary, frozen, files, account, asked, spent>>

(* The drill looks at what is left and, if the level is its own, resumes;  *)
(* a failing query ends it first.                                          *)
DrillEnds ==
  /\ drill = "after"
  /\ drill' = "idle"
  /\ \/ /\ IF reason = "drill" THEN resume ELSE UNCHANGED <<sticky, reason>>
        /\ UNCHANGED spent
     \/ Spend("failures", MaxFailures) /\ UNCHANGED <<sticky, reason>>
  /\ UNCHANGED <<conds, ready, flat, loop, since, canary, frozen, files, account, asked>>

-----------------------------------------------------------------------------
(* The operator and the crash.                                             *)

WriteCommand ==
  /\ Spend("commands", MaxCommands)
  /\ \E c \in {"halt", "resume", "flatten"} : files' = Append(files, c)
  /\ UNCHANGED <<control, ready, flat, tasks, frozen, account, asked>>

(* Bug: the level is not read back.                                        *)
CrashForgets ==
  /\ Spend("crashes", MaxCrashes)
  /\ sticky' = ACTIVE /\ reason' = "none"
  /\ conds' = {} /\ ready' = FALSE /\ flat' = NoFlatten
  /\ loop' = "top" /\ since' = FALSE /\ drill' = "idle" /\ canary' = "idle"
  /\ frozen' = FALSE
  /\ UNCHANGED <<files, account, asked>>

(* The process dies and starts again; the dead-man switch may have         *)
(* cancelled the entries in between.                                       *)
Crash ==
  /\ Spend("crashes", MaxCrashes)
  /\ conds' = {} /\ ready' = FALSE /\ flat' = NoFlatten
  /\ loop' = "top" /\ since' = FALSE /\ drill' = "idle" /\ canary' = "idle"
  /\ frozen' = FALSE
  /\ entry' \in {entry, [t \in Owners |-> IF entry[t] = "open" THEN "none" ELSE entry[t]]}
  /\ UNCHANGED <<sticky, reason, files, position, stop, asked>>

LoopStep == Top \/ Account \/ Resolve \/ Reconcile \/ FlattenIfTold \/ EnsureProtected \/ Commands
FlattenStep == FlattenCancels \/ FlattenCloses \/ FlattenEnds
CanaryStep == CanaryGivesUp \/ CanaryProtects \/ CanaryReleases \/ CanaryCloses
DrillStep == DrillProtects \/ DrillFlattens \/ DrillEnds

TraderNext ==
  \/ LoopStep \/ PassFails
  \/ FlattenStep \/ FlattenFails
  \/ \E t \in Owners : EntryArrives(t) \/ EntryFills(t) \/ EntryUnknown(t)
  \/ StopFires
  \/ CanaryEnters \/ CanaryStep
  \/ DrillOpens \/ DrillStep
  \/ WriteCommand
  \/ Crash

TraderSpec == TraderInit /\ [][TraderNext]_traderVars

(* The tasks keep running, requests arrive or not, and a query that is     *)
(* asked again and again resolves an unknown outcome.                      *)
Fairness ==
  /\ WF_traderVars(LoopStep)
  /\ SF_traderVars(Resolve /\ ~ frozen')
  /\ SF_traderVars(Reconcile /\ "mismatch" \notin conds')
  /\ WF_traderVars(FlattenStep)
  /\ WF_traderVars(CanaryStep)
  /\ WF_traderVars(DrillStep)
  /\ \A t \in Owners : WF_traderVars(EntryArrives(t))

TraderFairSpec == TraderSpec /\ Fairness

-----------------------------------------------------------------------------
(* Properties.                                                             *)

TraderTypeOK ==
  /\ sticky \in ACTIVE..FLATTENING
  /\ reason \in {"none", "system", "operator", "drill"}
  /\ conds \subseteq Conditions
  /\ ready \in BOOLEAN
  /\ flat \in [by : {"none", "loop", "drill"}, why : {"none", "system", "operator", "drill"},
               step : {"cancel", "close", "verify"}, left : 0..4,
               back : {"top", "resolve", "protect", "commands"}]
  /\ loop \in {"top", "account", "resolve", "reconcile", "flatten?", "flatten", "protect",
               "commands"}
  /\ since \in BOOLEAN
  /\ drill \in {"idle", "opening", "opened", "flattening", "after"}
  /\ canary \in {"idle", "entering", "filled", "holding", "closing"}
  /\ frozen \in BOOLEAN
  /\ files \in Seq({"halt", "resume", "flatten"})
  /\ entry \in [Owners -> {"none", "flying", "open"}]
  /\ position \in Nat
  /\ stop \in BOOLEAN
  /\ asked \in BOOLEAN
  /\ spent \in [drills : 0..MaxDrills, commands : 0..MaxCommands, failures : 0..MaxFailures,
                unknown : 0..MaxUnknown, crashes : 0..MaxCrashes, lags : 0..MaxLags]

(* "HALTED/FLATTENING are left only by a person": once a limit, a refused  *)
(* key or the operator has stopped trading, it stays stopped, through      *)
(* every interleaving and crash, until the operator resumes.               *)
StaysStopped == asked => sticky >= HALTED

(* A flatten that runs is on record, so that a crash in the middle of it   *)
(* is taken up again.                                                      *)
FlattenOnRecord == Flattening => sticky = FLATTENING

(* Only the operator's resume or the drill that halted itself leads out of *)
(* HALTED and FLATTENING.                                                  *)
OnlyResumeLeaves ==
  [][(sticky >= HALTED /\ sticky' < HALTED) =>
       \/ files # <<>> /\ Head(files) = "resume" /\ files' = Tail(files)
       \/ reason = "drill" /\ drill = "after"]_traderVars

(* An emergency close that began comes to an end, whatever fails or crashes*)
(* on the way.                                                             *)
FlattenCompletes == sticky = FLATTENING ~> sticky # FLATTENING

(* Every position gets a protective stop or is closed.                     *)
EventuallyProtected == (position # 0 /\ ~ stop) ~> (position = 0 \/ stop)

(* "Conditions that clear themselves when the cause goes away": an unknown *)
(* outcome, a reconciliation mismatch.                                     *)
ConditionsClear ==
  \A c \in {"unknown_order", "mismatch"} : c \in conds ~> c \notin conds

(* After failures, lost answers and crashes the loop gets over all three.  *)
Recovers == FlattenCompletes /\ EventuallyProtected /\ ConditionsClear

(* The claim about conditions for a failing REST call of the loop.         *)
ErrorClears == "error" \in conds ~> "error" \notin conds

(* "Reduce-only exits are always allowed": an attempt of the emergency     *)
(* close is never refused because the symbol is frozen.                    *)
ExitsAllowed ==
  [][(flat.step = "close" /\ position # 0 /\ flat'.left < flat.left) => ~ frozen]_traderVars

(* "If not filled in time, cancel": the canary's entry does not rest at    *)
(* the exchange for ever.                                                  *)
EntryEnds == entry["canary"] = "open" ~> entry["canary"] # "open"

=============================================================================

------------------------------ MODULE LiveBars ------------------------------
(***************************************************************************)
(* The minute bars a bot keeps for its model (quanta.bot.livedata): the    *)
(* history is loaded page by page, and before each decision the bars that  *)
(* closed since are fetched.  One symbol; time is in minutes, and the bar  *)
(* of minute m has closed at m + 1.  The computer may sleep and a request  *)
(* may fail.  The other inputs (premium, metrics, funding) come after the  *)
(* bars and are left out.                                                  *)
(***************************************************************************)
EXTENDS Integers, FiniteSetsExt

CONSTANTS Page,     \* KLINE_PAGE
          MaxRows,  \* the largest request of an update
          Reload,   \* a longer gap reloads the history
          History,  \* history_days, in minutes
          Grid,     \* minutes between decisions
          Epoch,    \* the first minute of the model
          LastMinute, \* bound on time
          MaxSleep    \* bound: the longest sleep

VARIABLES now,    \* the minute that is open
          bars,   \* the minutes whose bars are known
          at,     \* "off", "history", "ready" or "update"
          start,  \* the page being loaded
          target, \* the decision bar of the update
          told,   \* the last update ended with the decision bar in
          excused \* an interrupted reload, a slow update, or a gap of an awkward length

vars == <<now, bars, at, start, target, told, excused>>

LiveAssumption ==
  /\ {Page, History, Grid, Epoch} \subseteq Nat \ {0}
  /\ {MaxRows, Reload, MaxSleep} \subseteq Nat

LiveInit ==
  /\ now = Epoch /\ bars = {} /\ at = "off" /\ start = 0 /\ target = 0
  /\ told = FALSE /\ excused = FALSE

LastBar == IF bars = {} THEN 0 ELSE Max(bars)

(* Time passes; between updates the computer may sleep.                    *)
Pass(minutes) ==
  /\ now + minutes <= LastMinute
  /\ minutes = 1 \/ at = "ready"
  /\ now' = now + minutes
  /\ told' = FALSE
  /\ UNCHANGED <<bars, at, start, target, excused>>

(* load, when the bot starts: from a full history ago.                     *)
Load ==
  /\ at = "off"
  /\ at' = "history" /\ start' = now - History
  /\ UNCHANGED <<now, bars, target, told, excused>>

(* The rows of a request end with the open bar; parse_klines drops it.     *)
Closed(first, last) == {m \in first..last : m < now}

(* _history, one page: the next one follows a full page, while there is    *)
(* more than the open bar to load.                                         *)
HistoryPage ==
  LET last == Min({start + Page - 1, now})
      more == last - start + 1 = Page /\ last + 1 < now
  IN  /\ at = "history"
      /\ bars' = bars \cup Closed(start, last)
      /\ start' = IF more THEN last + 1 ELSE 0
      /\ at' = IF more THEN at ELSE IF target = 0 THEN "ready" ELSE "update"
      /\ UNCHANGED <<now, target, told, excused>>

(* update: the decision at this minute is taken on the bar that closes.    *)
Decide ==
  /\ at = "ready" /\ now % Grid = 0
  /\ at' = "update" /\ target' = now - 1 /\ told' = FALSE
  /\ UNCHANGED <<now, bars, start, excused>>

Gap == target - LastBar

(* Bug for the mutants: as many rows as bars are missing.                  *)
LimitOfGap == Min({Gap, MaxRows})

Limit == Min({Gap + 3, MaxRows})

(* The bars that are missing, or after a long outage all of them.          *)
Fetch ==
  /\ at = "update" /\ LastBar < target
  /\ IF bars = {} \/ Gap > Reload
     THEN /\ bars' = {} /\ at' = "history" /\ start' = now - History
          /\ UNCHANGED excused
     ELSE /\ bars' = bars \cup Closed(now - Limit + 1, now)
          /\ excused' = (excused \/ now - LastBar > MaxRows \/ now - target > 3)
          /\ UNCHANGED <<at, start>>
  /\ UNCHANGED <<now, target, told>>

(* The decision bar is in; bars older than the history, and a little more, *)
(* are dropped.                                                            *)
Updated ==
  /\ at = "update" /\ LastBar >= target
  /\ at' = "ready" /\ target' = 0
  /\ told' = TRUE
  /\ bars' = {m \in bars : m >= target - (History + Grid)}
  /\ UNCHANGED <<now, start, excused>>

(* A request fails: the bot starts again, or there is no decision.         *)
RequestFails ==
  \/ /\ at = "history" /\ target = 0
     /\ at' = "off" /\ bars' = {} /\ start' = 0
     /\ UNCHANGED <<now, target, told, excused>>
  \/ /\ at \in {"history", "update"} /\ target # 0
     /\ at' = "ready" /\ target' = 0 /\ start' = 0
     /\ excused' = (excused \/ at = "history")
     /\ UNCHANGED <<now, bars, told>>

LiveNext ==
  \/ \E minutes \in 1..MaxSleep : Pass(minutes)
  \/ Load \/ HistoryPage \/ Decide \/ Fetch \/ Updated \/ RequestFails

LiveSpec == LiveInit /\ [][LiveNext]_vars

-----------------------------------------------------------------------------

Whole == bars = Min(bars)..Max(bars) /\ Min(bars) <= LastBar - History + Grid

(* After an update that has its decision bar, the symbol's bars are the    *)
(* last history without a minute missing.                                  *)
BarsAreWhole == told => Whole

(* That holds as long as each outage is one that a single request covers,  *)
(* or one that reloads the history without being interrupted, and no       *)
(* update starts its request more than two minutes late.                   *)
WholeUnlessExcused == told /\ ~ excused => Whole
-----------------------------------------------------------------------------
(* Why they are.                                                           *)

TypeOK ==
  /\ now \in Nat \ {0} /\ bars \subseteq Int /\ start \in Int /\ target \in Int
  /\ at \in {"off", "history", "ready", "update"}
  /\ told \in BOOLEAN /\ excused \in BOOLEAN

(* The history is loaded without a hole up to the page in question, and an *)
(* update begins and ends with the history, less the time between two.     *)
Complete ==
  /\ at = "off" => bars = {}
  /\ at = "history" =>
       /\ start < now
       /\ \/ bars = {} /\ start <= now - History
          \/ \E first \in Int : first < start /\ bars = first..(start - 1) /\ first <= now - History
  /\ at \in {"ready", "update"} =>
       \E first, last \in Int :
         /\ bars = first..last /\ first <= last /\ last < now /\ first <= last - History + Grid

LiveInv ==
  /\ TypeOK
  /\ target < now
  /\ told => at = "ready"
  /\ ~ excused => Complete

=============================================================================

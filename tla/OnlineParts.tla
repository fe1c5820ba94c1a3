---------------------------- MODULE OnlineParts -----------------------------
(* The parts of the system that are at work against a clock: the limits on *)
(* requests and orders, the recorder of a stream with what is told of it,  *)
(* and the bars decisions are made on.  The initial state chooses one      *)
(* part, which then runs by itself.  Its variables stand in for those of   *)
(* the pool, in order; those it does not need stay 0.  The constants are   *)
(* those of the parts: where a part is modelled, its own module says what  *)
(* its constants and variables mean.                                       *)
EXTENDS Integers

CONSTANTS
  Requests, WeightOf, BudgetLimit, Minutes, MaxSkew, MaxOthers, BudgetEnd,       \* WeightBudget
  Symbols, max_order_notional, max_symbol_exposure, max_gross_exposure, max_positions,
  max_orders_per_min, max_new_positions_per_hour, RiskMinute, RiskHour, RiskLots, MaxOrders,
  MaxCrashes, RiskEnd,                                                           \* RiskCheck
  Coins, Marks, Equities, Distances, risk_per_trade, cap_symbol, cap_gross, bot_max_positions,
  leverage, bot_max_order_notional, min_qty, max_qty, min_notional,           \* BotEntries
  TradesEnd, DiskCheck, MaxQueue, Tolerance, MaxFailing, CaptureCrashes,      \* Recorder
  NoScrape, ScrapeDown, StreamDown, StreamSilent, PageWindow, PageAge, PageEnd, PageLosses,
  PageLives, PageStarts,                                                      \* StatusPage
  ClockJob, SymbolJob, PollSymbols, PollInterval, RestrictedWait, RetryAfter, PollTimeout,
  PollsEnd, PollMoves, PollFaults,                                            \* Pollers
  LivePage, LiveRows, LiveReload, LiveHistory, LiveGrid, LiveEpoch, LiveEnd, LiveSleep \* LiveBars

VARIABLES part, v1, v2, v3, v4, v5, v6, v7, v8, v9, v10, v11, v12, v13, v14

vars == <<part, v1, v2, v3, v4, v5, v6, v7, v8, v9, v10, v11, v12, v13, v14>>

-----------------------------------------------------------------------------
(* Orders: the request budget, the limits, and the bot's entries.          *)
Budget == INSTANCE WeightBudget WITH
  Weight <- WeightOf, Limit <- BudgetLimit, LastTick <- BudgetEnd,
  now <- v1, skew <- v2, window <- v3, used <- v4, in_flight <- v5, blocked <- v6, req <- v7,
  count <- v8, own <- v9, lost <- v10, others <- v11

Risk == INSTANCE RiskCheck WITH
  Minute <- RiskMinute, Hour <- RiskHour, Lots <- RiskLots, LastTick <- RiskEnd,
  now <- v1, positions <- v2, resting <- v3, order_times <- v4, position_times <- v5, sent <- v6,
  slack <- v7, slackPositions <- v8, crashes <- v9

Entries == INSTANCE BotEntries WITH
  Symbols <- Coins, max_positions <- bot_max_positions, max_order_notional <- bot_max_order_notional,
  mark <- v1, equity <- v2, trades <- v3, positions <- v4

(* The recorder of one stream over a day, and the check of that day.       *)
Capture == INSTANCE Recorder WITH
  LastTick <- TradesEnd, MaxCrashes <- CaptureCrashes,
  now <- v1, free <- v2, failing <- v3, up <- v4, checked <- v5, guard <- v6, queue <- v7,
  disk <- v8, metaQueue <- v9, meta <- v10, trimmed <- v11, reported <- v12, cut <- v13,
  faults <- v14

(* What the status page makes of the recorder's metrics.                   *)
Status == INSTANCE StatusPage WITH
  None <- NoScrape, Window <- PageWindow, MaxAge <- PageAge, LastTick <- PageEnd,
  MaxLosses <- PageLosses, MaxLives <- PageLives, MaxPages <- PageStarts,
  now <- v1, rec <- v2, lost <- v3, heard <- v4, points <- v5, lastOk <- v6, scraped <- v7,
  pages <- v8

(* The jobs of the recorder that ask Binance.                              *)
Polls == INSTANCE Pollers WITH
  Clock <- ClockJob, PerSymbol <- SymbolJob, Symbols <- PollSymbols, Interval <- PollInterval,
  Timeout <- PollTimeout, LastTick <- PollsEnd, MaxMoves <- PollMoves, MaxFaults <- PollFaults,
  now <- v1, eligible <- v2, changed <- v3, delisted <- v4, job <- v5, blocked <- v6,
  restricted <- v7, heard <- v8, fault <- v9, count <- v10

(* The bars research and the bot decide on.                                *)
Live == INSTANCE LiveBars WITH
  Page <- LivePage, MaxRows <- LiveRows, Reload <- LiveReload, History <- LiveHistory, Grid <- LiveGrid,
  Epoch <- LiveEpoch, LastMinute <- LiveEnd, MaxSleep <- LiveSleep,
  now <- v1, bars <- v2, at <- v3, start <- v4, target <- v5, told <- v6, excused <- v7

ASSUME BudgetAssumption == Budget!BudgetAssumption

ASSUME RiskAssumption == Risk!RiskAssumption

ASSUME EntriesAssumption == Entries!BotAssumption

ASSUME CaptureAssumption == Capture!RecorderAssumption

ASSUME PageAssumption == Status!StatusAssumption

ASSUME PollsAssumption == Polls!PollersAssumption

ASSUME LiveBarsAssumption == Live!LiveAssumption

-----------------------------------------------------------------------------
(* Free(n): the pool from its n-th variable on is not in use.              *)
Free14 == v14 = 0
Free12 == v12 = 0 /\ v13 = 0 /\ Free14
Free11 == v11 = 0 /\ Free12
Free10 == v10 = 0 /\ Free11
Free9  == v9 = 0 /\ Free10
Free8  == v8 = 0 /\ Free9
Free5  == v5 = 0 /\ v6 = 0 /\ v7 = 0 /\ Free8
Free3  == v3 = 0 /\ v4 = 0 /\ Free5

OnlineInit ==
  \/ part = "budget"   /\ Budget!Init           /\ Free12
  \/ part = "risk"     /\ Risk!Init             /\ Free10
  \/ part = "entries"  /\ Entries!Init          /\ Free5
  \/ part = "capture"  /\ Capture!Init
  \/ part = "page"     /\ Status!Init           /\ Free9
  \/ part = "polls"    /\ Polls!Init            /\ Free11
  \/ part = "live"     /\ Live!LiveInit         /\ Free8

OnlineNext ==
  \/ part = "budget"   /\ Budget!Next           /\ UNCHANGED <<part, v12, v13, v14>>
  \/ part = "risk"     /\ Risk!Next             /\ UNCHANGED <<part, v10, v11, v12, v13, v14>>
  \/ part = "entries"
     /\ Entries!Next
     /\ UNCHANGED <<part, v5, v6, v7, v8, v9, v10, v11, v12, v13, v14>>
  \/ part = "capture"  /\ Capture!Next          /\ UNCHANGED part
  \/ part = "page"     /\ Status!Next           /\ UNCHANGED <<part, v9, v10, v11, v12, v13, v14>>
  \/ part = "polls"    /\ Polls!Next            /\ UNCHANGED <<part, v11, v12, v13, v14>>
  \/ part = "live"     /\ Live!LiveNext         /\ UNCHANGED <<part, v8, v9, v10, v11, v12, v13, v14>>

OnlineSpec == OnlineInit /\ [][OnlineNext]_vars

-----------------------------------------------------------------------------
(* No entry is placed that takes positions and entries together beyond the *)
(* bot's share of the balance.                                             *)
CapsAreKept == [][part = "entries" => Entries!GrossIsBounded]_vars

(* The exchange's weight limit is kept; exposure, positions and the rates  *)
(* of orders stay within the limits of the risk check; what an entry of the*)
(* bot loses at its stop stays within its share of the balance.            *)
LimitsHold ==
  /\ part = "budget" => Budget!WithinLimit
  /\ part = "risk"   => Risk!WithinLimits /\ Risk!RatesHold
  /\ part = "entries" => Entries!RiskIsBounded /\ Entries!PositionsAreBounded

(* The losses of the recorder never fail the check of the day against the  *)
(* archive; the status page is green only if the recorder is well, and     *)
(* tells the losses there were; the pollers' flag tells whether Binance    *)
(* serves the location, and no symbol before an unknown one is starved; the*)
(* bars of a decision have no hole, except where an update was cut off.    *)
CaptureIsTrue ==
  /\ part = "capture" => Capture!LossesExplained
  /\ part = "page"    => Status!GreenIsFresh /\ Status!IncreaseIsTrue
  /\ part = "polls"   => Polls!FlagIsTrue /\ Polls!SymbolsAreFresh
  /\ part = "live"    => Live!WholeUnlessExcused

=============================================================================

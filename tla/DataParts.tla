----------------------------- MODULE DataParts ------------------------------
(* The parts of the system that handle data, the paper account and the     *)
(* dead-man switch: each of them runs by itself in the pool of variables   *)
(* of OnlineParts, like the parts there.  The constants are those of the   *)
(* parts: where a part is modelled, its own module says what its constants *)
(* and variables mean.                                                     *)
EXTENDS OnlineParts

CONSTANTS
  Venues, Tables, MaxDeaths, MaxManual,                                       \* LakeDaily
  TradeSymbols, BookSymbols, RetryDays, ChecksDays, ChecksRetryDays, LastDay, \* LakeChecks
  Files, Concurrency, Attempts, NoRows, MaxVersion, MaxFetches,  \* TardisImport, VisionArchive
  Trials, Kinds, MaxEdits, MaxData,                                           \* ResearchLedger
  MaxRuns,                                                    \* of these four
  Renew, Countdown, DrillCountdown, Delay, Accounts, SwitchEnd,               \* DeadMan
  MaxPrice, Lots, MakerFee, TakerFee, FundingEvery, MaxTrades, MaxMoves, PaperEnd  \* PaperBroker

-----------------------------------------------------------------------------
(* The lake, and the archive it is checked against and filled from.        *)

Daily == INSTANCE LakeDaily WITH
  slot <- v1, up <- v2, raw <- v3, full <- v4, table <- v5, manifest <- v6, marker <- v7,
  report <- v8, job <- v9, told <- v10, deaths <- v11, restarts <- v12, manual <- v13

Checks == INSTANCE LakeChecks WITH
  today <- v1, recorded <- v2, published <- v3, full <- v4, doc <- v5, runs <- v6, left <- v7,
  clean <- v8

Tardis == INSTANCE TardisImport WITH
  upstream <- v1, parquet <- v2, mirror <- v3, sidecar <- v4, job <- v5, result <- v6,
  convert <- v7, slots <- v8, quota <- v9, skipped <- v10, runs <- v11

Vision == INSTANCE VisionArchive WITH
  upstream <- v1, listed <- v2, mirror <- v3, parquet <- v4, fetch <- v5, status <- v6,
  fetches <- v7

(* Research.                                                               *)
Research == INSTANCE ResearchLedger WITH
  registered <- v1, clean <- v2, code <- v3, data <- v4, entries <- v5, files <- v6, run <- v7,
  started <- v8, tried <- v9, looks <- v10, kind <- v11

(* The paper exchange, and the dead-man switch.                            *)
Paper == INSTANCE PaperBroker WITH
  LastTick <- PaperEnd,
  now <- v1, p <- v2, moves <- v3, funding <- v4, pos <- v5, entry <- v6, orders <- v7,
  filled <- v8, balance <- v9, cash <- v10, due <- v11, payments <- v12, trade <- v13

Switch == INSTANCE DeadMan WITH
  LastTick <- SwitchEnd,
  now <- v1, down <- v2, last <- v3, on <- v4, ask <- v5, drill <- v6, row <- v7, book <- v8,
  holding <- v9, timer <- v10, cut <- v11, clear <- v12, excuse <- v13, left <- v14

ASSUME LakeAssumption == Daily!LakeAssumption /\ Checks!ChecksAssumption

ASSUME ArchiveAssumption == {Attempts, MaxVersion} \subseteq Nat

ASSUME ResearchAssumption == Research!ResearchAssumption

ASSUME PaperAssumption == Paper!PaperAssumption

ASSUME SwitchAssumption == Switch!DeadManAssumption

-----------------------------------------------------------------------------
PartsInit ==
  \/ part = "daily"    /\ Daily!Init            /\ Free14
  \/ part = "checks"   /\ Checks!Init           /\ Free9
  \/ part = "tardis"   /\ Tardis!Init           /\ Free12
  \/ part = "vision"   /\ Vision!Init           /\ Free8
  \/ part = "research" /\ Research!ResearchInit /\ Free12
  \/ part = "paper"    /\ Paper!Init            /\ Free14
  \/ part = "switch"   /\ Switch!Init

PartsNext ==
  \/ part = "daily"    /\ Daily!Next            /\ UNCHANGED <<part, v14>>
  \/ part = "checks"   /\ Checks!Next           /\ UNCHANGED <<part, v9, v10, v11, v12, v13, v14>>
  \/ part = "tardis"   /\ Tardis!Next           /\ UNCHANGED <<part, v12, v13, v14>>
  \/ part = "vision"   /\ Vision!Next           /\ UNCHANGED <<part, v8, v9, v10, v11, v12, v13, v14>>
  \/ part = "research" /\ Research!ResearchNext /\ UNCHANGED <<part, v12, v13, v14>>
  \/ part = "paper"    /\ Paper!Next            /\ UNCHANGED <<part, v14>>
  \/ part = "switch"   /\ Switch!Next           /\ UNCHANGED part

PartsSpec == PartsInit /\ [][PartsNext]_vars

-----------------------------------------------------------------------------
-----------------------------------------------------------------------------
(* A day of the lake that says it is complete was written from one version *)
(* of the raw data, no input makes the service die again and again, and    *)
(* the archive check of a day is repeated until it was made, unless it has *)
(* failed.                                                                 *)
LakeIsTrue ==
  /\ part = "daily"  => Daily!NoSilentMixture /\ Daily!NoCrashLoop
  /\ part = "checks" => Checks!RetriedUnlessFailed /\ Checks!UnverifiedIsTold

(* What the archive imports leave on disk was verified and is whole.       *)
ArchiveIsTrue ==
  /\ part = "tardis" => Tardis!ImportedIsWhole
  /\ part = "vision" => Vision!FetchedIsVerified

(* No download is begun after the quota is used up, and what was verified  *)
(* stays and is not downloaded again.                                      *)
QuotaIsKept == [][part = "tardis" => Tardis!QuotaHolds]_vars

(* A returns file holds what the ledger says, the lockbox is evaluated     *)
(* once per registration, and nothing held out is evaluated before the     *)
(* trials it was chosen from are recorded.                                 *)
ResearchIsHonest ==
  part = "research" => Research!ReturnsMatch /\ Research!LockboxOnce /\ Research!RecordedBeforeLook

(* The paper exchange never turns a position around, its balance is what   *)
(* the fills, fees and funding come to, and funding is paid once.          *)
PaperHolds == part = "paper" => Paper!NeverFlips /\ Paper!CashAddsUp /\ Paper!FundingOnce

(* The exchange cancels the entries of a dead trader, if the switch had    *)
(* covered them, and nothing under one that is alive and heard.            *)
SwitchHolds ==
  part = "switch" => Switch!AbandonedEntriesEnd /\ Switch!EntriesAreCovered /\ Switch!NothingIsCut

=============================================================================

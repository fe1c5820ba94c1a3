(* The dead-man switch is renewed every 2 of the 6 ticks it runs; a Tardis   *)
(* run retries once, and a day of the lake dies three times.                *)
CONSTANTS
  Venues <- TwoVenues
  Tables <- TwoTables
  MaxDeaths = 3
  MaxManual = 1
  TradeSymbols = {"a", "b"}
  BookSymbols = {"a"}
  RetryDays = 2
  ChecksDays = 3
  ChecksRetryDays = 2
  LastDay = 1
  Files = {"a", "b"}
  Concurrency = 2
  Attempts = 2
  NoRows <- OneWithout
  MaxVersion = 2
  MaxFetches = 3
  Trials = {"p"}
  Kinds = {"trend", "intraday", "ml", "crowding", "selection", "recent"}
  MaxEdits = 1
  MaxData = 1
  MaxRuns = 2
  Renew = 2
  Countdown = 6
  DrillCountdown = 1
  Delay = 1
  Accounts <- DemoAndBot
  SwitchEnd = 13
  MaxPrice = 3
  Lots = {1, 2}
  MakerFee = 0
  TakerFee = 1
  FundingEvery = 2
  MaxTrades = 2
  MaxMoves = 3
  PaperEnd = 4
  Requests = {1, 2, 3}
  WeightOf <- Weights
  BudgetLimit = 3
  Minutes = 2
  MaxSkew = 1
  MaxOthers = 1
  BudgetEnd = 4
  Symbols = {"a", "b"}
  max_order_notional = 2
  max_symbol_exposure = 3
  max_gross_exposure = 2
  max_positions = 1
  max_orders_per_min = 2
  max_new_positions_per_hour = 2
  RiskLots = {1, 2}
  RiskMinute = 1
  RiskHour = 2
  MaxOrders = 3
  MaxCrashes = 1
  RiskEnd = 2
  Coins = {"a", "b", "c"}
  Marks = {100, 110}
  Equities = {1000, 800}
  Distances = {3, 8}
  risk_per_trade = 1
  cap_symbol = 20
  cap_gross = 30
  bot_max_positions = 2
  leverage = 6
  bot_max_order_notional = 400
  min_qty = 1
  max_qty = 2
  min_notional = 100
  TradesEnd = 6
  DiskCheck = 2
  MaxQueue = 2
  Tolerance = 1
  MaxFailing = 1
  CaptureCrashes = 1
  NoScrape = NoScrape
  ScrapeDown = 1
  StreamDown = 1
  StreamSilent = 2
  PageWindow = 1
  PageAge = 2
  PageEnd = 3
  PageLosses = 2
  PageLives = 2
  PageStarts = 2
  ClockJob = "server_time"
  SymbolJob = "open_interest"
  PollSymbols <- TwoSymbols
  PollInterval <- EachTick
  RestrictedWait = 3
  RetryAfter = 2
  PollTimeout = 1
  PollsEnd = 9
  PollMoves = 1
  PollFaults = 1
  LivePage = 7
  LiveRows = 5
  LiveReload = 6
  LiveHistory = 9
  LiveGrid = 2
  LiveEpoch = 20
  LiveEnd = 38
  LiveSleep = 8
SPECIFICATION Spec
CHECK_DEADLOCK FALSE
INVARIANTS LakeIsTrue CaptureIsTrue ArchiveIsTrue ResearchIsHonest LimitsHold PaperHolds SwitchHolds AlgorithmsHold
PROPERTIES QuotaIsKept CapsAreKept

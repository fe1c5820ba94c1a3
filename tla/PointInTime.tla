---------------------------- MODULE PointInTime ----------------------------
(***************************************************************************)
(* What the rows of the forecasting model are made of, and which of them a *)
(* forecast was fitted on (quanta.research.features, .ml and .ml_runner,   *)
(* and quanta.bot.livedata, whose data goes through the same code).  Pure  *)
(* algorithms.  A number is modelled by the data it is computed from: the  *)
(* set of times it reads, {} where it is missing.  Time is in minutes, and *)
(* the bar of minute m closes at m + 1.  A symbol's data are the minutes   *)
(* of its bars and of those with trades, and the times of its premium      *)
(* bars, its metrics and its funding settlements; a time that is in two    *)
(* files counts once.                                                      *)
(***************************************************************************)
EXTENDS Integers, SequencesExt

CONSTANTS Grid,           \* GRID_MIN: a decision closes a block of so many minutes
          Warmup,         \* WARMUP_MIN
          Windows,        \* the windows of the features, in minutes
          Quarter,        \* the minutes of a quarter of an hour
          PremiumBar,     \* PREMIUM_BAR_NS
          MetricsDelay,   \* METRICS_DELAY_NS
          Stale,          \* an older premium or metrics value is missing
          FundingRefresh, \* a running bot asks for the funding rates so often
          MinCoins,       \* MIN_COINS
          Days,           \* days of a month
          MinHistory,     \* min_history_days
          MinVolume,      \* usdc_min_qv_day
          \* The hourly panel:
          Hour,           \* an hour in units of its time
          PanelDelay,     \* METRICS_DELAY_NS of research/data.py
          MetricsStale,   \* METRICS_STALE_NS
          SampleEvery,    \* hours between two samples of the crowding test
          PremiumHours,   \* hours of a sample's mean premium
          Change,         \* hours of a sample's change in open interest
          Horizon,        \* horizon_h
          Window,         \* window_days, in samples
          MinSamples      \* min_samples

Never == -1

Latest(S, at) == Max({Never} \cup {x \in S : x <= at})

One(x) == IF x = Never THEN {} ELSE {x}

-----------------------------------------------------------------------------
(* One symbol's row at the bar of minute m.                                *)

DecisionBars(bars) ==
  {m \in bars : m % Grid = Grid - 1 /\ m >= Min(bars) + Warmup}

(* Bug for the mutants: the bar strictly before that minute.               *)
BackStrictly(bars, m, k) ==
  LET j == Latest(bars, m - k - 1)
  IN  IF j # Never /\ m - j <= k + Grid THEN j ELSE Never

(* back: the last bar at or before k minutes ago, if it is close enough.   *)
Back(bars, m, k) ==
  LET j == Latest(bars, m - k)
  IN  IF j # Never /\ m - j <= k + Grid THEN j ELSE Never

(* A return reads two closes; a sum reads the bars after the first one.    *)
Ends(bars, m, k) == IF Back(bars, m, k) = Never THEN {} ELSE {Back(bars, m, k), m}

Over(bars, m, k) ==
  IF Back(bars, m, k) = Never THEN {} ELSE {b \in bars : Back(bars, m, k) < b /\ b <= m}

(* The volatility reads the returns between bars that follow each other.   *)
Returns(bars, m) == {b \in bars : b <= m /\ b - 1 \in bars}

(* A range reads a number of bars, whatever their minutes.                 *)
LastBars(bars, m, n) ==
  LET upto == {b \in bars : b <= m}
  IN  IF Cardinality(upto) < n THEN {}
      ELSE {b \in upto : Cardinality({x \in upto : x >= b}) <= n}

(* The opening minutes of the last four quarters, three of them traded.    *)
QuarterOpens(d, m) ==
  LET opens == {b \in d.bars : b <= m /\ b % Quarter = 0}
      four  == {b \in opens : Cardinality({x \in opens : x >= b}) <= 4} \cap d.traded
  IN  IF Cardinality(four) >= 3 THEN four ELSE {}

(* asof: the last value known at a time, unless it is stale by then.       *)
AsOf(times, delay, at) ==
  LET x == Latest(times, at - delay)
  IN  IF x # Never /\ at - (x + delay) <= Stale THEN {x} ELSE {}

(* Bug: metrics count from their own time on.                              *)
MetricsAtOnce(d, at) == AsOf(d.metrics, 0, at)

(* A premium bar counts when it has closed, metrics after a delay.         *)
Premium(d, at) == AsOf(d.premium, PremiumBar, at)

Metrics(d, at) == AsOf(d.metrics, MetricsDelay, at)

(* The last settled rate and the settlement before it, for the interval.   *)
Funding(d, at) ==
  LET last == Latest(d.funding, at - 1)
      prev == Latest(d.funding, last - 1)
  IN  IF last = Never \/ prev = Never THEN {} ELSE {prev, last}

(* symbol_frame.                                                           *)
Row(d, m) ==
  [returns |-> [k \in Windows |-> Ends(d.bars, m, k)],
   sums    |-> [k \in Windows |-> Over(d.bars, m, k)],
   sigma   |-> Returns(d.bars, m),
   ranges  |-> [k \in Windows |-> LastBars(d.bars, m, k)],
   opens   |-> QuarterOpens(d, m),
   funding |-> Funding(d, m + 1),
   premium |-> [k \in {0} \cup Windows |-> Premium(d, m + 1 - k)],
   metrics |-> [k \in {0} \cup Windows |-> Metrics(d, m + 1 - k)]]

(* labels: the open after the decision, and the open h minutes later.      *)
Label(bars, m, h) == IF {m + 1, m + 1 + h} \subseteq bars THEN {m + 1, m + 1 + h} ELSE {}

-----------------------------------------------------------------------------
(* assemble: the rows of all symbols in the order of time and symbol; the  *)
(* rows of one decision are a group.  A row is [t, v], v its value or      *)
(* Never.                                                                  *)
Group(rows, i) == {j \in DOMAIN rows : rows[j].t = rows[i].t}

Finite(rows, S) == {j \in S : rows[j].v # Never}

(* The mean of a group reads the values that are there, if enough are.     *)
GroupMean(rows, i) ==
  LET there == Finite(rows, Group(rows, i))
  IN  IF Cardinality(there) >= MinCoins THEN there ELSE {}

(* Bug: a missing value comes first.                                       *)
InPlace(v) == v

(* np.inf, above all values.                                               *)
MissingLast(v) == IF v = Never THEN 1000 ELSE v

(* lexsort: by time, then by value; equal ones keep their order.           *)
Ahead(rows, i, j) ==
  LET vi == MissingLast(rows[i].v)
      vj == MissingLast(rows[j].v)
  IN  \/ rows[i].t < rows[j].t
      \/ rows[i].t = rows[j].t /\ (vi < vj \/ (vi = vj /\ i < j))

(* _group_rank: the place in the sorted rows, from the group's first place. *)
GroupRank(rows) ==
  LET order == SetToSortSeq(DOMAIN rows, LAMBDA i, j : Ahead(rows, i, j))
      start(p) == Min({q \in DOMAIN order : rows[order[q]].t = rows[order[p]].t})
      n(p)     == Cardinality(Finite(rows, Group(rows, order[p])))
      rank(p)  == IF rows[order[p]].v # Never /\ n(p) >= MinCoins THEN p - start(p) ELSE Never
  IN  [i \in DOMAIN rows |-> rank(CHOOSE p \in DOMAIN order : order[p] = i)]

-----------------------------------------------------------------------------
(* What a running bot has of the same data, when it asks at the time now:  *)
(* the metrics are published lag minutes after their time, and the funding *)
(* rates were asked for at the time asked.                                 *)
Live(d, now, lag, asked) ==
  [bars    |-> {b \in d.bars : b + 1 <= now},
   traded  |-> {b \in d.traded : b + 1 <= now},
   premium |-> {x \in d.premium : x + PremiumBar <= now},
   metrics |-> {x \in d.metrics : x + lag <= now},
   funding |-> {x \in d.funding : x + 1 <= asked}]

-----------------------------------------------------------------------------
(* Walk-forward (quanta.research.ml).  A specification is the lengths of   *)
(* the slices and of the gap between them, the label's horizon and how     *)
(* long the entry and the exit order rest; months are equally long.        *)

(* Settings.model: the longest time a row's outcome takes.                 *)
LabelSpan(spec) == spec.h + 1 + spec.entry_valid + spec.exit_valid + 1

(* Bug: the horizon alone.                                                 *)
HorizonFits(spec) == spec.h < spec.gap

SpanFits(spec) == LabelSpan(spec) < spec.gap

(* slices.                                                                 *)
Slices(month, spec) ==
  LET s0 == month * spec.month
      c1 == s0 - spec.gap
      c0 == c1 - spec.calib
      r1 == c0 - spec.gap
  IN  [train |-> (r1 - spec.train)..(r1 - 1), calib |-> c0..(c1 - 1),
       test  |-> s0..(s0 + spec.month - 1)]

(* walk_forward: for each month that has the rows, the decisions it was    *)
(* trained on, calibrated on, and forecasts.  usable: the decisions of     *)
(* ranked coins that have a label.                                         *)
WalkForward(rows, usable, months, spec) ==
  LET fit(month) == [train |-> Slices(month, spec).train \cap usable,
                     calib |-> Slices(month, spec).calib \cap usable,
                     test  |-> Slices(month, spec).test \cap rows]
      fitted == {month \in months : /\ Cardinality(fit(month).train) >= spec.min_train
                                    /\ fit(month).calib # {} /\ fit(month).test # {}}
  IN  IF SpanFits(spec) THEN [month \in fitted |-> fit(month)] ELSE << >>

(* entries: a decision is judged by the thresholds of the month of its     *)
(* bar, and the forecast is that of the month its close is in.             *)
Entries(fits, spec) ==
  UNION {{[t |-> t, forecast |-> a, thresholds |-> b] :
            t \in {x \in fits[a].test : (x - 1) \div spec.month = b}} :
          a \in DOMAIN fits, b \in DOMAIN fits}

-----------------------------------------------------------------------------
(* The row a running bot decides on is the row the model was trained on:   *)
(* it reads nothing that was not yet published, however late the metrics   *)
(* and the request were.  Only the funding can differ, by a settlement     *)
(* since the bot last asked for the rates.                                 *)
LiveIsResearch(d, m) ==
  LET research == Row(d, m)
      Same(live, asked) ==
        /\ \A part \in DOMAIN research \ {"funding"} : live[part] = research[part]
        /\ \/ live.funding = research.funding
           \/ \E x \in d.funding : asked < x + 1 /\ x + 1 <= m + 1
  IN  \A now \in {m + 1, m + 3}, lag \in {0, MetricsDelay} :
        \A asked \in {now - FundingRefresh, now} : Same(Row(Live(d, now, lag, asked), m), asked)

(* That is so of the funding too only if the rates are asked for each time. *)
LiveFundingIsResearch(d, m) ==
  \A asked \in (m + 1 - FundingRefresh)..(m + 1) :
    Row(Live(d, m + 1, 0, asked), m).funding = Row(d, m).funding

(* A window of k minutes is the k minutes; around missing bars it starts   *)
(* at most a block earlier, and never leaves out a bar.                    *)
WindowsAreRight(d, m) ==
  \A k \in Windows :
    LET w == Over(d.bars, m, k)
    IN  /\ (m - k)..m \subseteq d.bars => w = (m - k + 1)..m
        /\ w # {} => w \subseteq (m - k - Grid)..m /\ d.bars \cap (m - k + 1)..m \subseteq w

RowsAreKnown(d) ==
  \A m \in DecisionBars(d.bars) : LiveIsResearch(d, m) /\ WindowsAreRight(d, m)

(* The rank of a row counts the smaller values of its own group, and the   *)
(* equal ones before it, whatever is missing and whatever comes after.     *)
RanksAreOfTheGroup(rows) ==
  \A i \in DOMAIN rows :
    LET others  == Finite(rows, Group(rows, i))
        smaller == {j \in others : rows[j].v < rows[i].v \/ (rows[j].v = rows[i].v /\ j < i)}
    IN  GroupRank(rows)[i] =
          IF i \in others /\ GroupMean(rows, i) # {} THEN Cardinality(smaller) ELSE Never

(* The outcome of a row is known when its label's last open is, and when   *)
(* the trade it may lead to, entered and left as late as its orders rest,  *)
(* is over.                                                                *)
OutcomeAt(t, spec) == Max({t + spec.h, t + spec.entry_valid - 1 + spec.h + spec.exit_valid})

(* No outcome of a row a model is trained on reaches a row it is           *)
(* calibrated on, none of these reaches the month it forecasts, and a      *)
(* decision is judged by fits that ended before it.                        *)
WalkIsForward(rows, usable, months, spec) ==
  LET fits == WalkForward(rows, usable, months, spec)
  IN  /\ \A month \in DOMAIN fits :
           /\ \A t \in fits[month].train, c \in fits[month].calib : OutcomeAt(t, spec) < c
           /\ \A c \in fits[month].calib, s \in fits[month].test : OutcomeAt(c, spec) < s
      /\ \A e \in Entries(fits, spec) :
           \A c \in fits[e.forecast].calib \cup fits[e.thresholds].calib : OutcomeAt(c, spec) < e.t

-----------------------------------------------------------------------------
(* The coins that may be traded in a month (quanta.research.universe and   *)
(* the USDC eligibility of .ml_runner): ranked by the volume of the month  *)
(* before, from the monthly files of the archive.  A coin is [listed,      *)
(* volume]: the day it was listed and, for each month that has a file, its *)
(* volume; months are equally long.                                        *)

Months(coin) == DOMAIN coin.volume

(* Bug for the mutants: only the months that are ranked are read.          *)
WantedOnly(coins, first, last) ==
  {f \in (DOMAIN coins) \X ((first - 1)..last) : f[2] \in Months(coins[f[1]])}

(* The files that are read: those of the months and of the one before, and *)
(* each coin's first one, for the day it was listed.                       *)
Wanted(coins, first, last) ==
  {f \in (DOMAIN coins) \X UNION {Months(coins[s]) : s \in DOMAIN coins} :
     /\ f[2] \in Months(coins[f[1]])
     /\ f[2] \in (first - 1)..last \/ f[2] = Min(Months(coins[f[1]]))}

(* The first day of a monthly file.                                        *)
FirstDayIn(coin, month) == Max({coin.listed, month * Days})

(* The first day a coin is known to have traded, by the files read; when   *)
(* none of them was, the first day of its first month.                     *)
FirstDay(coins, files, s) ==
  LET read == {f[2] : f \in {g \in files : g[1] = s}}
  IN  IF read = {} THEN Min(Months(coins[s])) * Days
      ELSE Min({FirstDayIn(coins[s], month) : month \in read})

(* Bug: the volume of the month itself.                                    *)
RankedByItself(coins, files, month) ==
  LET old == {s \in DOMAIN coins : /\ <<s, month>> \in files
                                   /\ FirstDay(coins, files, s) <= month * Days - MinHistory}
      more(a, b) == \/ coins[a].volume[month] > coins[b].volume[month]
                    \/ coins[a].volume[month] = coins[b].volume[month] /\ a > b
  IN  SetToSortSeq(old, more)

(* The coins with a volume in the month before and enough history at the   *)
(* month's start, the largest volume first; files are those read.          *)
Ranked(coins, files, month) ==
  LET old == {s \in DOMAIN coins : /\ <<s, month - 1>> \in files
                                   /\ FirstDay(coins, files, s) <= month * Days - MinHistory}
      more(a, b) == \/ coins[a].volume[month - 1] > coins[b].volume[month - 1]
                    \/ coins[a].volume[month - 1] = coins[b].volume[month - 1] /\ a > b
  IN  SetToSortSeq(old, more)

(* build_universe; the failed files were not downloaded.                   *)
Build(coins, failed, first, last, top_n) ==
  LET files == Wanted(coins, first, last) \ failed
  IN  UNION {LET ranked == Ranked(coins, files, month)
             IN  {[month |-> month, rank |-> r, symbol |-> ranked[r]] :
                    r \in 1..Min({top_n, Len(ranked)})} : month \in first..last}

(* subset_universe.                                                        *)
Subset(rows, top_n) == {row \in rows : row.rank <= top_n}

(* usdc_eligibility: contract is [volume]: the mean volume of the days of  *)
(* each month that has bars.  Eligible from the second month after its     *)
(* first one on, if the month before traded enough.                        *)
Eligible(volume, first, month) ==
  /\ DOMAIN volume # {} /\ month > first
  /\ Min(DOMAIN volume) + 2 <= month
  /\ (IF month - 1 \in DOMAIN volume THEN volume[month - 1] ELSE 0) >= MinVolume

-----------------------------------------------------------------------------
OfMonth(rows, month) == {row \in rows : row.month = month}

(* What the archive has before a month starts.                             *)
Before(coins, month) ==
  LET old == {s \in DOMAIN coins : \E x \in Months(coins[s]) : x < month}
  IN  [s \in old |->
         [listed |-> coins[s].listed,
          volume |-> [x \in {y \in Months(coins[s]) : y < month} |-> coins[s].volume[x]]]]

(* A month's coins are the largest of those that traded the month before   *)
(* and are old enough: the same whichever months are built together, and   *)
(* from what the archive had before the month.                             *)
PastOnly(coins, first, last, top_n) ==
  LET rows == Build(coins, {}, first, last, top_n)
  IN  \A month \in first..last :
        LET mine == OfMonth(rows, month)
            old  == {s \in DOMAIN coins : /\ month - 1 \in Months(coins[s])
                                          /\ coins[s].listed + MinHistory <= month * Days}
            more(s) == {x \in old : coins[x].volume[month - 1] > coins[s].volume[month - 1]}
        IN  /\ mine = Build(Before(coins, month), {}, month, month, top_n)
            /\ {row.symbol : row \in mine} \subseteq old
            /\ Cardinality(mine) = Min({top_n, Cardinality(old)})
            /\ \A row \in mine : Cardinality(more(row.symbol)) < row.rank

(* Files that could not be read leave coins out, and let no young one in.  *)
FailedFilesLeaveOut(coins, failed, first, last, top_n) ==
  \A row \in Build(coins, failed, first, last, top_n) :
    coins[row.symbol].listed + MinHistory <= row.month * Days

(* The first of a longer ranking are the shorter ranking.                  *)
SubsetIsRebuilt(coins, first, last, top_n) ==
  \A n \in 1..top_n :
    Subset(Build(coins, {}, first, last, top_n), n) = Build(coins, {}, first, last, n)

(* A contract may be traded after a full month of its own, by what it did  *)
(* before.                                                                 *)
EligibleIsPast(volume, first, month) ==
  /\ Eligible(volume, first, month) => \E x \in DOMAIN volume : x < month - 1
  /\ Eligible(volume, first, month)
       <=> Eligible([x \in {y \in DOMAIN volume : y < month} |-> volume[x]], first, month)

UniverseHolds(coins, failed, first, last, top_n) ==
  /\ PastOnly(coins, first, last, top_n)
  /\ FailedFilesLeaveOut(coins, failed, first, last, top_n)
  /\ SubsetIsRebuilt(coins, first, last, top_n)
  /\ \A s \in DOMAIN coins, month \in first..last : EligibleIsPast(coins[s].volume, first, month)

-----------------------------------------------------------------------------
(* The hourly panel (.panel and .data) and the crowding test on it         *)
(* (.crowding): what a feature at an hour is made of, when a funding is    *)
(* charged, and which hours an event and its outcome read.  An hour is Hour*)
(* units of time; a symbol's data are the times of its hourly bars and     *)
(* premium bars, of its funding settlements and of its metrics.            *)

(* asof_align: the last value available at an hour, missing when its event *)
(* is too old; no limit when stale is 0.                                   *)
AsOfAlign(events, delay, grid, stale) ==
  LET x == Max({Never} \cup {e \in events : e + delay <= grid * Hour})
  IN  IF x = Never \/ (stale > 0 /\ grid * Hour - x > stale) THEN {} ELSE {x}

(* Bug for the mutants: a bar counts from its open on.                     *)
CloseAtOpen(d, g) == AsOfAlign(d.bars, 0, g, 0)

(* kline_close_feature.                                                    *)
Close(d, g) == AsOfAlign(d.bars, Hour, g, 0)

HourlyPremium(d, g) == AsOfAlign(d.premium, Hour, g, 0)

Oi(d, g) == AsOfAlign(d.metrics, PanelDelay, g, MetricsStale)

Features(d, g) ==
  [close |-> Close(d, g), premium |-> HourlyPremium(d, g), oi |-> Oi(d, g),
   funding_8h |-> AsOfAlign(d.funding, 1, g, 0)]

(* Bug: at the hour the settlement falls in.                               *)
ChargedInHour(x) == x \div Hour

(* A funding is charged at the first hour at or after its settlement.      *)
ChargedAt(x) == - ((- x) \div Hour)

(* The orders of an hour are filled at the open of the bar that starts.    *)
Open(d, g) == IF g * Hour \in d.bars THEN {g * Hour} ELSE {}

-----------------------------------------------------------------------------
(* The crowding test.  A component that any of its values is missing of is *)
(* missing; the mean of the premium takes those that are there.            *)
Both(a, b) == IF a = {} \/ b = {} THEN {} ELSE a \cup b

MeanPremium(d, g) ==
  IF g < PremiumHours THEN {} ELSE UNION {HourlyPremium(d, x) : x \in (g - PremiumHours)..(g - 1)}

Components(d, g) ==
  [premium |-> MeanPremium(d, g),
   doi     |-> IF g < Change THEN {} ELSE Both(Oi(d, g), Oi(d, g - Change)),
   ratio   |-> Oi(d, g)]

(* Bug: among the samples around it.                                       *)
WindowAround(g) == {x \in (g - Window * SampleEvery)..(g + SampleEvery) : x >= 0 /\ x % SampleEvery = 0}

(* The samples a value is ranked among: itself and those before it.        *)
WindowOf(g) ==
  {x \in (g - (Window - 1) * SampleEvery)..g : x >= 0 /\ x % SampleEvery = 0}

(* pit_percentile of one component: every value it is ranked among.        *)
Percentile(d, g, c) ==
  LET there == {x \in WindowOf(g) : Components(d, x)[c] # {}}
  IN  IF g \notin there \/ Cardinality(there) < MinSamples THEN {}
      ELSE UNION {Components(d, x)[c] : x \in there}

(* The score, unless a component is missing; the returns before and after. *)
Event(d, g, hours) ==
  LET p(c) == Percentile(d, g, c)
  IN  [score |-> Both(Both(p("premium"), p("doi")), p("ratio")),
       past  |-> IF g < Horizon THEN {} ELSE Both(Open(d, g), Open(d, g - Horizon)),
       fwd   |-> IF g + Horizon >= hours THEN {} ELSE Both(Open(d, g), Open(d, g + Horizon))]

(* The samples of a panel of so many hours that have all of it.            *)
Events(d, hours) ==
  {g \in 0..(hours - 1) :
     g % SampleEvery = 0 /\ \A part \in {"score", "past", "fwd"} : Event(d, g, hours)[part] # {}}

-----------------------------------------------------------------------------
(* What has been published by a time: metrics lag behind their time.       *)
Published(d, t, lag) ==
  [bars    |-> {x \in d.bars : x + Hour <= t},
   premium |-> {x \in d.premium : x + Hour <= t},
   funding |-> {x \in d.funding : x + 1 <= t},
   metrics |-> {x \in d.metrics : x + lag <= t}]

(* At each hour the features, and the score of an event, are those that    *)
(* could be computed then.                                                 *)
PanelIsKnown(d, hours) ==
  \A g \in 0..(hours - 1), lag \in {0, PanelDelay} :
    LET then == Published(d, g * Hour, lag)
    IN  /\ Features(then, g) = Features(d, g)
        /\ Event(then, g, hours).score = Event(d, g, hours).score

(* A settlement is charged once, and less than an hour late.               *)
FundingOnce(d, hours) ==
  \A x \in d.funding :
    {g \in 0..hours : ChargedAt(x) = g} = {g \in 0..hours : g * Hour >= x /\ g * Hour < x + Hour}

(* A panel that ends with the development period yields no event whose     *)
(* outcome is in the lockbox, and its events are those of a longer panel   *)
(* that end in time.                                                       *)
DevelopmentEndsBefore(d, dev, hours) ==
  Events(d, dev) = {g \in Events(d, hours) : g + Horizon < dev}

(* A final run takes the events before the lockbox from the longer panel:  *)
(* those of the last day before it have their outcome in the lockbox, so   *)
(* this does not hold.                                                     *)
FinalRunIsTheSame(d, dev, hours) ==
  Events(d, dev) = {g \in Events(d, hours) : g < dev}

PanelHolds(d, dev, hours) ==
  PanelIsKnown(d, hours) /\ FundingOnce(d, hours) /\ DevelopmentEndsBefore(d, dev, hours)

=============================================================================

------------------------------- MODULE MCData -------------------------------
(* The parts of the system that handle data, accounts in process and       *)
(* research, for TLC: those of DataParts, with values of their constants,  *)
(* more parts, and the pure algorithms, which take one step to the state   *)
(* of each input.  Where a part is modelled, its own module says what its  *)
(* constants and variables mean.                                           *)
EXTENDS DataParts, SequencesExt

-----------------------------------------------------------------------------
(* Values of constants of DataParts.  The dead-man switch: that of the demo*)
(* account, which drills try, and of the bot's account, where exits rest.  *)
TwoVenues == <<"binance_usdm", "bybit_linear">>
TwoTables == <<"trades", "meta_events">>

(* The file b has no data at first.                                        *)
OneWithout == {<<"b", 1>>}

(* One of three requests weighs 2.                                         *)
Weights == [r \in Requests |-> IF r = 1 THEN 2 ELSE 1]

TwoSymbols == <<"a", "b">>
EachTick == [j \in {ClockJob, SymbolJob} |-> 1]

DemoAndBot == {[exits |-> FALSE, drills |-> 1, faults |-> 1, entries |-> 1],
               [exits |-> TRUE, drills |-> 0, faults |-> 1, entries |-> 2]}

-----------------------------------------------------------------------------
(* The pure algorithms: for each of them the inputs it is run on, and what *)
(* must be true of its result.                                             *)

Table      == INSTANCE LakeTable
Engine     == INSTANCE TradeEngine
Model      == INSTANCE PointInTime
                WITH Grid <- 2, Warmup <- 2, Windows <- {2, 4}, Quarter <- 2, PremiumBar <- 2,
                     MetricsDelay <- 2, Stale <- 3, FundingRefresh <- 2, MinCoins <- 2,
                     Days <- 3, MinHistory <- 4, MinVolume <- 1,
                     Hour <- 2, PanelDelay <- 1, MetricsStale <- 2, SampleEvery <- 2,
                     PremiumHours <- 2, Change <- 2, Horizon <- 2, Window <- 2, MinSamples <- 2

Seqs(S, n) == UNION {[1..k -> S] : k \in 1..n}

Rising(s, Of(_)) == \A i \in 1..(Len(s) - 1) : Of(s[i]) <= Of(s[i + 1])

-----------------------------------------------------------------------------
(* LakeTable: arrivals in time order, and rows of two symbols.             *)

FilterInputs ==
  [arrivals : {a \in Seqs([key : 1..2, ts : 0..4], 4) : Rising(a, LAMBDA e : e.ts)},
   max : 1..2, window : 0..2]

SpillInputs ==
  {[rows |-> [i \in DOMAIN r |-> [symbol |-> r[i].symbol, ts |-> r[i].ts, n |-> i]],
    size |-> s, width |-> w, group |-> g] :
     r \in Seqs([symbol : 1..2, ts : 2..3], 4), s \in 1..3, w \in 1..2, g \in 1..2}

-----------------------------------------------------------------------------
(* LakeTable: frames that may be copies of each other, and states of two  *)
(* symbols among frames that are invalid or broken.                        *)

Frame == [rec |-> "ws", kind |-> "meta", symbol |-> "A", id |-> 1, open |-> FALSE,
          other |-> FALSE, snapshot |-> FALSE, fields |-> <<1, 2>>, bad |-> FALSE]

Frames(kinds, open, other) ==
  {[Frame EXCEPT !.kind = k, !.id = i, !.open = o, !.other = p] :
     k \in kinds, i \in 1..2, o \in open, p \in other}

OverlapInputs ==
  LET of(venue, frames) == [venue : {venue}, frames : Seqs(frames, 3)]
  IN  of("binance_usdm", Frames({"aggTrade", "depth"}, {FALSE}, {FALSE})
                           \cup Frames({"kline"}, BOOLEAN, {FALSE})
                           \cup Frames({"forceOrder"}, {FALSE}, BOOLEAN))
      \cup of("bybit_linear", Frames({"orderbook", "publicTrade"}, {FALSE}, {FALSE}))
      \cup of("deribit", Frames({"book", "trades"}, {FALSE}, BOOLEAN))

VersionInputs ==
  LET states(kind) ==
        {[Frame EXCEPT !.kind = kind, !.symbol = s, !.fields = <<x>>] : s \in {"A", "B"}, x \in 1..2}
      broken(kind) == {[Frame EXCEPT !.kind = kind, !.rec = "ws_invalid"],
                       [Frame EXCEPT !.kind = kind, !.bad = TRUE]}
      of(venue, kind) == [venue : {venue}, frames : Seqs(states(kind) \cup broken(kind), 4)]
  IN  of("binance_usdm", "exchangeInfo") \cup of("deribit", "instrument")

-----------------------------------------------------------------------------
(* The book audit: five histories of four ids, cut into updates in every way, *)
(* the updates that arrived in some order, and two snapshots.              *)

Level(p, q) == [price |-> p, qty |-> q]

Other == Level(0, 1)      \* an id of another symbol

Histories ==
  {<<Level(1, 1), Level(2, 1), Level(2, 0), Level(1, 2)>>,
   <<Level(2, 1), Other, Level(1, 1), Level(2, 0)>>,
   <<Level(1, 1), Level(1, 0), Level(2, 2), Level(1, 1)>>,
   <<Other, Level(2, 1), Level(2, 2), Other>>,
   <<Level(1, 1), Level(2, 1), Level(1, 2), Other>>}

(* The updates of a capture whose last ids are those of ends.              *)
UpdatesOf(changes, ends) ==
  LET before(u) == Max({0} \cup {e \in ends : e < u})
  IN  {Table!UpdateOf(changes, [U |-> before(u) + 1, u |-> u, pu |-> before(u)]) : u \in ends}

Snapshots(changes, ids, floors) ==
  {<<Table!SnapshotAt(changes, i, f), Table!SnapshotAt(changes, j, g)>> :
     i \in ids, j \in ids, f \in floors, g \in floors}

CaptureInputs ==
  UNION {UNION {[arrivals : Seqs(UpdatesOf(h, ends \cup {4}), 3),
                 snaps : {s \in Snapshots(h, 0..4, {1}) \cup Snapshots(h, {1, 3}, {2}) :
                            s[1].id <= s[2].id},
                 window : {2}] : ends \in SUBSET (1..3)} : h \in Histories}

(* One level is recorded with another quantity, in an update that ends     *)
(* before the second snapshot, which no later update up to the snapshot    *)
(* touches again.                                                          *)
WrongIn(changes, i) == [changes EXCEPT ![i].qty = @ + 1]

EndOf(ends, id) == Min({e \in ends : e >= id})

Telling(changes, ends, i, s, t) ==
  /\ changes[i] # Other
  /\ s < i /\ EndOf(ends, i) < t
  /\ \A j \in (i + 1)..EndOf(ends, t) : changes[j].price # changes[i].price
  /\ DOMAIN Table!BookAt(changes, t) # {}

AlteredInputs ==
  {[arrivals |-> SetToSortSeq(UpdatesOf(WrongIn(x[1], x[3]), x[2] \cup {4}), LAMBDA a, b : a.u < b.u),
    snaps    |-> <<Table!SnapshotAt(x[1], x[4], 1), Table!SnapshotAt(x[1], x[5], 1)>>, window |-> 2] :
     x \in {y \in Histories \X (SUBSET (1..3)) \X (1..4) \X (0..3) \X (1..4) :
             Telling(y[1], y[2] \cup {4}, y[3], y[4], y[5])}}

(* Steps on a book: levels set or deleted, and the best asked for.         *)
StepInputs ==
  Seqs([ask : {FALSE}, price : 1..3, qty : 0..1] \cup {[ask |-> TRUE, price |-> 0, qty |-> 0]}, 4)

-----------------------------------------------------------------------------
(* VisionArchive: a listing of up to five entries, some of them prefixes,  *)
(* in pages of every size.                                                 *)
ListingInputs ==
  [entries : {SetToSortSeq(S, LAMBDA a, b : a < b) : S \in SUBSET (1..5)}, size : 1..5,
   pre : SUBSET (1..5), says : BOOLEAN]

-----------------------------------------------------------------------------
(* Recorder: what became of each trade of a day.                         *)

FateInputs ==
  [fate : Seqs({"kept", "altered", "down", "gap", "lost"}, 5), tol : 0..1]

-----------------------------------------------------------------------------
(* TradeEngine: five bars around the price 2, perhaps with a minute        *)
(* missing, and two signals; trades of three symbols.                      *)

Bars == {[m |-> 0, o |-> 2, h |-> h, l |-> l, c |-> 2, traded |-> TRUE] : h \in 2..3, l \in 1..2}

GapAt(bars, gap) ==
  [j \in DOMAIN bars |-> [bars[j] EXCEPT !.m = IF gap > 0 /\ j >= gap THEN j + 1 ELSE j]]

Signals ==
  {<<[i |-> 1, side |-> s, limit |-> lim, sl |-> IF s > 0 THEN 1 ELSE 3, tp |-> tp],
     [i |-> 3, side |-> 1, limit |-> 0, sl |-> 1, tp |-> 2]>> :
     s \in {1, -1}, lim \in {0, 2}, tp \in {0, 2}}

EngineInputs ==
  [bars : {GapAt(<<CHOOSE first \in Bars : TRUE>> \o b, gap) : b \in [1..4 -> Bars], gap \in {0, 4}},
   signals : Signals,
   rules : [latency : {0}, valid : {2}, hold : {1}, post_only : BOOLEAN, exit_valid : {0, 1}]
           \cup [latency : {0}, valid : {2}, hold : {2}, post_only : {TRUE}, exit_valid : {1}]]

Positions == [symbol : 1..3, in : {1}, out : 2..3, w : 1..2] \cup [symbol : 1..3, in : {2}, out : {3}, w : 1..2]

PortfolioInputs ==
  [trades : {T \in UNION {kSubset(k, Positions) : k \in 1..3} :
               \A a, b \in T : a # b /\ a.symbol = b.symbol => a.out <= b.in \/ b.out <= a.in},
   max_positions : 1..2, cap_gross : 1..3]

FoldInputs ==
  {x \in [n : 0..9, groups : 2..4, k : 1..2, purge : 0..2, embargo : 0..3] : x.n >= x.groups}

-----------------------------------------------------------------------------
(* PointInTime: a symbol with bars missing, and one with other data        *)
(* missing; the rows of two decisions; months of six and their slices.     *)

Symbol == [bars |-> 0..9, traded |-> 0..9, premium |-> {0, 2, 4, 6, 8}, metrics |-> {1, 3, 5, 7, 9},
           funding |-> {1, 5}]

RowInputs ==
  {[Symbol EXCEPT !.bars = b \cup {7}, !.traded = b \ t] : b \in SUBSET (0..6), t \in {{}, {4}}}
  \cup {[Symbol EXCEPT !.premium = p, !.funding = f] :
          p \in SUBSET {0, 2, 4, 6}, f \in SUBSET {1, 3, 5, 7}}
  \cup {[Symbol EXCEPT !.metrics = x] : x \in SUBSET {1, 3, 4, 5, 7, 9}}

GroupInputs ==
  {r \in Seqs([t : 1..2, v : {-1, 1, 2}], 5) : Rising(r, LAMBDA row : row.t)}

WalkInputs ==
  [missing : {{}, {7, 8}, {10, 15}, {11, 17}},
   spec : {[month |-> 6, train |-> 3, calib |-> 2, gap |-> g, h |-> h, entry_valid |-> e,
            exit_valid |-> x, min_train |-> n] : g \in 3..8, h \in 0..2, e \in 1..2, x \in 0..2, n \in 1..3}]

-----------------------------------------------------------------------------
(* Universe: three coins listed on different days, with months missing.    *)

Coin(listed, volumes) ==
  LET first == listed \div 3
  IN  [listed |-> listed,
       volume |-> [m \in {x \in first..3 : x = first \/ volumes[x] > 0} |-> volumes[m]]]

UniverseInputs ==
  {[coins |-> <<Coin(0, a), Coin(2, [m \in 0..3 |-> IF m = 2 THEN 2 ELSE 1]), Coin(l, b)>>,
    failed |-> f, top_n |-> n] :
     a \in [0..3 -> {1, 2}], b \in [0..3 -> {0, 2}], l \in {0, 1, 4},
     f \in {{}, {<<2, 0>>}, {<<3, 1>>, <<1, 1>>}}, n \in 1..3}

-----------------------------------------------------------------------------
(* The panel: eleven hours, of which data is missing; nine are development.    *)

HourlyData == [bars |-> {2 * h : h \in 0..10}, premium |-> {2 * h : h \in 0..10},
               funding |-> {3, 8}, metrics |-> 0..21]

PanelInputs ==
  {[HourlyData EXCEPT !.bars = @ \ x] : x \in SUBSET {8, 10, 12, 16, 20}}
  \cup {[HourlyData EXCEPT !.premium = @ \ x, !.funding = f] :
          x \in SUBSET {4, 6, 8, 12}, f \in {{}, {2}, {3, 7}, {4, 5, 12}}}
  \cup {[HourlyData EXCEPT !.metrics = @ \ x] : x \in SUBSET {5, 7, 9, 10, 12}}

-----------------------------------------------------------------------------
(* Each input with the algorithm it is for, and what must hold of it.      *)

Inputs ==
  [filter |-> FilterInputs, spill |-> SpillInputs, overlap |-> OverlapInputs,
   versions |-> VersionInputs, best |-> StepInputs, audit |-> CaptureInputs,
   altered |-> AlteredInputs, listing |-> ListingInputs, trades |-> FateInputs,
   engine |-> EngineInputs,
   portfolio |-> PortfolioInputs, folds |-> FoldInputs, rows |-> RowInputs,
   ranks |-> GroupInputs, walk |-> WalkInputs, universe |-> UniverseInputs,
   panel |-> PanelInputs]

Holds(name, x) ==
  CASE name = "filter"    -> Table!FilterIsExact(x.arrivals, x.max, x.window)
    [] name = "spill"     -> Table!SpillIsInvisible(x.rows, x.size, x.width, x.group)
    [] name = "overlap"   -> Table!OverlapIsInvisible(x.venue, x.frames)
    [] name = "versions"  -> Table!VersionsAreComplete(x.venue, x.frames)
    [] name = "best"      -> Table!BestIsBest(x)
    [] name = "audit"     -> Table!NoFalseAlarm(x.arrivals, x.snaps, x.window)
    [] name = "altered"   -> Table!WrongLevelIsFound(x.arrivals, x.snaps, x.window)
    [] name = "listing"   -> Vision!ListingIsWhole(x.entries, x.size, x.pre, x.says)
    [] name = "trades"    -> Capture!NoFalseAlarm(x.fate, x.tol) /\ Capture!LossIsFound(x.fate, x.tol)
    [] name = "engine"    -> Engine!NoLookAhead(x.bars, x.signals, x.rules)
    [] name = "portfolio" -> Engine!PortfolioHolds(x.trades, x.max_positions, x.cap_gross)
    [] name = "folds"     -> /\ Engine!TrainingIsClean(x.n, x.groups, x.k, x.purge, x.embargo)
                             /\ Engine!PathsAreComplete(x.n, x.groups, x.k)
    [] name = "rows"      -> Model!RowsAreKnown(x)
    [] name = "ranks"     -> Model!RanksAreOfTheGroup(x)
    [] name = "walk"      -> Model!WalkIsForward(0..36, (0..36) \ x.missing, 3..5, x.spec)
    [] name = "panel"     -> Model!PanelHolds(x, 9, 11)
    [] name = "universe"  -> Model!UniverseHolds(x.coins, x.failed, 1, 3, x.top_n)

-----------------------------------------------------------------------------
(* The recording of the lake's data, and what is told of it.               *)

Quality == INSTANCE Recording WITH
  Streams <- {"s", "t"}, Ticks <- 2, MaxConns <- 3, MaxEvents <- 4,
  now <- v1, running <- v2, live <- v3, log <- v4, opened <- v5, gaps <- v6, ran <- v7,
  up <- v8, blind <- v9

-----------------------------------------------------------------------------
Init ==
  \/ PartsInit \/ OnlineInit
  \/ part = "quality"  /\ Quality!Init          /\ Free10
  \/ part = "algorithm"
     /\ v1 \in DOMAIN Inputs /\ v2 = 0
     /\ Free3

Next ==
  \/ PartsNext \/ OnlineNext
  \/ part = "quality"  /\ Quality!Next          /\ UNCHANGED <<part, v10, v11, v12, v13, v14>>
  \/ part = "algorithm"
     /\ v3 = 0
     /\ v2' \in Inputs[v1] /\ v3' = 1     \* it is run on one input
     /\ UNCHANGED <<part, v1, v4, v5, v6, v7, v8, v9, v10, v11, v12, v13, v14>>

Spec == Init /\ [][Next]_vars

-----------------------------------------------------------------------------
(* The coverage the quality report states is what was recorded.  The       *)
(* algorithms of the lake, its tools and research: the duplicate filter,   *)
(* spilling and merging, normalizing, the book, the book audit, the trade  *)
(* check, the pages of a listing; the trade engine, the portfolio, the     *)
(* folds, what each row, rank, month and coin is known from.               *)
AlgorithmsHold ==
  /\ part = "quality" => Quality!CoverageIsTrue
  /\ part = "algorithm" /\ v3 = 1 => Holds(v1, v2)

=============================================================================

---------------------------- MODULE TradeEngine ----------------------------
(***************************************************************************)
(* The minute-bar trade engine of the research (quanta.research.intraday): *)
(* signals of one symbol become trades one after the other, and the        *)
(* trades of all symbols are accepted under the portfolio's limits.  Pure  *)
(* algorithms.  A bar is [m, o, h, l, c, traded], m its minute; a signal   *)
(* is [i, side, limit, sl, tp], 0 where a price is not given; the rules    *)
(* are [latency, valid, hold, post_only, exit_valid].  Slippage, fees and  *)
(* funding follow from the fills and are left out.                         *)
(***************************************************************************)
EXTENDS Integers, SequencesExt

(* A short is a long on the mirrored bars: each comparison of the code     *)
(* comes twice, once for either side.                                      *)
Seen(side, bar) ==
  IF side > 0 THEN bar
  ELSE [bar EXCEPT !.o = - bar.o, !.h = - bar.l, !.l = - bar.h, !.c = - bar.c]

Facing(side, bars) == [j \in DOMAIN bars |-> Seen(side, bars[j])]

Price(side, p) == side * p

InARow(bars, from, j) == bars[j].m = bars[from].m + (j - from)

Earliest(S) == IF S = {} THEN 0 ELSE Min(S)      \* 0: never

(* Where and at which price the signal gets in; no bar: never filled.      *)
Entry(bars, sig, rules) ==
  LET j0   == sig.i + 1 + rules.latency
      lim  == Price(sig.side, sig.limit)
      rest == IF rules.post_only THEN Min({lim, bars[j0].o}) ELSE lim
      hits == {j \in j0..Min({j0 + rules.valid - 1, Len(bars)}) :
                 /\ InARow(bars, j0, j)
                 /\ bars[j].l < rest
                 /\ rules.post_only => bars[j].traded}
      e    == Earliest(hits)
  IN  CASE ~ (j0 \in DOMAIN bars /\ InARow(bars, sig.i, j0)) -> [bar |-> 0, price |-> 0]
        [] OTHER ->
             IF sig.limit = 0 THEN [bar |-> j0, price |-> bars[j0].o]
             ELSE IF e = 0 THEN [bar |-> 0, price |-> 0]
             ELSE [bar |-> e, price |-> IF rules.post_only THEN rest ELSE Min({rest, bars[e].o})]

(* The last bar that follows the entry bar in a row, up to the time exit.  *)
LastInARow(bars, e, rules) ==
  Max({j \in e..Min({e + rules.hold + rules.exit_valid, Len(bars)}) : InARow(bars, e, j)})

(* Bug for the mutants: the end of the data is taken for the time exit.    *)
TimeUpAtTheEnd(last, due) == TRUE

TimeUp(last, due) == last >= due

Way(bar, price, why) == [bar |-> bar, price |-> price, why |-> why]

(* Where, at which price and why the position entered in bar e gets out.   *)
Exit(bars, sig, rules, e) ==
  LET last  == LastInARow(bars, e, rules)
      x0    == e + rules.hold
      timed == last >= x0
      scan  == e..(IF timed THEN x0 - 1 ELSE last)
      sl    == Price(sig.side, sig.sl)
      tp    == Price(sig.side, sig.tp)
      Stops(over)   == {j \in over : sig.sl # 0 /\ bars[j].l <= sl}
      fs    == Earliest(Stops(scan))
      ftp   == Earliest({j \in scan \ {e} : sig.tp # 0 /\ bars[j].h > tp})
      \* a maker exit rests from the time exit on; the stop still counts
      rests == timed /\ rules.exit_valid > 0 /\ fs = 0 /\ ftp = 0
      offer == Max({bars[x0 - 1].c, bars[x0].o})
      resting == IF rests THEN x0..Min({x0 + rules.exit_valid - 1, last}) ELSE {}
      fx    == Earliest({j \in resting : bars[j].h > offer /\ bars[j].traded})
      fsx   == Earliest(Stops(resting))
      stop  == IF fsx # 0 /\ (fx = 0 \/ fsx <= fx) THEN fsx ELSE fs
      due   == x0 + rules.exit_valid
  IN  CASE stop # 0 /\ (ftp = 0 \/ stop <= ftp) ->
             Way(stop, IF stop > e \/ sig.limit = 0 THEN Min({sl, bars[stop].o}) ELSE sl, "sl")
        [] ftp # 0 /\ ~ (stop # 0 /\ stop <= ftp) -> Way(ftp, Max({tp, bars[ftp].o}), "tp")
        [] stop = 0 /\ ftp = 0 /\ fx # 0 -> Way(fx, offer, "time")
        [] stop = 0 /\ ftp = 0 /\ fx = 0 /\ TimeUp(last, due) ->
             Way(Min({due, Len(bars)}), bars[Min({due, Len(bars)})].o, "time")
        [] OTHER -> Way(last, bars[last].c, "gap")

(* run_trades: one position at a time; a signal before its exit is lost.   *)
RunTrades(bars, signals, rules) ==
  FoldLeft(LAMBDA acc, sig :
      LET faced == Facing(sig.side, bars)
          in    == Entry(faced, sig, rules)
          out   == Exit(faced, sig, rules, in.bar)
      IN  IF sig.i \notin DOMAIN bars \/ sig.i < acc.busy \/ in.bar = 0 THEN acc
          ELSE [busy   |-> out.bar,
                trades |-> Append(acc.trades,
                             [side |-> sig.side, entry |-> in, exit |-> out, of |-> sig.i])],
    [busy |-> 0, trades |-> <<>>], signals).trades

-----------------------------------------------------------------------------
(* combine: in entry order, a trade is taken while there is room for one   *)
(* more position and for its weight.  A trade is [symbol, in, out, w].     *)

(* Bug: the trades come symbol by symbol.                                  *)
OrderBySymbol(a, b) == a.symbol < b.symbol

Order(a, b) == a.in < b.in \/ (a.in = b.in /\ a.symbol < b.symbol)

Weight(S) == FoldSet(LAMBDA t, sum : t.w + sum, 0, S)

Combine(trades, max_positions, cap_gross) ==
  FoldLeft(LAMBDA acc, t :
      LET open == {u \in acc.open : u.out > t.in}
      IN  IF Cardinality(open) >= max_positions \/ Weight(open) + t.w > cap_gross
          THEN [acc EXCEPT !.open = open]
          ELSE [open |-> open \cup {t}, kept |-> acc.kept \cup {t}],
    [open |-> {}, kept |-> {}], SetToSortSeq(trades, Order)).kept

-----------------------------------------------------------------------------
(* What the engine has done by a bar does not depend on any later bar: the *)
(* trades closed by bar k, other than those the end of the data forces     *)
(* out, are those a run on the first k bars makes.  The signals leave a    *)
(* resting order its time, as those of a model that decides every          *)
(* entry_valid_min minutes do.                                             *)
NoLookAhead(bars, signals, rules) ==
  LET Done(trades, k) == {t \in ToSet(trades) : t.exit.why # "gap" /\ t.exit.bar <= k}
      early(k) == SelectSeq(signals, LAMBDA s : s.i <= k)
      full     == RunTrades(bars, signals, rules)
  IN  (\A a, b \in DOMAIN signals :
         a < b => signals[b].i >= signals[a].i + rules.valid + rules.latency)
      => \A k \in DOMAIN bars :
           Done(full, k) = Done(RunTrades(SubSeq(bars, 1, k), early(k), rules), k)

(* At no time are more positions or more weight open than the portfolio    *)
(* allows, and a trade is refused only if it would have broken a limit.    *)
PortfolioHolds(trades, max_positions, cap_gross) ==
  LET kept == Combine(trades, max_positions, cap_gross)
      at(t, S) == {u \in S : u.in <= t /\ t < u.out}
      fits(S)  == Cardinality(S) <= max_positions /\ Weight(S) <= cap_gross
  IN  /\ \A t \in trades : fits(at(t.in, kept))
      /\ \A t \in trades \ kept : ~ fits(at(t.in, kept) \cup {t})

-----------------------------------------------------------------------------
(* Combinatorial purged cross-validation (quanta.research.cv): the         *)
(* observations 0..(n - 1) are cut into groups, each choice of k of them   *)
(* is the test part of one split, and the splits combine into paths that   *)
(* cover all observations out of sample.  The parameter set a split        *)
(* selects stands for itself as the split's number.                        *)

(* numpy rounds a half to the even neighbour.                              *)
RoundHalfEven(a, b) ==
  LET q == a \div b
      r == 2 * (a % b)
  IN  IF r < b \/ (r = b /\ q % 2 = 0) THEN q ELSE q + 1

(* group_bounds: group i is the observations lo..(hi - 1).                 *)
Bounds(n, groups) ==
  [i \in 1..groups |-> [lo |-> RoundHalfEven((i - 1) * n, groups),
                        hi |-> RoundHalfEven(i * n, groups)]]

Observations(b) == b.lo..(b.hi - 1)

(* itertools.combinations: in lexicographic order.                         *)
Before(a, b) == \E x \in a \ b : \A y \in b \ a : x < y

Combos(groups, k) == SetToSortSeq(kSubset(k, 1..groups), Before)

(* Bug for the mutants: only the last test block has an embargo.           *)
DroppedLast(bounds, combo, purge, embargo) ==
  UNION {(bounds[g].lo - purge)..(bounds[g].lo - 1) : g \in combo}
  \cup bounds[Max(combo)].hi..(bounds[Max(combo)].hi + embargo - 1)

(* The purge before and the embargo after each test block.                 *)
Dropped(bounds, combo, purge, embargo) ==
  UNION {(bounds[g].lo - purge)..(bounds[g].lo - 1) : g \in combo}
  \cup UNION {bounds[g].hi..(bounds[g].hi + embargo - 1) : g \in combo}

(* cpcv_splits.                                                            *)
Split(n, groups, combo, purge, embargo) ==
  LET bounds == Bounds(n, groups)
      test   == UNION {Observations(bounds[g]) : g \in combo}
  IN  [groups |-> combo, test |-> test,
       train  |-> ((0..(n - 1)) \ test) \ Dropped(bounds, combo, purge, embargo)]

(* n_paths: k C(groups, k) / groups.                                       *)
Paths(groups, k) == (k * Cardinality(kSubset(k, 1..groups))) \div groups

(* The splits that test a group, in order.                                 *)
Testers(combos, g) == SelectSeq([i \in DOMAIN combos |-> i], LAMBDA i : g \in combos[i])

(* Bug: a path takes the splits in the order of their numbers.             *)
TesterByNumber(combos, p, g) == p

Tester(combos, p, g) == Testers(combos, g)[p]

(* cpcv: for each group, path p takes the p-th split that tests it.        *)
Path(bounds, combos, p) ==
  [x \in 0..(Last(bounds).hi - 1) |->
     Tester(combos, p, CHOOSE g \in DOMAIN bounds : x \in Observations(bounds[g]))]

-----------------------------------------------------------------------------
(* Nothing is trained on within the purge before, or the embargo after, an *)
(* observation of the same split's test, and nothing else is lost.         *)
TrainingIsClean(n, groups, k, purge, embargo) ==
  \A combo \in kSubset(k, 1..groups) :
    LET s == Split(n, groups, combo, purge, embargo)
        near(x) == \E y \in s.test : y - purge <= x /\ x <= y + embargo
    IN  s.train = {x \in 0..(n - 1) : ~ near(x)}

(* Each path has one out-of-sample value for each observation, selected on *)
(* a split that tests it, and no two paths take a group from one split.    *)
PathsAreComplete(n, groups, k) ==
  LET combos == Combos(groups, k)
      bounds == Bounds(n, groups)
      path   == [p \in 1..Paths(groups, k) |-> Path(bounds, combos, p)]
  IN  \A g \in 1..groups, p, q \in DOMAIN path : \A x \in Observations(bounds[g]) :
        g \in combos[path[p][x]] /\ (path[p][x] = path[q][x] => p = q)

=============================================================================

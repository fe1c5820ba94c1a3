----------------------------- MODULE LakeTable -----------------------------
(***************************************************************************)
(* From raw records to the tables of the lake: the normalizers of the      *)
(* three venues (quanta.lake.binance_usdm, bybit_linear, deribit), and the *)
(* table builder (quanta.lake.table) with its duplicate filter whose memory*)
(* is bounded, rows spilled to disk in sorted chunks, and a partition      *)
(* merged from them in row groups.  And the other reading of the raw depth *)
(* records: the book and its offline audit.                                *)
(***************************************************************************)
EXTENDS Integers, SequencesExt, TLC

(* Raw records of one UTC day to rows.  What a handler does with a frame   *)
(* depends on its kind only:                                               *)
(*   once     every event has an identity, a copy of it is dropped         *)
(*   levels   as once, but the frame becomes a row per price level         *)
(*   closed   as once, and candles that are still open are passed over     *)
(*   usdm     as once, and rows of the other product are passed over       *)
(*   first    as once, and the event's second table follows the first      *)
(*   changes  a row only when the state differs from the symbol's last one *)
(*   merged   a delta is laid over the symbol's last state, a snapshot     *)
(*            replaces it, and every frame is a row                        *)
(*   always   every frame is a row                                         *)
(* A frame is [rec, kind, symbol, id, open, other, snapshot, fields, bad]: *)
(* rec is "ws", "ws_invalid", "rest" or "meta", bad that a field is missing*)
(* or has another type.                                                    *)

BinancePolicy ==
  [aggTrade |-> "once", markPrice |-> "once", kline |-> "closed", forceOrder |-> "usdm",
   bookTicker |-> "once", depth |-> "levels", snapshot |-> "always", openInterest |-> "once",
   premiumIndex |-> "once", fundingRate |-> "once", stats |-> "once",
   exchangeInfo |-> "changes", meta |-> "always"]

BybitPolicy ==
  [orderbook |-> "levels", publicTrade |-> "once", tickers |-> "merged",
   allLiquidation |-> "once", instruments |-> "changes", meta |-> "always"]

DeribitPolicy ==
  [book |-> "levels", trades |-> "first", ticker |-> "always",
   volatilityIndex |-> "once", instrument |-> "changes", meta |-> "always"]

Policy(venue, kind) ==
  CASE venue = "binance_usdm" -> BinancePolicy[kind]
    [] venue = "bybit_linear" -> BybitPolicy[kind]
    [] venue = "deribit"      -> DeribitPolicy[kind]

Fresh == [seen |-> {}, state |-> <<>>, rows |-> <<>>, duplicates |-> 0, invalid |-> 0, errors |-> 0]

WithRow(n, row) == [n EXCEPT !.rows = Append(@, row)]

Duplicate(n) == [n EXCEPT !.duplicates = @ + 1]

(* TableBuilder.add with the event's identity as its key.                  *)
Once(n, f, row) ==
  LET key == <<f.kind, f.symbol, f.id>>
  IN  IF key \in n.seen THEN Duplicate(n)
      ELSE WithRow([n EXCEPT !.seen = @ \cup {key}], row)

(* The depth handlers ask a filter of their own before they touch a level. *)
Levels(n, f) ==
  LET rowOf(i) == [symbol |-> f.symbol, id |-> f.id, level |-> i]
      counted  == Once(n, f, rowOf(0))
  IN  IF counted.duplicates > n.duplicates THEN counted
      ELSE [counted EXCEPT !.rows = n.rows \o [i \in 1..Len(f.fields) |-> rowOf(i)]]

Trade(n, f) ==
  LET added == Once(n, f, [symbol |-> f.symbol, id |-> f.id])
  IN  IF added.duplicates > n.duplicates \/ ~ f.other THEN added
      ELSE WithRow(added, [symbol |-> f.symbol, id |-> f.id, liquidation |-> TRUE])

StateOf(n, symbol) == IF symbol \in DOMAIN n.state THEN n.state[symbol] ELSE <<>>

(* Bug for the mutants: only what was never there before is a change.      *)
ChangesOnce(n, f) == Once(n, [f EXCEPT !.id = f.fields], [symbol |-> f.symbol, fields |-> f.fields])

Changes(n, f) ==
  IF StateOf(n, f.symbol) = f.fields THEN n
  ELSE WithRow([n EXCEPT !.state = (f.symbol :> f.fields) @@ @],
               [symbol |-> f.symbol, fields |-> f.fields])

Merged(n, f) ==
  LET base == IF f.snapshot THEN <<>> ELSE StateOf(n, f.symbol)
      now  == f.fields @@ base
  IN  WithRow([n EXCEPT !.state = (f.symbol :> now) @@ @], [symbol |-> f.symbol, fields |-> now])

Handle(n, venue, f) ==
  LET row == [symbol |-> f.symbol, id |-> f.id]
      policy == Policy(venue, f.kind)
  IN  CASE policy = "once"    -> Once(n, f, row)
        [] policy = "levels"  -> Levels(n, f)
        [] policy = "closed"  -> IF f.open THEN n ELSE Once(n, f, row)
        [] policy = "usdm"    -> IF f.other THEN n ELSE Once(n, f, row)
        [] policy = "first"   -> Trade(n, f)
        [] policy = "changes" -> Changes(n, f)
        [] policy = "merged"  -> Merged(n, f)
        [] policy = "always"  -> WithRow(n, row)

(* feed: an invalid frame and a frame of another shape are counted, and    *)
(* neither stops the day.                                                  *)
Feed(n, venue, f) ==
  CASE f.rec = "ws_invalid" -> [n EXCEPT !.invalid = @ + 1]
    [] f.rec # "ws_invalid" /\ f.bad -> [n EXCEPT !.errors = @ + 1]
    [] OTHER -> Handle(n, venue, f)

Normalized(venue, frames) ==
  FoldLeft(LAMBDA n, f : Feed(n, venue, f), Fresh, frames)

-----------------------------------------------------------------------------

Identified == {"once", "levels", "closed", "usdm", "first"}

(* Connections overlap while one replaces the other, so frames come twice: *)
(* the copies change no row of an identified kind, whatever their order.   *)
OverlapIsInvisible(venue, frames) ==
  LET firsts == SelectSeq([i \in DOMAIN frames |->
                  [f |-> frames[i], new |-> \A j \in 1..(i - 1) : frames[j] # frames[i]]],
                  LAMBDA e : e.new)
  IN  (\A i \in DOMAIN frames : Policy(venue, frames[i].kind) \in Identified) =>
        Normalized(venue, frames).rows = Normalized(venue, [i \in DOMAIN firsts |-> firsts[i].f]).rows

(* What a symbol's instrument was can be read off the rows: no two rows in *)
(* a row are the same, and the last one is the last state seen, also when  *)
(* a value returns to what it was before.                                  *)
VersionsAreComplete(venue, frames) ==
  LET valid  == SelectSeq(frames, LAMBDA f : f.rec # "ws_invalid" /\ ~ f.bad)
      rows   == Normalized(venue, frames).rows
      of(s)  == SelectSeq(rows, LAMBDA r : r.symbol = s)
  IN  (frames # <<>> /\ \A i \in DOMAIN frames : Policy(venue, frames[i].kind) = "changes") =>
        \A i \in DOMAIN valid :
           LET mine == of(valid[i].symbol)
           IN  /\ \A k \in 1..(Len(mine) - 1) : mine[k].fields # mine[k + 1].fields
               /\ (\A j \in (i + 1)..Len(valid) : valid[j].symbol # valid[i].symbol) =>
                     mine[Len(mine)].fields = valid[i].fields

-----------------------------------------------------------------------------
(* The table builder: a row is [symbol, ts, n], n its place in the input,  *)
(* and a batch of a chunk holds the rows of one symbol and one time bucket.*)

(* A stable sort: where the key says nothing, the earlier row comes first. *)
Stably(rows, Before(_, _)) ==
  LET rank(i) == Cardinality({j \in DOMAIN rows :
                   Before(rows[j], rows[i]) \/ (j < i /\ ~ Before(rows[i], rows[j]))})
  IN  [r \in DOMAIN rows |-> rows[CHOOSE i \in DOMAIN rows : rank(i) = r - 1]]

Earlier(a, b) == a.ts < b.ts

BySymbolThenTime(a, b) == a.symbol < b.symbol \/ (a.symbol = b.symbol /\ a.ts < b.ts)

-----------------------------------------------------------------------------
(* SeenKeys: exact up to max keys; beyond that the keys that came before   *)
(* the window, counted from the newest arrival, are forgotten.             *)

NothingSeen == [keys |-> {}, order |-> <<>>]

(* Bug for the mutants: the oldest keys go, whatever the window says.      *)
ForgetToMax(seen, max, window, ts) ==
  LET kept == SubSeq(seen.order, Max({1, Len(seen.order) + 1 - max}), Len(seen.order))
  IN  [keys |-> {e.key : e \in ToSet(kept)}, order |-> kept]

Forget(seen, max, window, ts) ==
  LET old(e) == e.ts + window < ts
      first  == SelectInSeq(seen.order, LAMBDA e : ~ old(e))
      gone   == IF first = 0 THEN Len(seen.order) ELSE first - 1
  IN  [keys  |-> seen.keys \ {seen.order[i].key : i \in 1..gone},
       order |-> SubSeq(seen.order, gone + 1, Len(seen.order))]

Remember(seen, max, window, e) ==
  LET all == [keys |-> seen.keys \cup {e.key}, order |-> Append(seen.order, e)]
  IN  IF Cardinality(all.keys) > max THEN Forget(all, max, window, e.ts) ELSE all

(* TableBuilder.add with a key, for a whole sequence of arrivals: the      *)
(* places in it whose rows are kept, and what is remembered at the end.    *)
Filtered(arrivals, max, window) ==
  FoldLeftDomain(
    LAMBDA acc, i : IF arrivals[i].key \in acc.seen.keys THEN acc
                    ELSE [seen |-> Remember(acc.seen, max, window, arrivals[i]),
                          kept |-> acc.kept \cup {i}],
    [seen |-> NothingSeen, kept |-> {}], arrivals)

(* A row whose key did not arrive before is kept, one whose key was kept   *)
(* within the window is dropped, and memory holds no more than the keys of *)
(* the window once it is over its maximum: for arrivals in time order.     *)
FilterIsExact(arrivals, max, window) ==
  LET out == Filtered(arrivals, max, window)
      recent(i) == {j \in 1..(i - 1) : arrivals[j].key = arrivals[i].key
                                        /\ arrivals[j].ts + window >= arrivals[i].ts}
      first(i) == \A j \in 1..(i - 1) : arrivals[j].key # arrivals[i].key
      newest == arrivals[Max(out.kept)].ts
      inWindow == {j \in out.kept : arrivals[j].ts + window >= newest}
  IN  /\ \A i \in DOMAIN arrivals : first(i) => i \in out.kept
      /\ \A i \in DOMAIN arrivals : recent(i) \cap out.kept # {} => i \notin out.kept
      /\ Cardinality(out.seen.keys) <= Max({max, Cardinality(inWindow)})

-----------------------------------------------------------------------------
(* Spilling and merging.                                                   *)

Bucket(row, width) == <<row.symbol, row.ts \div width>>

(* _spill: a chunk is sorted, then cut where the symbol or the bucket      *)
(* changes.                                                                *)
Spill(rows, width) ==
  LET sorted == Stably(rows, BySymbolThenTime)
  IN  [b \in {Bucket(r, width) : r \in ToSet(sorted)} |->
         SelectSeq(sorted, LAMBDA r : Bucket(r, width) = b)]

Chunks(rows, size) ==
  [c \in 1..((Len(rows) + size - 1) \div size) |->
     SubSeq(rows, (c - 1) * size + 1, Min({c * size, Len(rows)}))]

(* Bug: the slices of a bucket are appended without sorting them again.    *)
MergeUnsorted(rows) == rows

Merge(rows) == Stably(rows, Earlier)

(* sorted_parts: without a full chunk everything is sorted in memory, else *)
(* the buckets are merged one after the other, their slices in the order   *)
(* of the chunks.                                                          *)
SortedParts(rows, size, width) ==
  IF Len(rows) < size THEN <<Stably(rows, BySymbolThenTime)>>
  ELSE LET chunks  == [c \in DOMAIN Chunks(rows, size) |-> Spill(Chunks(rows, size)[c], width)]
           buckets == UNION {DOMAIN chunks[c] : c \in DOMAIN chunks}
           inOrder == SetToSortSeq(buckets, LAMBDA a, b : a[1] < b[1] \/ (a[1] = b[1] /\ a[2] < b[2]))
           slices(b) == FlattenSeq([c \in DOMAIN chunks |->
                          IF b \in DOMAIN chunks[c] THEN chunks[c][b] ELSE <<>>])
       IN  [i \in DOMAIN inOrder |-> Merge(slices(inOrder[i]))]

(* write_partition: row groups of exactly `group` rows, whatever the parts,*)
(* and one last group of the rest (or an empty one).                       *)
RowGroups(parts, group) ==
  LET fill(acc, part) ==
        LET all == acc.rest \o part
            n   == Len(all) \div group
        IN  [groups |-> acc.groups \o [i \in 1..n |-> SubSeq(all, (i - 1) * group + 1, i * group)],
             rest   |-> SubSeq(all, n * group + 1, Len(all))]
      end == FoldLeft(fill, [groups |-> <<>>, rest |-> <<>>], parts)
  IN  IF end.rest = <<>> /\ end.groups # <<>> THEN end.groups ELSE Append(end.groups, end.rest)

(* However small the chunks, the partition is the stable sort of the rows, *)
(* in the same row groups as without spilling (the determinism contract).  *)
SpillIsInvisible(rows, size, width, group) ==
  /\ FlattenSeq(SortedParts(rows, size, width)) = Stably(rows, BySymbolThenTime)
  /\ RowGroups(SortedParts(rows, size, width), group)
       = RowGroups(<<Stably(rows, BySymbolThenTime)>>, group)

-----------------------------------------------------------------------------
(* The order book (quanta.marketstate.orderbook) and the offline audit of  *)
(* a recorded one (quanta.tools.book_audit): the recorded updates, put back*)
(* in order, are replayed and the book is compared with every recorded     *)
(* snapshot.  An update is [U, u, pu, changes, corrupt], a snapshot        *)
(* [id, levels, floor]: it shows no price below floor.                     *)

(* One side of the book: absolute quantities per price, the best price     *)
(* cached and found again only when it was deleted and somebody asks.  The *)
(* bids; the asks are their mirror.  A book is [levels, best, dirty],      *)
(* levels a function from prices.                                          *)

NoPrice == 0

EmptyBook == [levels |-> <<>>, best |-> NoPrice, dirty |-> FALSE]

Without(levels, price) == [p \in DOMAIN levels \ {price} |-> levels[p]]

BestOf(levels) == IF DOMAIN levels = {} THEN NoPrice ELSE Max(DOMAIN levels)

Delete(book, price) ==
  [book EXCEPT !.levels = Without(@, price),
               !.dirty = @ \/ (price \in DOMAIN book.levels /\ price = book.best)]

(* Bug for the mutants: a price that comes while the best is unknown is    *)
(* taken for the best.                                                     *)
PutAlways(book, price, qty) ==
  [levels |-> (price :> qty) @@ book.levels,
   best   |-> IF book.best = NoPrice \/ book.dirty \/ price > book.best THEN price ELSE book.best,
   dirty  |-> FALSE]

Put(book, price, qty) ==
  [book EXCEPT !.levels = (price :> qty) @@ @,
               !.best = IF ~ book.dirty /\ (@ = NoPrice \/ price > @) THEN price ELSE @]

Set(book, price, qty) == IF qty = 0 THEN Delete(book, price) ELSE Put(book, price, qty)

(* best_bid: the question itself may change the cache.                     *)
AskBest(book) ==
  IF book.dirty \/ (book.best = NoPrice /\ DOMAIN book.levels # {})
    THEN [book EXCEPT !.best = BestOf(book.levels), !.dirty = FALSE]
    ELSE book

(* apply: the levels of an update, one after the other.                    *)
Apply(book, update) ==
  FoldLeft(LAMBDA b, l : Set(b, l.price, l.qty), book, update)

LoadSnapshot(update) == Apply(EmptyBook, update)

(* After any levels, with the best asked for in between or not, the cached *)
(* best is the best there is.                                              *)
BestIsBest(steps) ==
  LET after == FoldLeft(LAMBDA b, s : IF s.ask THEN AskBest(b) ELSE Set(b, s.price, s.qty),
                        EmptyBook, steps)
  IN  AskBest(after).best = BestOf(after.levels)

-----------------------------------------------------------------------------
(* The audit.                                                              *)

NoId == 0

(* in_order: a heap of at most `window` updates by their last id; what     *)
(* comes out at or below the last id that came out is dropped.             *)
Pop(acc) ==
  LET least == CHOOSE e \in acc.heap : \A f \in acc.heap : e.u <= f.u
  IN  [heap |-> acc.heap \ {least},
       last |-> Max({acc.last, least.u}),
       out  |-> IF least.u > acc.last THEN Append(acc.out, least) ELSE acc.out]

InOrder(arrivals, window) ==
  LET push(acc, e) ==
        LET full == [acc EXCEPT !.heap = @ \cup {e}]
        IN  IF Cardinality(full.heap) > window THEN Pop(full) ELSE full
      held == FoldLeft(push, [heap |-> {}, last |-> NoId, out |-> <<>>], arrivals)
      drained == FoldLeft(LAMBDA acc, i : Pop(acc), held, [i \in 1..Cardinality(held.heap) |-> i])
  IN  drained.out

-----------------------------------------------------------------------------
(* State of the audit: the book, or none (seeded FALSE), the last id, the  *)
(* next snapshot, and the counters of the report.                          *)

NothingReplayed ==
  [seeded |-> FALSE, book |-> EmptyBook, last |-> NoId, next |-> 1,
   compared |-> 0, mismatched |-> 0, breaks |-> 0, errors |-> 0, skipped |-> 0]

Unseeded(a) == [a EXCEPT !.seeded = FALSE, !.book = EmptyBook, !.last = NoId]

Touched(e) == {l.price : l \in ToSet(e.changes)}

(* _compare: the prices the snapshot shows, without those the update that  *)
(* spans it has touched.                                                   *)
Same(book, snap, touched) ==
  LET ours == {p \in DOMAIN book.levels : p >= snap.floor}
      qty(levels, p) == IF p \in DOMAIN levels THEN levels[p] ELSE 0
  IN  DOMAIN snap.levels = {} \/
      \A p \in (ours \cup DOMAIN snap.levels) \ touched : qty(book.levels, p) = qty(snap.levels, p)

(* A snapshot that differs ends the replay until another one seeds it.     *)
Compare(a, snaps, touched) ==
  LET snap == snaps[a.next]
      seen == [a EXCEPT !.compared = @ + 1, !.next = @ + 1]
  IN  IF Same(a.book, snap, touched) THEN seen
      ELSE Unseeded([seen EXCEPT !.mismatched = @ + 1])

Skip(a) == [a EXCEPT !.skipped = @ + 1, !.next = @ + 1]

Times(Op(_), a, n) == FoldLeft(LAMBDA b, i : Op(b), a, [i \in 1..n |-> i])

(* Snapshots up to id that are still to be looked at, while Go holds.      *)
While(a, snaps, Go(_, _), Op(_)) ==
  Times(LAMBDA b : IF b.next <= Len(snaps) /\ Go(b, snaps[b.next]) THEN Op(b) ELSE b, a, Len(snaps))

Advance(a, e) ==
  [a EXCEPT !.seeded = TRUE, !.book = Apply(@, e.changes), !.last = e.u]

(* Bug for the mutants: the levels the update has touched are compared too.*)
SpannedWhole(a, e, snaps) ==
  While(a, snaps, LAMBDA b, s : b.seeded /\ s.id <= e.u, LAMBDA b : Compare(b, snaps, {}))

(* Snapshots the update spans show the state somewhere inside it.          *)
Spanned(a, e, snaps) ==
  While(a, snaps, LAMBDA b, s : b.seeded /\ s.id <= e.u, LAMBDA b : Compare(b, snaps, Touched(e)))

Behind(a, e, snaps) == While(a, snaps, LAMBDA b, s : s.id < e.U /\ s.id # e.pu, Skip)

(* A snapshot seeds the book when this update bridges it: it lies in the   *)
(* update, or is where the update starts from.                             *)
Bridges(a, e, snaps) ==
  LET behind == Behind(a, e, snaps)
  IN  behind.next <= Len(snaps) /\ snaps[behind.next].id <= e.u

Seeded(a, snaps) ==
  [a EXCEPT !.book = [EmptyBook EXCEPT !.levels = snaps[a.next].levels], !.next = @ + 1]

(* Snapshots between two updates see the state after the first.            *)
Between(a, e, snaps) ==
  While(a, snaps, LAMBDA b, s : b.seeded /\ s.id < e.U,
        LAMBDA b : IF snaps[b.next].id >= b.last THEN Compare(b, snaps, {}) ELSE Skip(b))

(* An update whose levels do not fit the scale: the book is given up, and  *)
(* the place in the snapshots is what it was before the update.            *)
GiveUp(a, next) == Unseeded([a EXCEPT !.errors = @ + 1, !.next = next])

(* _step.                                                                  *)
Step(a0, e, snaps) ==
  LET broken == a0.seeded /\ e.pu # a0.last
      a      == IF broken THEN [Unseeded(a0) EXCEPT !.breaks = @ + 1] ELSE a0
      before == IF a.seeded THEN Between(a, e, snaps) ELSE Behind(a, e, snaps)
      ready  == IF a.seeded THEN before.seeded ELSE Bridges(a, e, snaps)
      start  == IF a.seeded THEN before ELSE Seeded(before, snaps)
  IN  CASE ~ ready -> before
        [] ready /\ e.corrupt -> GiveUp(before, a0.next)
        [] OTHER -> Spanned(Advance(start, e), e, snaps)

Audit(arrivals, snaps, window) ==
  FoldLeft(LAMBDA a, e : Step(a, e, snaps), NothingReplayed, InOrder(arrivals, window))

-----------------------------------------------------------------------------
(* Against the truth: changes[i] is what the exchange changed at its i-th  *)
(* id, no price when the id belongs to another symbol.                     *)

LevelsOf(changes) == SelectSeq(changes, LAMBDA l : l.price # NoPrice)

BookAt(changes, id) == Apply(EmptyBook, LevelsOf(SubSeq(changes, 1, id))).levels

UpdateOf(changes, e) ==
  [U |-> e.U, u |-> e.u, pu |-> e.pu, corrupt |-> FALSE, changes |-> LevelsOf(SubSeq(changes, e.U, e.u))]

SnapshotAt(changes, id, floor) ==
  LET levels == BookAt(changes, id)
  IN  [id |-> id, floor |-> floor,
       levels |-> [p \in {q \in DOMAIN levels : q >= floor} |-> levels[p]]]

(* A true capture is never found wrong: whatever is lost, comes twice or   *)
(* late (within the window), and whenever the snapshots are taken.         *)
NoFalseAlarm(arrivals, snaps, window) == Audit(arrivals, snaps, window).mismatched = 0

(* A capture in which one level of one update is wrong is found out by a   *)
(* snapshot that shows the level before it is touched again.               *)
WrongLevelIsFound(arrivals, snaps, window) ==
  LET a == Audit(arrivals, snaps, window) IN a.compared > 0 => a.mismatched > 0

=============================================================================

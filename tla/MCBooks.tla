------------------------------ MODULE MCBooks ------------------------------
(* Instances of DepthSync, BybitSync and DeribitSync for TLC: the book of  *)
(* one venue, which the initial state chooses, over one or two connections *)
(* at a time.  What belongs to the other venues stands still.              *)
EXTENDS StreamBook

CONSTANTS c1, c2, MaxEvents, MaxBuffer

VARIABLES
  venue, slots,
  leaving, base,                  \* Bybit's
  resub, asked,                   \* Deribit's
  history, changed, seqr, live, requested, queue, worker, scales  \* Binance's

streamVars  == <<head, due, last, known>>
bybitVars   == <<leaving, base>>
deribitVars == <<resub, asked>>
binanceVars == <<history, changed, seqr, live, requested, queue, worker, scales>>
vars == <<wsVars, stream, state, faults, bybitVars, deribitVars, binanceVars, venue, slots>>

Binance == INSTANCE DepthSyncProofs
Bybit   == INSTANCE BybitSync
Deribit == INSTANCE DeribitSync

ASSUME BooksAssumption == Binance!DepthAssumption

OneSlot == {c1}
TwoSlots == {c1, c2}

NoStream  == head = 0 /\ due = [c \in Conns |-> None] /\ last = None /\ known = FALSE
NoBybit   == leaving = FALSE /\ base = None
NoDeribit == resub = FALSE /\ asked = {}
NoBinance ==
  /\ history = <<>> /\ changed = None
  /\ seqr = Binance!NeedSnapshot
  /\ live = FALSE /\ requested = FALSE /\ queue = 0 /\ worker = "idle" /\ scales = None

Init ==
  \/ /\ venue = "binance" /\ slots = OneSlot
     /\ Binance!Init /\ NoStream /\ NoBybit /\ NoDeribit
  \/ /\ venue = "bybit" /\ slots \in {OneSlot, TwoSlots}
     /\ Bybit!Init /\ NoDeribit /\ NoBinance
  \/ /\ venue = "deribit" /\ slots \in {OneSlot, TwoSlots}
     /\ Deribit!Init /\ NoBybit /\ NoBinance

(* Bound of Bybit with two connections at a time: no faults, and the       *)
(* numbers neither start again nor are forgotten while a connection is     *)
(* delivering.                                                             *)
Orderly ==
  /\ faults' = 0 /\ base' = None
  /\ (last # None /\ last' = None) => open' = {}

Within(others) == open' \subseteq slots /\ UNCHANGED <<others, venue, slots>>

BinanceOnly(A) == venue = "binance" /\ A /\ Within(<<streamVars, bybitVars, deribitVars>>)
BybitOnly(A) ==
  venue = "bybit" /\ A /\ Within(<<deribitVars, binanceVars>>) /\ (slots = TwoSlots => Orderly)
DeribitOnly(A) == venue = "deribit" /\ A /\ Within(<<bybitVars, binanceVars>>)

Next == BinanceOnly(Binance!Next) \/ BybitOnly(Bybit!Next) \/ DeribitOnly(Deribit!Next)

(* The fairness of DepthSync.                                              *)
Spec ==
  /\ Init /\ [][Next]_vars
  /\ WF_vars(BinanceOnly(Binance!Worker))
  /\ SF_vars(BinanceOnly(Binance!Resync(Binance!LastUpdate)))
  /\ WF_vars(BinanceOnly(Binance!UpdateScales))

-----------------------------------------------------------------------------

TypeOK ==
  CASE venue = "binance" -> Binance!TypeOK
    [] venue = "bybit"   -> Bybit!TypeOK
    [] venue = "deribit" -> Deribit!TypeOK

(* The books of Bybit and Deribit are the exchange's, at the last update.  *)
StreamBooks ==
  /\ venue = "bybit"   => Bybit!BookIsTrue
  /\ venue = "deribit" => Deribit!BookIsTrue

(* A snapshot that is awaited is asked for, under way or due.  With two    *)
(* connections at a time it does not hold (README, smaller disagreements). *)
SnapshotComes ==
  slots = OneSlot => CASE venue = "binance" -> TRUE
                       [] venue = "bybit"   -> Bybit!SnapshotComes
                       [] venue = "deribit" -> Deribit!SnapshotComes

(* A symbol of Binance that waits for a snapshot gets one, unless the      *)
(* worker has died.                                                        *)
Resyncs == Binance!Resyncs

=============================================================================

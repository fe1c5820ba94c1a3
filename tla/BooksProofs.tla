---------------------------- MODULE BooksProofs ----------------------------
(***************************************************************************)
(* Proofs about MCBooks, for any connections, events, updates, levels and  *)
(* any number of faults: what its steps mean for the venue that runs.  The *)
(* part about Binance is DepthSyncProofs; what Bybit's and Deribit's books *)
(* have in common is that one more update sets one more level (BookAtNext).*)
(***************************************************************************)
EXTENDS MCBooks, Integers, TLAPS

(* Division with a divisor that is not a number.                           *)
LEMMA DivMod ==
  ASSUME NEW a \in Nat, NEW b \in Nat \ {0}
  PROVE  a = (a \div b) * b + (a % b) /\ a % b \in 0..(b - 1) /\ (a \div b) \in Nat
BY SMTT(30)

LEMMA RemainderUnique ==
  ASSUME NEW q \in Int, NEW p \in Int, NEW b \in Nat \ {0},
         NEW r \in 0..(b - 1), NEW s \in 0..(b - 1), q * b + r = p * b + s
  PROVE  r = s
<1>1. (q - p) * b = s - r
  BY SMTT(30)
<1>2. CASE q - p >= 1
  <2>1. (q - p) * b >= b
    BY <1>2, SMTT(30)
  <2> QED
    BY <2>1, <1>1, SMT
<1>3. CASE q - p <= -1
  <2>1. (q - p) * b <= -b
    BY <1>3, SMTT(30)
  <2> QED
    BY <2>1, <1>1, SMT
<1>4. CASE q - p = 0
  <2>1. (q - p) * b = 0
    BY <1>4, SMTT(30)
  <2> QED
    BY <2>1, <1>1, SMT
<1> QED
  BY <1>2, <1>3, <1>4, SMT

LEMMA Remainder ==
  ASSUME NEW a \in Nat, NEW b \in Nat \ {0}, NEW q \in Int, NEW r \in 0..(b - 1), a = q * b + r
  PROVE  a % b = r
BY DivMod, RemainderUnique

LEMMA RemainderOfNext ==
  ASSUME NEW a \in Nat, NEW b \in Nat \ {0}
  PROVE  (a + 1) % b = IF a % b = b - 1 THEN 0 ELSE (a % b) + 1
<1> DEFINE q == a \div b
           r == a % b
<1>1. a = q * b + r /\ r \in 0..(b - 1) /\ q \in Nat
  BY DivMod
<1> HIDE DEF q, r
<1>2. CASE r = b - 1
  <2>1. a + 1 = (q + 1) * b + 0
    BY <1>1, <1>2, SMTT(30)
  <2>2. (a + 1) % b = 0
    BY <2>1, <1>1, Remainder
  <2> QED
    BY <2>2, <1>2 DEF r
<1>3. CASE r # b - 1
  <2>1. a + 1 = q * b + (r + 1) /\ r + 1 \in 0..(b - 1)
    BY <1>1, <1>3, SMTT(30)
  <2>2. (a + 1) % b = r + 1
    BY <2>1, <1>1, Remainder
  <2> QED
    BY <2>2, <1>3 DEF r
<1> QED
  BY <1>2, <1>3

-----------------------------------------------------------------------------
(* Update n + 1 sets the level whose distance was greatest.                *)
LEMMA LevelOfNext ==
  ASSUME NEW n \in Nat, NEW l \in Levels
  PROVE  (n + 1) % NLevels = l <=> (n + 1 + NLevels - l) % NLevels = 0
<1> DEFINE m == n + 1 + NLevels - l
<1>1. NLevels \in Nat \ {0} /\ l \in 0..(NLevels - 1) /\ m \in Nat /\ n + 1 \in Nat
  BY StreamAssumption DEF Levels
<1>2. ASSUME (n + 1) % NLevels = l PROVE m % NLevels = 0
  <2> DEFINE q == (n + 1) \div NLevels
  <2>1. n + 1 = q * NLevels + l /\ q \in Nat
    BY <1>1, <1>2, DivMod
  <2> HIDE DEF q
  <2>2. m = (q + 1) * NLevels + 0
    BY <1>1, <2>1, SMTT(30)
  <2> HIDE DEF m
  <2> QED
    BY <1>1, <2>1, <2>2, Remainder
<1>3. ASSUME m % NLevels = 0 PROVE (n + 1) % NLevels = l
  <2> DEFINE q == m \div NLevels
  <2>1. m = q * NLevels + 0 /\ q \in Nat
    BY <1>1, <1>3, DivMod
  <2> HIDE DEF q
  <2>2. n + 1 = (q - 1) * NLevels + l
    BY <1>1, <2>1, SMTT(30)
  <2> HIDE DEF m
  <2>3. q - 1 \in Int
    BY <2>1
  <2> QED
    BY <1>1, <2>3, <2>2, Remainder
<1> QED
  BY <1>2, <1>3

LEMMA BookAtLevel ==
  ASSUME NEW n, NEW l \in Levels
  PROVE  BookAt(n)[l] = IF n - ((n + NLevels - l) % NLevels) > 0
                        THEN n - ((n + NLevels - l) % NLevels) ELSE 0
BY Zenon DEF BookAt

(* What BookAt promises: one more update is one more level set.            *)
LEMMA BookAtNext ==
  ASSUME NEW n \in Nat
  PROVE  BookAt(n + 1) = Applied(BookAt(n), n + 1)
<1> DEFINE d(l) == (n + NLevels - l) % NLevels
           e(l) == (n + 1 + NLevels - l) % NLevels
<1>1. ASSUME NEW l \in Levels
      PROVE  /\ d(l) \in 0..(NLevels - 1)
             /\ e(l) = IF d(l) = NLevels - 1 THEN 0 ELSE d(l) + 1
             /\ (n + 1) % NLevels = l <=> e(l) = 0
  <2>1. NLevels \in Nat \ {0} /\ n + NLevels - l \in Nat
    BY StreamAssumption DEF Levels
  <2>2. n + 1 + NLevels - l = (n + NLevels - l) + 1
    BY <2>1, StreamAssumption DEF Levels
  <2>3. d(l) \in 0..(NLevels - 1)
    BY <2>1, DivMod
  <2>4. ((n + NLevels - l) + 1) % NLevels =
          IF (n + NLevels - l) % NLevels = NLevels - 1 THEN 0
          ELSE ((n + NLevels - l) % NLevels) + 1
    BY <2>1, RemainderOfNext
  <2>5. e(l) = IF d(l) = NLevels - 1 THEN 0 ELSE d(l) + 1
    BY <2>2, <2>4, Zenon
  <2>6. (n + 1) % NLevels = l <=> e(l) = 0
    BY LevelOfNext
  <2> QED
    BY <2>3, <2>5, <2>6, Zenon
<1>2. (n + 1) % NLevels \in Levels
  BY DivMod, StreamAssumption DEF Levels
<1>3. ASSUME NEW l \in Levels PROVE BookAt(n + 1)[l] = Applied(BookAt(n), n + 1)[l]
  <2>1. BookAt(n + 1)[l] = IF (n + 1) - e(l) > 0 THEN (n + 1) - e(l) ELSE 0
    BY BookAtLevel
  <2>2. BookAt(n)[l] = IF n - d(l) > 0 THEN n - d(l) ELSE 0
    BY DEF BookAt
  <2>3. Applied(BookAt(n), n + 1)[l] = IF (n + 1) % NLevels = l THEN n + 1 ELSE BookAt(n)[l]
    BY DEF Applied, BookAt
  <2> HIDE DEF d, e
  <2>4. CASE e(l) = 0
    BY <2>1, <2>3, <2>4, <1>1
  <2>5. CASE e(l) # 0
    <3>1. e(l) = d(l) + 1 /\ d(l) \in Int /\ (n + 1) % NLevels # l
      BY <2>5, <1>1, StreamAssumption
    <3>2. (n + 1) - e(l) = n - d(l)
      BY <3>1
    <3> QED
      BY <3>1, <3>2, <2>1, <2>2, <2>3
  <2> QED
    BY <2>4, <2>5
<1> QED
  <2>1. DOMAIN BookAt(n + 1) = Levels /\ DOMAIN Applied(BookAt(n), n + 1) = Levels
    BY DEF BookAt, Applied
  <2>2. /\ BookAt(n + 1) = [l \in Levels |-> BookAt(n + 1)[l]]
        /\ Applied(BookAt(n), n + 1) = [l \in Levels |-> Applied(BookAt(n), n + 1)[l]]
    BY DEF BookAt, Applied
  <2> QED
    BY <1>3, <2>2

LEMMA DeribitBook ==
  /\ Deribit!Levels = Levels
  /\ \A n : Deribit!BookAt(n) = BookAt(n)
  /\ \A b, n : Deribit!Applied(b, n) = Applied(b, n)
BY DEF Deribit!BookAt, Deribit!Applied, Deribit!Levels, BookAt, Applied, Levels

(* Numbers are numbers, and there is no book before the scales are known.  *)
DeribitInv ==
  /\ head \in 0..MaxUpdates
  /\ pos \in [Conns -> 0..MaxUpdates]
  /\ last \in 0..MaxUpdates \cup {None}
  /\ known \/ book = None
  /\ Deribit!BookIsTrue

LEMMA DeribitInit == Deribit!Init => DeribitInv
BY StreamAssumption DEF Deribit!Init, Deribit!StreamInit, DeribitInv, Deribit!BookIsTrue

(* The levels _load is given are what the book becomes, or there is none.  *)
LEMMA LoadTrue ==
  ASSUME NEW levels, Deribit!Load(levels), last' = None \/ levels = None \/ levels = Deribit!BookAt(last')
  PROVE  Deribit!BookIsTrue' /\ (book' = levels \/ book' = None)
BY DEF Deribit!Load, Deribit!BookIsTrue, Deribit!BookAt, Deribit!Levels

LEMMA UpdateFrameMoves ==
  ASSUME DeribitInv, NEW c \in Conns, Deribit!UpdateFrame(c)
  PROVE  /\ head' = head
         /\ pos' \in [Conns -> 0..MaxUpdates]
         /\ pos'[c] \in 1..MaxUpdates
BY StreamAssumption DEF DeribitInv, Deribit!UpdateFrame

LEMMA SnapshotKeeps == ASSUME DeribitInv, NEW c \in Conns, Deribit!Snapshot(c) PROVE DeribitInv'
<1>1. /\ head' = head /\ pos' = pos /\ known' = known
      /\ pos[c] \in 0..MaxUpdates
  BY DEF Deribit!Snapshot, Deribit!SnapshotFrame, DeribitInv
<1>2. CASE last # None /\ pos[c] <= last /\ ~ resub
  <2>1. UNCHANGED <<last, book, resub>>
    BY <1>2 DEF Deribit!Snapshot
  <2> QED
    BY <1>1, <2>1 DEF DeribitInv, Deribit!BookIsTrue, Deribit!BookAt, Deribit!Levels
<1>3. CASE ~ (last # None /\ pos[c] <= last /\ ~ resub)
  <2> DEFINE levels == IF known THEN Deribit!BookAt(pos[c]) ELSE book
  <2>1. last' = pos[c] /\ Deribit!Load(levels)
    BY <1>3 DEF Deribit!Snapshot
  <2>2. levels = None \/ levels = Deribit!BookAt(last')
    BY <2>1 DEF DeribitInv
  <2>3. known \/ levels = None
    BY DEF DeribitInv
  <2> HIDE DEF levels
  <2>4. Deribit!BookIsTrue' /\ (book' = levels \/ book' = None)
    BY <2>1, <2>2, LoadTrue
  <2> QED
    BY <1>1, <2>1, <2>3, <2>4 DEF DeribitInv
<1> QED
  BY <1>2, <1>3

LEMMA ChangeKeeps == ASSUME DeribitInv, NEW c \in Conns, Deribit!Change(c) PROVE DeribitInv'
<1> DEFINE n == pos'[c]
<1>1. /\ head' = head /\ pos' \in [Conns -> 0..MaxUpdates] /\ known' = known
      /\ n \in 1..MaxUpdates
  BY UpdateFrameMoves DEF Deribit!Change
<1>2. CASE UNCHANGED <<last, book, resub>>
  BY <1>1, <1>2 DEF DeribitInv, Deribit!BookIsTrue, Deribit!BookAt, Deribit!Levels
<1>3. CASE Deribit!Resubscribe /\ UNCHANGED <<last, book>> /\ ~ resub
  BY <1>1, <1>3 DEF DeribitInv, Deribit!BookIsTrue, Deribit!BookAt, Deribit!Levels
<1>4. CASE /\ last # None /\ ~ resub /\ Deribit!Chained(n) /\ last' = n
           /\ Deribit!Load(IF book = None THEN None ELSE Deribit!Applied(book, n))
  <2> DEFINE levels == IF book = None THEN None ELSE Deribit!Applied(book, n)
  <2>1. last \in 0..MaxUpdates /\ n = last + 1
    BY <1>1, <1>4, StreamAssumption DEF DeribitInv, Deribit!Chained
  <2>2. Deribit!BookAt(last + 1) = Deribit!Applied(Deribit!BookAt(last), last + 1)
    BY <2>1, StreamAssumption, BookAtNext, DeribitBook
  <2>3. levels = None \/ levels = Deribit!BookAt(last')
    <3>1. CASE book = None
      BY <3>1
    <3>2. CASE book # None
      <4>1. book = Deribit!BookAt(last)
        BY <3>2, <1>4 DEF DeribitInv, Deribit!BookIsTrue
      <4>2. levels = Deribit!Applied(Deribit!BookAt(last), n)
        BY <3>2, <4>1
      <4> HIDE DEF levels, n
      <4> QED
        BY <4>2, <2>1, <2>2, <1>4
    <3> QED
      BY <3>1, <3>2
  <2>4. known \/ levels = None
    BY DEF DeribitInv
  <2>5. Deribit!Load(levels)
    BY <1>4
  <2> HIDE DEF levels
  <2>6. Deribit!BookIsTrue' /\ (book' = levels \/ book' = None)
    BY <2>3, <2>5, LoadTrue
  <2> QED
    BY <1>1, <1>4, <2>4, <2>6 DEF DeribitInv
<1> QED
  BY <1>2, <1>3, <1>4 DEF Deribit!Change

LEMMA NextDeribitInv == ASSUME DeribitInv, [Deribit!Next]_(Deribit!vars) PROVE DeribitInv'
<1>1. CASE Deribit!Exchange
  BY <1>1, StreamAssumption
    DEF Deribit!Exchange, Deribit!Publish, DeribitInv, Deribit!sync, Deribit!state, Deribit!BookIsTrue, Deribit!BookAt, Deribit!Levels
<1>2. CASE Deribit!Connection
  <2>1. UNCHANGED <<last, book, known, resub, head>>
    BY <1>2 DEF Deribit!Connection, Deribit!Opened, Deribit!Subscribed, Deribit!OtherFrame, Deribit!stream, Deribit!sync, Deribit!state
  <2>2. pos' \in [Conns -> 0..MaxUpdates]
    BY <1>2 DEF Deribit!Connection, Deribit!Opened, Deribit!Subscribed, Deribit!OtherFrame, Deribit!stream, DeribitInv
  <2> QED
    BY <2>1, <2>2 DEF DeribitInv, Deribit!BookIsTrue, Deribit!BookAt, Deribit!Levels
<1>3. CASE Deribit!LoadInstruments
  BY <1>3 DEF Deribit!LoadInstruments, Deribit!stream, DeribitInv, Deribit!BookIsTrue, Deribit!BookAt, Deribit!Levels
<1>4. ASSUME NEW c \in Conns, Deribit!Malformed(c) PROVE DeribitInv'
  <2>1. UNCHANGED <<last, book, known, resub>>
    BY <1>4 DEF Deribit!Malformed, Deribit!sync, Deribit!state
  <2>2. head' = head /\ pos' \in [Conns -> 0..MaxUpdates]
    BY <1>4, UpdateFrameMoves DEF Deribit!Malformed
  <2> QED
    BY <2>1, <2>2 DEF DeribitInv, Deribit!BookIsTrue, Deribit!BookAt, Deribit!Levels
<1>5. ASSUME NEW c \in Conns, Deribit!AfterLifecycle(c) PROVE DeribitInv'
  BY <1>5 DEF Deribit!AfterLifecycle, Deribit!stream, DeribitInv, Deribit!BookIsTrue, Deribit!BookAt, Deribit!Levels
<1>6. ASSUME NEW c \in Conns, Deribit!Resubscribed(c) PROVE DeribitInv'
  BY <1>6 DEF Deribit!Resubscribed, DeribitInv, Deribit!BookIsTrue, Deribit!BookAt, Deribit!Levels
<1>7. CASE UNCHANGED Deribit!vars
  BY <1>7 DEF Deribit!vars, Deribit!stream, Deribit!sync, Deribit!state, DeribitInv, Deribit!BookIsTrue, Deribit!BookAt, Deribit!Levels
<1> QED
  BY <1>1, <1>2, <1>3, <1>4, <1>5, <1>6, <1>7, SnapshotKeeps, ChangeKeeps DEF Deribit!Next

(* Whatever connections deliver, late, twice or not at all, whatever is    *)
(* lost and subscribed anew: a book that awaits no snapshot is the         *)
(* exchange's book at the last change that was seen.                       *)
THEOREM DeribitBookHolds == Deribit!Spec => []Deribit!BookIsTrue
<1>1. DeribitInv => Deribit!BookIsTrue
  BY DEF DeribitInv
<1> QED
  BY <1>1, DeribitInit, NextDeribitInv, PTL DEF Deribit!Spec

-----------------------------------------------------------------------------
(* What Bybit and Deribit have in common: the connections and the stream.  *)

LEMMA SameActions ==
  /\ (Bybit!Supervise => Binance!Supervise) /\ (Deribit!Supervise => Binance!Supervise)
  /\ \A c : /\ Bybit!Connect(c) => Binance!Connect(c)
            /\ Bybit!Rotate(c) => Binance!Rotate(c)
            /\ Bybit!Down(c) => Binance!Down(c)
            /\ Bybit!Frame(c) => Binance!Frame(c)
            /\ Deribit!Connect(c) => Binance!Connect(c)
            /\ Deribit!Rotate(c) => Binance!Rotate(c)
            /\ Deribit!Down(c) => Binance!Down(c)
            /\ Deribit!Frame(c) => Binance!Frame(c)
<1>1. (Bybit!Supervise => Binance!Supervise) /\ (Deribit!Supervise => Binance!Supervise)
  BY DEF Binance!Supervise, Binance!Notice, Binance!Overlap, Binance!GiveUp, Binance!Switch,
    Binance!Closed, Binance!connected,
    Bybit!Supervise, Bybit!Notice, Bybit!Overlap, Bybit!GiveUp, Bybit!Switch,
    Bybit!Closed, Bybit!connected,
    Deribit!Supervise, Deribit!Notice, Deribit!Overlap, Deribit!GiveUp, Deribit!Switch,
    Deribit!Closed, Deribit!connected
<1> QED
  BY <1>1 DEF
    Binance!Connect, Binance!Rotate, Binance!Down, Binance!Frame, Binance!connected,
    Bybit!Connect, Bybit!Rotate, Bybit!Down, Bybit!Frame, Bybit!connected,
    Deribit!Connect, Deribit!Rotate, Deribit!Down, Deribit!Frame, Deribit!connected

(* Every step of the stream: nothing, an update, a subscription, a         *)
(* snapshot or an update delivered, the service's restart.                 *)
StreamStep ==
  \/ UNCHANGED stream
  \/ head < MaxUpdates /\ head' = head + 1 /\ UNCHANGED <<pos, due>>
  \/ \E c \in Conns : pos' = [pos EXCEPT ![c] = head] /\ due' = [due EXCEPT ![c] = head]
                      /\ UNCHANGED head
  \/ \E c \in Conns : due' = [due EXCEPT ![c] = None] /\ UNCHANGED <<head, pos>>
  \/ \E c \in Conns : pos[c] < head /\ pos' = [pos EXCEPT ![c] = @ + 1] /\ UNCHANGED <<head, due>>
  \/ \E c \in Conns : due' = [due EXCEPT ![c] = head] /\ UNCHANGED <<head, pos>>
  \/ due' = [c \in Conns |-> IF c \in open THEN head ELSE due[c]] /\ UNCHANGED <<head, pos>>

StreamOK ==
  /\ head \in 0..MaxUpdates
  /\ pos \in [Conns -> 0..MaxUpdates]
  /\ due \in [Conns -> 0..MaxUpdates \cup {None}]
  /\ \A c \in Conns : pos[c] <= head

LEMMA StreamKeeps == ASSUME StreamOK, StreamStep PROVE StreamOK'
BY StreamAssumption DEF StreamOK, StreamStep, stream

LEMMA BybitMoves ==
  ASSUME Binance!WsInv, Bybit!Next
  PROVE  Binance!WsStep /\ StreamStep
<1>1. ASSUME NEW c \in Conns, Bybit!Opened(c) PROVE Binance!WsStep /\ StreamStep
  BY <1>1, SameActions DEF Bybit!Opened, Bybit!Subscribed, Binance!WsStep, StreamStep
<1>2. ASSUME NEW c \in Conns, Bybit!OtherFrame(c) PROVE Binance!WsStep /\ StreamStep
  BY <1>2, SameActions DEF Bybit!OtherFrame, Bybit!stream, Binance!WsStep, StreamStep, stream
<1>3. ASSUME NEW c \in Conns, Bybit!Snapshot(c) PROVE Binance!WsStep /\ StreamStep
  BY <1>3, SameActions DEF Bybit!Snapshot, Bybit!SnapshotFrame, Binance!WsStep, StreamStep
<1>4. ASSUME NEW c \in Conns, Bybit!Delta(c) PROVE Binance!WsStep /\ StreamStep
  BY <1>4, SameActions DEF Bybit!Delta, Bybit!UpdateFrame, Binance!WsStep, StreamStep
<1>5. ASSUME NEW c, Bybit!AfterLifecycle(c) PROVE Binance!WsStep /\ StreamStep
  <2>1. Binance!Down(c) /\ UNCHANGED stream
    BY <1>5, SameActions DEF Bybit!AfterLifecycle, Bybit!stream, stream
  <2>2. c \in Conns
    BY <2>1 DEF Binance!Down, Binance!WsInv, Binance!WsTypeOK
  <2> QED
    BY <2>1, <2>2 DEF Binance!WsStep, StreamStep
<1>6. CASE Bybit!ForceReconnect
  <2>1. CASE Bybit!AfterLifecycle(active)
    BY <2>1, <1>5
  <2>2. CASE UNCHANGED wsVars /\ UNCHANGED stream
    BY <2>2 DEF Binance!WsStep, StreamStep, wsVars, Binance!wsVars
  <2> QED
    BY <1>6, <2>1, <2>2 DEF Bybit!ForceReconnect, Bybit!wsVars, Bybit!stream, wsVars, stream
<1>7. CASE Bybit!LoadInstruments \/ Bybit!Exchange
  <2>1. UNCHANGED wsVars
    BY <1>7 DEF Bybit!LoadInstruments, Bybit!Exchange, Bybit!wsVars, wsVars
  <2>2. StreamStep
    BY <1>7 DEF Bybit!LoadInstruments, Bybit!Exchange, Bybit!Publish, Bybit!stream, StreamStep, stream
  <2> QED
    BY <2>1, <2>2 DEF Binance!WsStep, Binance!wsVars, wsVars
<1>8. CASE Bybit!Supervise /\ UNCHANGED stream
  BY <1>8, SameActions DEF Binance!WsStep, StreamStep
<1> QED
  BY <1>1, <1>2, <1>3, <1>4, <1>5, <1>6, <1>7, <1>8
  DEF Bybit!Next, Bybit!Connection, Bybit!Disconnected, Bybit!stream, stream

LEMMA DeribitMoves ==
  ASSUME Binance!WsInv, Deribit!Next
  PROVE  Binance!WsStep /\ StreamStep
<1>1. ASSUME NEW c \in Conns, Deribit!Opened(c) PROVE Binance!WsStep /\ StreamStep
  BY <1>1, SameActions DEF Deribit!Opened, Deribit!Subscribed, Binance!WsStep, StreamStep
<1>2. ASSUME NEW c \in Conns, Deribit!OtherFrame(c) PROVE Binance!WsStep /\ StreamStep
  BY <1>2, SameActions DEF Deribit!OtherFrame, Deribit!stream, Binance!WsStep, StreamStep, stream
<1>3. ASSUME NEW c \in Conns, Deribit!Snapshot(c) PROVE Binance!WsStep /\ StreamStep
  BY <1>3, SameActions DEF Deribit!Snapshot, Deribit!SnapshotFrame, Binance!WsStep, StreamStep
<1>4. ASSUME NEW c \in Conns, Deribit!Change(c) \/ Deribit!Malformed(c)
      PROVE  Binance!WsStep /\ StreamStep
  BY <1>4, SameActions
  DEF Deribit!Change, Deribit!Malformed, Deribit!UpdateFrame, Binance!WsStep, StreamStep
<1>5. ASSUME NEW c \in Conns, Deribit!AfterLifecycle(c) PROVE Binance!WsStep /\ StreamStep
  BY <1>5, SameActions DEF Deribit!AfterLifecycle, Deribit!stream, Binance!WsStep, StreamStep, stream
<1>6. ASSUME NEW c \in Conns, Deribit!Resubscribed(c) PROVE Binance!WsStep /\ StreamStep
  BY <1>6 DEF Deribit!Resubscribed, Deribit!wsVars, Binance!WsStep, Binance!wsVars, StreamStep
<1>7. CASE Deribit!LoadInstruments \/ Deribit!Exchange
  BY <1>7 DEF Deribit!LoadInstruments, Deribit!Exchange, Deribit!Publish, Deribit!wsVars,
    Deribit!stream, Binance!WsStep, Binance!wsVars, StreamStep, stream
<1>8. CASE Deribit!Supervise /\ UNCHANGED stream
  BY <1>8, SameActions DEF Binance!WsStep, StreamStep
<1> QED
  BY <1>1, <1>2, <1>3, <1>4, <1>5, <1>6, <1>7, <1>8
  DEF Deribit!Next, Deribit!Connection, Deribit!stream, stream

LEMMA WsKeeps == ASSUME Binance!WsInv, Binance!WsStep PROVE Binance!WsInv'
<1>1. Binance!WsAssumption /\ Binance!DepthAssumption
  BY WsAssumption, BooksAssumption DEF Binance!WsAssumption, WsAssumption
<1> QED
  BY <1>1, Binance!WsStepKeeps

(* With one connection at a time it is the active one that is open.        *)
OneWs == open \subseteq {c1} /\ open \subseteq {active} /\ run \in {"connect", "serve"}

LEMMA OneWsKeeps ==
  ASSUME Binance!WsInv, OneWs, Binance!WsStep, open' \subseteq OneSlot
  PROVE  OneWs'
<1> USE DEF OneWs, OneSlot, Binance!WsInv, Binance!NoStray
<1>1. CASE Binance!Supervise
  BY <1>1 DEF Binance!Supervise, Binance!Notice, Binance!Overlap, Binance!GiveUp, Binance!Switch,
    Binance!Closed, Binance!connected
<1>2. ASSUME NEW c \in Conns, Binance!Connect(c) \/ Binance!Down(c) \/ Binance!Frame(c) PROVE OneWs'
  BY <1>2 DEF Binance!Connect, Binance!Down, Binance!Frame
<1>3. ASSUME NEW c \in Conns, Binance!Rotate(c) PROVE FALSE
  BY <1>3 DEF Binance!Rotate, Binance!connected
<1> QED
  BY <1>1, <1>2, <1>3 DEF Binance!WsStep, Binance!wsVars

BookTypes ==
  /\ book \in [Levels -> 0..MaxUpdates] \cup {None}
  /\ known \in BOOLEAN
  /\ known \/ book = None
  /\ faults \in 0..MaxFaults

LEMMA BookAtType == ASSUME NEW n \in 0..MaxUpdates PROVE BookAt(n) \in [Levels -> 0..MaxUpdates]
<1>1. ASSUME NEW l \in Levels PROVE BookAt(n)[l] \in 0..MaxUpdates
  <2> DEFINE d == (n + NLevels - l) % NLevels
  <2>1. n + NLevels - l \in Nat
    BY StreamAssumption DEF Levels
  <2>2. d \in 0..(NLevels - 1)
    BY <2>1, DivMod, StreamAssumption
  <2>3. BookAt(n)[l] = IF n - d > 0 THEN n - d ELSE 0
    BY BookAtLevel
  <2> HIDE DEF d
  <2> QED
    BY <2>2, <2>3, StreamAssumption
<1>2. BookAt(n) = [l \in Levels |-> BookAt(n)[l]]
  BY DEF BookAt
<1> QED
  BY <1>1, <1>2

LEMMA AppliedType ==
  ASSUME NEW b \in [Levels -> 0..MaxUpdates], NEW n \in 0..MaxUpdates
  PROVE  Applied(b, n) \in [Levels -> 0..MaxUpdates]
BY DEF Applied

-----------------------------------------------------------------------------
(* Bybit.                                                                  *)

LEMMA BybitBook ==
  /\ Bybit!Levels = Levels
  /\ \A n : Bybit!BookAt(n) = BookAt(n)
  /\ \A b, n : Bybit!Applied(b, n) = Applied(b, n)
BY DEF Bybit!BookAt, Bybit!Applied, Bybit!Levels, BookAt, Applied, Levels

LEMMA Fresh ==
  ASSUME NEW number, NEW levels, Bybit!Load(number, levels)
  PROVE  \/ last' = number /\ book' = levels /\ UNCHANGED <<leaving, faults>>
         \/ last' = None /\ book' = None /\ leaving' = TRUE
            /\ faults < MaxFaults /\ faults' = faults + 1
BY DEF Bybit!Load, Bybit!Fault

(* One connection: what is due is the snapshot of the subscription, which  *)
(* starts the book, or the one of the restarted service, which is numbered *)
(* 1 and comes at the update behind which the numbers are new.             *)
OneNumber ==
  IF due[c1] = None
  THEN (base # None => pos[c1] >= base) /\ last = Bybit!SnapshotNo(pos[c1])
  ELSE base # None /\ due[c1] = base /\ pos[c1] <= base /\ last = Bybit!Old(pos[c1])

BybitOne ==
  /\ c1 \in open => /\ (base # None /\ due[c1] # None) => due[c1] >= base
                    /\ (last = None /\ due[c1] = None) => leaving
  /\ last # None => /\ c1 \in open
                    /\ OneNumber
                    /\ book # None => book = BookAt(pos[c1])

(* Two connections, and the service does not restart: update n has been    *)
(* seen on one of them, and no connection is ahead of it.                  *)
BybitTwo ==
  /\ base = None
  /\ \A c \in open : due[c] # None => due[c] = pos[c]
  /\ last = None => \A c \in open : due[c] # None
  /\ last # None =>
       \E n \in 0..head : /\ last = Bybit!Old(n)
                          /\ book # None => book = BookAt(n)
                          /\ \A c \in open : due[c] = None => pos[c] <= n

BybitTypes ==
  /\ Binance!WsInv /\ StreamOK /\ BookTypes
  /\ leaving \in BOOLEAN
  /\ base \in 0..MaxUpdates \cup {None}
  /\ base # None => base <= head

LEMMA BybitTypesKeep == ASSUME BybitTypes, Bybit!Next PROVE BybitTypes'
<1> USE DEF BybitTypes
<1>1. Binance!WsInv' /\ StreamOK'
  BY BybitMoves, StreamKeeps, WsKeeps
<1>2. ASSUME NEW number, NEW levels \in [Levels -> 0..MaxUpdates] \cup {None},
             levels # None => known,
             Bybit!Load(number, levels), UNCHANGED <<known, base, head>>
      PROVE  BybitTypes'
  <2>1. faults' \in 0..MaxFaults /\ leaving' \in BOOLEAN
    <3>1. \/ UNCHANGED <<leaving, faults>>
          \/ leaving' = TRUE /\ faults < MaxFaults /\ faults' = faults + 1
      BY <1>2, Fresh
    <3>2. faults' \in 0..MaxFaults
      BY <3>1, StreamAssumption DEF BookTypes
    <3>3. leaving' \in BOOLEAN
      BY <3>1, Zenon
    <3> QED
      BY <3>2, <3>3
  <2>2. book' \in {levels, None}
    BY <1>2, Fresh
  <2> QED
    BY <1>1, <1>2, <2>1, <2>2 DEF BookTypes, StreamOK
<1>3. ASSUME NEW c \in Conns, Bybit!Snapshot(c) PROVE BybitTypes'
  <2> DEFINE levels == IF known THEN Bybit!BookAt(pos[c]) ELSE book
  <2>1. levels \in [Levels -> 0..MaxUpdates] \cup {None} /\ (levels # None => known)
    BY BookAtType, BybitBook DEF BookTypes, StreamOK
  <2>2. UNCHANGED <<known, base, head>>
    BY <1>3 DEF Bybit!Snapshot, Bybit!SnapshotFrame
  <2>3. CASE UNCHANGED <<last, book, leaving, faults>>
    BY <1>1, <2>2, <2>3 DEF BookTypes, StreamOK
  <2>4. CASE Bybit!Load(Bybit!SnapshotNo(pos[c]), levels)
    <3> HIDE DEF levels
    <3> QED
      BY <1>2, <2>1, <2>2, <2>4
  <2> QED
    BY <1>3, <2>3, <2>4 DEF Bybit!Snapshot
<1>4. ASSUME NEW c \in Conns, Bybit!Delta(c) PROVE BybitTypes'
  <2> DEFINE levels == IF book = None THEN None ELSE Bybit!Applied(book, pos'[c])
  <2>1. levels \in [Levels -> 0..MaxUpdates] \cup {None} /\ (levels # None => known)
    <3>1. pos'[c] \in 0..MaxUpdates
      BY <1>1 DEF StreamOK
    <3> QED
      BY <3>1, AppliedType, BybitBook DEF BookTypes
  <2>2. UNCHANGED <<known, base, head>>
    BY <1>4 DEF Bybit!Delta, Bybit!UpdateFrame
  <2>3. CASE UNCHANGED <<last, book, leaving, faults>>
    BY <1>1, <2>2, <2>3 DEF BookTypes, StreamOK
  <2>4. CASE Bybit!Load(Bybit!NumberOf(pos'[c]), levels)
    <3> HIDE DEF levels
    <3> QED
      BY <1>2, <2>1, <2>2, <2>4
  <2> QED
    BY <1>4, <2>3, <2>4 DEF Bybit!Delta
<1>5. CASE Bybit!Exchange
  BY <1>1, <1>5, StreamAssumption
  DEF Bybit!Exchange, Bybit!Publish, Bybit!sync, Bybit!state, BookTypes, StreamOK
<1>6. CASE Bybit!LoadInstruments \/ Bybit!ForceReconnect \/ Bybit!Connection
           \/ \E c \in Conns : Bybit!Disconnected(c)
  <2>1. UNCHANGED <<book, base, faults>> /\ head' = head /\ known' \in BOOLEAN
        /\ (known => known') /\ leaving' \in BOOLEAN
    BY <1>6 DEF Bybit!LoadInstruments, Bybit!ForceReconnect, Bybit!Connection, Bybit!Disconnected,
      Bybit!AfterLifecycle, Bybit!Opened, Bybit!Subscribed, Bybit!OtherFrame, Bybit!stream,
      Bybit!sync, Bybit!state, BookTypes
  <2> QED
    BY <1>1, <2>1 DEF BookTypes, StreamOK
<1> QED
  BY <1>3, <1>4, <1>5, <1>6 DEF Bybit!Next

LEMMA BybitOneSnapshot ==
  ASSUME BybitTypes, OneWs, BybitOne, NEW c \in Conns, Bybit!Snapshot(c)
  PROVE  BybitOne'
<1> DEFINE levels == IF known THEN Bybit!BookAt(pos[c1]) ELSE book
           u == Bybit!SnapshotNo(pos[c1])
<1>1. /\ c = c1 /\ c1 \in Conns /\ c1 \in open /\ open' = open /\ due[c1] = pos[c1]
      /\ due' = [due EXCEPT ![c1] = None] /\ pos' = pos /\ base' = base
  BY DEF Bybit!Snapshot, Bybit!SnapshotFrame, Bybit!Frame, OneWs
<1>2. due'[c1] = None
  BY <1>1 DEF BybitTypes, StreamOK
<1>3. pos[c1] \in Nat /\ pos[c1] # None
  BY <1>1, StreamAssumption DEF BybitTypes, StreamOK
<1>4. base # None => base \in Nat /\ pos[c1] >= base
  BY <1>1, <1>3, StreamAssumption DEF BybitOne, BybitTypes
<1>5. Bybit!Newer(u)
  <2>1. CASE last = None
    BY <2>1 DEF Bybit!Newer
  <2>2. CASE last # None
    <3>1. base # None /\ pos[c1] = base
      BY <2>2, <1>1, <1>3 DEF BybitOne, OneNumber
    <3>2. u = 1
      BY <3>1, <1>3, <1>4 DEF Bybit!SnapshotNo, Bybit!New
    <3> HIDE DEF u
    <3> QED
      BY <3>2 DEF Bybit!Newer
  <2> QED
    BY <2>1, <2>2
<1>6. Bybit!Load(u, levels)
  BY <1>1, <1>5 DEF Bybit!Snapshot
<1>7. levels # None => levels = BookAt(pos[c1])
  BY BybitBook DEF BybitTypes, BookTypes
<1>8. u = Bybit!SnapshotNo(pos[c1])'
  BY <1>1 DEF Bybit!SnapshotNo, Bybit!New, Bybit!Old
<1>9. BookAt(pos'[c1]) = BookAt(pos[c1])
  BY <1>1
<1> HIDE DEF u, levels
<1>10. CASE last' = u /\ book' = levels /\ UNCHANGED leaving
  <2>1. OneNumber'
    BY <1>1, <1>2, <1>4, <1>8, <1>10 DEF OneNumber
  <2>2. u # None
    BY <1>1, <1>3, <1>4, StreamAssumption DEF u, Bybit!SnapshotNo, Bybit!New, Bybit!Old
  <2> QED
    BY <1>1, <1>2, <1>7, <1>9, <1>10, <2>1, <2>2 DEF BybitOne
<1>11. CASE last' = None /\ leaving' = TRUE
  BY <1>1, <1>2, <1>11 DEF BybitOne
<1> QED
  BY <1>6, <1>10, <1>11, Fresh

LEMMA BybitOneDelta ==
  ASSUME BybitTypes, OneWs, BybitOne, NEW c \in Conns, Bybit!Delta(c)
  PROVE  BybitOne'
<1> DEFINE p == pos[c1]
           u == Bybit!NumberOf(p + 1)
           levels == IF book = None THEN None ELSE Bybit!Applied(book, p + 1)
<1>1. /\ c = c1 /\ c1 \in Conns /\ c1 \in open /\ open' = open /\ due[c1] # p
      /\ p < head /\ due' = due /\ base' = base /\ pos' = [pos EXCEPT ![c1] = @ + 1]
  <2>1. c = c1 /\ c1 \in Conns /\ c1 \in open /\ open' = open
    BY DEF Bybit!Delta, Bybit!UpdateFrame, Bybit!Frame, OneWs
  <2> QED
    BY <2>1 DEF Bybit!Delta, Bybit!UpdateFrame
<1>2. pos'[c1] = p + 1 /\ p \in Nat /\ MaxUpdates \in Nat
  BY <1>1, StreamAssumption DEF BybitTypes, StreamOK
<1>3. base # None => base \in Nat
  BY StreamAssumption DEF BybitTypes
<1>4. CASE UNCHANGED <<last, book, leaving>> /\ last = None
  BY <1>1, <1>4 DEF BybitOne
<1>5. ASSUME last # None
      PROVE  /\ (due[c1] = None /\ base # None) => p >= base
             /\ last = IF due[c1] = None THEN Bybit!SnapshotNo(p) ELSE Bybit!Old(p)
             /\ due[c1] # None => base # None /\ due[c1] = base /\ p + 1 <= base
  BY <1>1, <1>2, <1>3, <1>5 DEF BybitOne, OneNumber
<1>6. ASSUME last # None PROVE last \in Nat /\ u \in Nat /\ u > last
  BY <1>2, <1>3, <1>5, <1>6 DEF Bybit!NumberOf, Bybit!SnapshotNo, Bybit!New, Bybit!Old
<1>7. ASSUME last # None
      PROVE  IF due[c1] = None THEN u = Bybit!SnapshotNo(p + 1) ELSE u = Bybit!Old(p + 1)
  BY <1>2, <1>3, <1>5, <1>7 DEF Bybit!NumberOf, Bybit!SnapshotNo, Bybit!New, Bybit!Old
<1>8. CASE Bybit!Load(u, levels) /\ last # None
  <2>1. levels # None => levels = BookAt(p + 1)
    <3>1. CASE book # None
      <4>1. book = BookAt(p)
        BY <1>8, <3>1 DEF BybitOne
      <4>2. BookAt(p + 1) = Applied(BookAt(p), p + 1)
        BY <1>2, BookAtNext
      <4> HIDE DEF p
      <4> QED
        BY <3>1, <4>1, <4>2, BybitBook
    <3> QED
      BY <3>1
  <2>2. BookAt(pos'[c1]) = BookAt(p + 1)
    BY <1>2
  <2> HIDE DEF levels
  <2>3. CASE last' = u /\ book' = levels /\ UNCHANGED leaving
    <3>1. IF due[c1] = None THEN u = Bybit!SnapshotNo(pos[c1])' ELSE u = Bybit!Old(pos[c1])'
      <4> HIDE DEF u, p
      <4> QED
        BY <1>1, <1>2, <1>7, <1>8 DEF Bybit!SnapshotNo, Bybit!New, Bybit!Old
    <3>2. (due[c1] = None /\ base # None) => p + 1 >= base
      BY <1>2, <1>3, <1>5, <1>8
    <3>3. due[c1] # None => base # None /\ due[c1] = base /\ p + 1 <= base
      BY <1>5, <1>8
    <3> HIDE DEF u, p
    <3>4. OneNumber'
      BY <1>1, <1>2, <2>3, <3>1, <3>2, <3>3 DEF OneNumber
    <3>5. u # None
      BY <1>6, <1>8, StreamAssumption
    <3> QED
      BY <1>1, <1>2, <2>1, <2>2, <2>3, <3>4, <3>5 DEF BybitOne
  <2>4. CASE last' = None /\ leaving' = TRUE
    BY <1>1, <2>4 DEF BybitOne
  <2> HIDE DEF u
  <2> QED
    BY <1>8, <2>3, <2>4, Fresh
<1>9. (UNCHANGED <<last, book, leaving>> /\ last = None) \/ (Bybit!Load(u, levels) /\ last # None)
  <2>1. CASE last = None
    BY <2>1 DEF Bybit!Delta
  <2>2. CASE last # None
    <3>1. u = Bybit!NumberOf(pos'[c]) /\ levels = IF book = None THEN None ELSE Bybit!Applied(book, pos'[c])
      BY <1>1, <1>2
    <3>2. ~ (u <= last)
      BY <1>6, <2>2
    <3> HIDE DEF u, levels
    <3> QED
      BY <2>2, <3>1, <3>2 DEF Bybit!Delta
  <2> QED
    BY <2>1, <2>2
<1> QED
  BY <1>4, <1>8, <1>9

LEMMA BybitOneKeeps ==
  ASSUME BybitTypes, OneWs, BybitOne, Bybit!Next, open' \subseteq OneSlot
  PROVE  BybitOne'
<1>1. ASSUME NEW c, Bybit!AfterLifecycle(c) PROVE BybitOne'
  <2>1. c = c1 /\ open' = {} /\ last' = None
    BY <1>1 DEF Bybit!AfterLifecycle, Bybit!Down, Bybit!connected, OneWs
  <2> QED
    BY <2>1 DEF BybitOne
<1>2. CASE Bybit!ForceReconnect
  <2>1. CASE ~ Bybit!connected
    <3>1. c1 \notin open
      BY <2>1 DEF OneWs, Bybit!connected
    <3>2. open' = open /\ last' = last
      BY <1>2, <2>1 DEF Bybit!ForceReconnect, Bybit!wsVars
    <3> QED
      BY <3>1, <3>2 DEF BybitOne
  <2>2. CASE Bybit!AfterLifecycle(active)
    BY <1>1, <2>2
  <2> QED
    BY <1>2, <2>1, <2>2 DEF Bybit!ForceReconnect
<1>3. CASE Bybit!Exchange
  <2>1. UNCHANGED <<open, last, book, leaving, pos>> /\ (c1 \in open => c1 \in Conns)
    BY <1>3 DEF Bybit!Exchange, Bybit!Publish, Bybit!sync, Bybit!state, Bybit!wsVars,
      BybitTypes, Binance!WsInv, Binance!WsTypeOK
  <2>2. CASE UNCHANGED <<due, base>>
    BY <2>1, <2>2 DEF BybitOne, OneNumber, Bybit!SnapshotNo, Bybit!New, Bybit!Old
  <2>3. CASE /\ base = None /\ \A c \in open : due[c] = None /\ base' = head
             /\ due' = [c \in Conns |-> IF c \in open THEN head ELSE due[c]]
    <3>1. c1 \in open => due[c1] = None /\ due'[c1] = head /\ pos[c1] <= head /\ head \in Nat
                         /\ head # None
      BY <2>1, <2>3, StreamAssumption DEF BybitTypes, StreamOK
    <3> QED
      BY <2>1, <2>3, <3>1 DEF BybitOne, OneNumber, Bybit!SnapshotNo, Bybit!New, Bybit!Old
  <2> QED
    BY <1>3, <2>2, <2>3 DEF Bybit!Exchange, Bybit!Publish
<1>4. ASSUME NEW c \in Conns, Bybit!Opened(c), UNCHANGED <<last, book, leaving, base>> PROVE BybitOne'
  <2>1. c = c1 /\ c1 \notin open /\ due' = [due EXCEPT ![c1] = head]
    BY <1>4 DEF Bybit!Opened, Bybit!Connect, Bybit!Rotate, Bybit!Subscribed, OneSlot
  <2>2. last' = None /\ due'[c1] = head /\ head # None /\ (base # None => base <= head)
    BY <1>4, <2>1, StreamAssumption DEF BybitOne, BybitTypes, StreamOK
  <2> QED
    BY <1>4, <2>1, <2>2 DEF BybitOne
<1>5. CASE UNCHANGED <<open, last, book, leaving, base, stream>>
  BY <1>5 DEF BybitOne, OneNumber, Bybit!SnapshotNo, Bybit!New, Bybit!Old, stream
<1>6. CASE Bybit!LoadInstruments
  BY <1>5, <1>6 DEF Bybit!LoadInstruments, Bybit!wsVars, Bybit!stream, stream
<1>7. CASE Bybit!Connection
  <2>1. ASSUME Bybit!Supervise PROVE open' = open
    BY <2>1 DEF Bybit!Supervise, Bybit!Notice, Bybit!Overlap, Bybit!GiveUp, Bybit!Switch, Bybit!Closed
  <2>2. ASSUME NEW c \in Conns, Bybit!OtherFrame(c) PROVE UNCHANGED <<open, stream>>
    BY <2>2 DEF Bybit!OtherFrame, Bybit!Frame, Bybit!stream, stream
  <2>3. UNCHANGED <<last, book, leaving, base>>
    BY <1>7 DEF Bybit!Connection, Bybit!sync, Bybit!state
  <2> QED
    BY <1>7, <1>4, <1>5, <2>1, <2>2, <2>3 DEF Bybit!Connection, Bybit!stream, stream
<1> QED
  BY <1>1, <1>2, <1>3, <1>6, <1>7, BybitOneSnapshot, BybitOneDelta DEF Bybit!Next, Bybit!Disconnected

LEMMA NoFault ==
  ASSUME BybitTypes, Orderly, NEW number, NEW levels, Bybit!Load(number, levels)
  PROVE  last' = number /\ book' = levels
<1>1. faults + 1 # 0
  BY StreamAssumption DEF BybitTypes, BookTypes
<1> QED
  BY <1>1, Fresh DEF Orderly

LEMMA BybitTwoSnapshot ==
  ASSUME BybitTypes, BybitTwo, Orderly, NEW c \in Conns, Bybit!Snapshot(c)
  PROVE  BybitTwo'
<1> DEFINE levels == IF known THEN Bybit!BookAt(pos[c]) ELSE book
           u == Bybit!Old(pos[c])
<1>1. /\ c \in open /\ open' = open /\ open \subseteq Conns
      /\ due' = [due EXCEPT ![c] = None] /\ pos' = pos /\ base' = None /\ base = None
      /\ head' = head /\ head \in 0..MaxUpdates /\ MaxUpdates \in Nat
      /\ due \in [Conns -> 0..MaxUpdates \cup {None}]
      /\ \A d \in open : pos[d] \in 0..head
  <2>1. \A d \in Conns : pos[d] \in 0..head
    BY StreamAssumption DEF BybitTypes, StreamOK
  <2> QED
    BY <2>1, StreamAssumption
    DEF Bybit!Snapshot, Bybit!SnapshotFrame, Bybit!Frame, BybitTypes, Binance!WsInv,
        Binance!WsTypeOK, StreamOK, BybitTwo
<1>2. \A d \in open : due'[d] # None => d # c /\ due'[d] = due[d] /\ due[d] = pos'[d]
  BY <1>1 DEF BybitTwo
<1>3. \A d \in open : due'[d] = None => d = c \/ due[d] = None
  BY <1>1
<1>4. Bybit!SnapshotNo(pos[c]) = u
  BY <1>1 DEF Bybit!SnapshotNo
<1>5. levels # None => levels = BookAt(pos[c])
  BY BybitBook DEF BybitTypes, BookTypes
<1>6. \A m : Bybit!Old(m)' = Bybit!Old(m)
  BY DEF Bybit!Old
<1> HIDE DEF levels
<1>7. CASE Bybit!Newer(u)
  <2>1. last' = u /\ book' = levels
    <3>1. Bybit!Load(u, levels)
      <4> HIDE DEF u
      <4> QED
        BY <1>4, <1>7 DEF Bybit!Snapshot, levels
    <3> HIDE DEF u
    <3> QED
      BY <3>1, NoFault
  <2>2. \A d \in open : due'[d] = None => pos[d] <= pos[c]
    <3>1. ASSUME NEW d \in open, due'[d] = None, d # c PROVE pos[d] <= pos[c]
      <4>1. due[d] = None
        BY <1>3, <3>1
      <4>2. last # None
        BY <4>1 DEF BybitTwo
      <4>3. PICK n \in 0..head : last = Bybit!Old(n) /\ pos[d] <= n
        BY <4>1, <4>2 DEF BybitTwo
      <4>4. u > last \/ u = 1
        BY <1>7, <4>2 DEF Bybit!Newer
      <4>5. pos[d] \in 0..head /\ pos[c] \in 0..head
        BY <1>1
      <4> QED
        BY <4>3, <4>4, <4>5, <1>1 DEF Bybit!Old
    <3> QED
      BY <3>1, <1>1
  <2>3. pos[c] \in 0..head'
    BY <1>1
  <2>4. last' = Bybit!Old(pos[c])'
    BY <2>1, <1>1 DEF Bybit!Old
  <2>5. last' # None
    BY <2>1, <1>1, StreamAssumption DEF Bybit!Old
  <2>6. \A d \in open' : due'[d] = None => pos'[d] <= pos[c]
    BY <2>2, <1>1
  <2>7. book' # None => book' = BookAt(pos[c])
    BY <2>1, <1>5
  <2> QED
    <3> DEFINE n == pos[c]
    <3>1. /\ n \in 0..head' /\ last' = Bybit!Old(n) /\ (book' # None => book' = BookAt(n))
          /\ \A d \in open' : due'[d] = None => pos'[d] <= n
      BY <2>1, <2>3, <2>6, <2>7
    <3> HIDE DEF n
    <3> QED
      BY <3>1, <2>5, <1>1, <1>2 DEF BybitTwo, Bybit!Old
<1>8. CASE ~ Bybit!Newer(u)
  <2>1. UNCHANGED <<last, book>> /\ last # None /\ ~ (u > last)
    BY <1>4, <1>8 DEF Bybit!Snapshot, Bybit!Newer
  <2>2. PICK n \in 0..head : /\ last = Bybit!Old(n)
                             /\ book # None => book = BookAt(n)
                             /\ \A d \in open : due[d] = None => pos[d] <= n
    BY <2>1 DEF BybitTwo
  <2>3. pos[c] <= n
    <3>1. pos[c] \in 0..head
      BY <1>1
    <3> QED
      BY <2>1, <2>2, <3>1, <1>1 DEF Bybit!Old
  <2>4. \A d \in open' : due'[d] = None => pos'[d] <= n
    BY <2>2, <2>3, <1>1, <1>3
  <2> QED
    BY <2>1, <2>2, <2>4, <1>1, <1>2 DEF BybitTwo, Bybit!Old
<1> QED
  BY <1>7, <1>8

LEMMA BybitTwoDelta ==
  ASSUME BybitTypes, BybitTwo, Orderly, NEW c \in Conns, Bybit!Delta(c)
  PROVE  BybitTwo'
<1> DEFINE p == pos[c]
           u == Bybit!Old(p + 1)
           levels == IF book = None THEN None ELSE Bybit!Applied(book, p + 1)
<1>1. /\ c \in open /\ open' = open /\ open \subseteq Conns /\ due[c] # p /\ due' = due
      /\ pos' = [pos EXCEPT ![c] = @ + 1] /\ base' = None /\ base = None
      /\ head' = head /\ head \in 0..MaxUpdates /\ MaxUpdates \in Nat /\ p < head
  BY StreamAssumption
  DEF Bybit!Delta, Bybit!UpdateFrame, Bybit!Frame, BybitTypes, Binance!WsInv,
      Binance!WsTypeOK, StreamOK, BybitTwo
<1>2. due[c] = None /\ last # None
  BY <1>1 DEF BybitTwo
<1>3. /\ p \in Nat /\ pos'[c] = p + 1
      /\ \A d \in open : pos'[d] = IF d = c THEN p + 1 ELSE pos[d]
  BY <1>1, StreamAssumption DEF BybitTypes, StreamOK
<1>4. \A d \in open : due[d] # None => d # c /\ due[d] = pos[d]
  BY <1>2 DEF BybitTwo
<1>5. PICK n \in 0..head : /\ last = Bybit!Old(n)
                           /\ book # None => book = BookAt(n)
                           /\ \A d \in open : due[d] = None => pos[d] <= n
  BY <1>2 DEF BybitTwo
<1>6. p <= n /\ n \in Nat
  BY <1>1, <1>2, <1>5
<1>7. Bybit!NumberOf(pos'[c]) = u
  BY <1>1, <1>3 DEF Bybit!NumberOf
<1>8. ASSUME NEW m \in 0..head, last' = Bybit!Old(m), book' # None => book' = BookAt(m),
             p + 1 <= m, n <= m
      PROVE  BybitTwo'
  <2>1. \A d \in open' : due'[d] # None => due'[d] = pos'[d]
    BY <1>1, <1>3, <1>4
  <2>2. \A d \in open' : due'[d] = None => pos'[d] <= m
    <3>1. ASSUME NEW d \in open, d # c, due[d] = None PROVE pos[d] <= m
      <4>1. pos[d] <= n /\ pos[d] \in Nat
        BY <1>1, <1>5, <3>1, StreamAssumption DEF BybitTypes, StreamOK
      <4> QED
        BY <4>1, <1>6, <1>8, <1>1
    <3> QED
      BY <3>1, <1>1, <1>3, <1>8
  <2>3. last' # None
    BY <1>1, <1>8, StreamAssumption DEF Bybit!Old
  <2> HIDE DEF p, u, levels
  <2> QED
    BY <2>1, <2>2, <2>3, <1>1, <1>8 DEF BybitTwo, Bybit!Old
<1>9. CASE u <= last
  <2>1. UNCHANGED <<last, book>>
    <3> HIDE DEF u
    <3> QED
      BY <1>7, <1>9 DEF Bybit!Delta
  <2>2. p + 1 <= n
    BY <1>1, <1>3, <1>5, <1>6, <1>9 DEF Bybit!Old
  <2> HIDE DEF p, u, levels
  <2> QED
    BY <2>1, <2>2, <1>5, <1>6, <1>8
<1>10. CASE ~ (u <= last)
  <2>1. n = p
    BY <1>1, <1>3, <1>5, <1>6, <1>10 DEF Bybit!Old
  <2>2. Bybit!Load(u, levels)
    <3>1. levels = IF book = None THEN None ELSE Bybit!Applied(book, pos'[c])
      BY <1>3
    <3> HIDE DEF u, levels
    <3> QED
      BY <3>1, <1>2, <1>7, <1>10 DEF Bybit!Delta
  <2>3. last' = u /\ book' = levels
    <3> HIDE DEF u, levels
    <3> QED
      BY <2>2, NoFault
  <2>4. BookAt(p + 1) = Applied(BookAt(p), p + 1)
    BY <1>3, BookAtNext
  <2>5. book' # None => book' = BookAt(p + 1)
    <3>1. CASE book # None
      <4>1. book = BookAt(p)
        BY <1>5, <2>1, <3>1
      <4> HIDE DEF p
      <4> QED
        BY <2>3, <2>4, <3>1, <4>1, BybitBook
    <3> QED
      BY <2>3, <3>1
  <2>6. p + 1 \in 0..head /\ n <= p + 1
    BY <1>1, <1>3, <2>1
  <2>7. p + 1 <= p + 1
    BY <1>3
  <2> DEFINE m == p + 1
  <2>8. last' = Bybit!Old(m) /\ (book' # None => book' = BookAt(m)) /\ m \in 0..head
        /\ p + 1 <= m /\ n <= m
    BY <2>3, <2>5, <2>6, <2>7
  <2> HIDE DEF p, u, levels, m
  <2> QED
    BY <2>8, <1>8
<1> QED
  BY <1>9, <1>10

LEMMA BybitTwoKeeps ==
  ASSUME BybitTypes, BybitTwo, Bybit!Next, Orderly
  PROVE  BybitTwo'
<1>1. ASSUME open' \subseteq open, UNCHANGED <<stream, book, base>>,
             last' = last \/ (last' = None /\ open' = {})
      PROVE  BybitTwo'
  BY <1>1 DEF BybitTwo, stream, Bybit!Old
<1>2. ASSUME NEW c, Bybit!AfterLifecycle(c) PROVE BybitTwo'
  <2>1. open' \subseteq open /\ UNCHANGED <<stream, book, base>> /\ last' \in {last, None}
    BY <1>2 DEF Bybit!AfterLifecycle, Bybit!Down, Bybit!stream, stream
  <2>2. CASE last' = last
    BY <2>1, <2>2, <1>1
  <2>3. CASE last # None /\ last' = None
    BY <2>1, <2>3, <1>1 DEF Orderly
  <2> QED
    BY <2>1, <2>2, <2>3
<1>3. CASE UNCHANGED <<open, last, book, base, stream>>
  BY <1>1, <1>3
<1>4. CASE Bybit!ForceReconnect
  BY <1>2, <1>3, <1>4 DEF Bybit!ForceReconnect, Bybit!wsVars, Bybit!stream, stream
<1>5. CASE Bybit!Exchange
  <2>1. head # None
    BY StreamAssumption DEF BybitTypes, StreamOK
  <2>2. Bybit!Publish /\ UNCHANGED base
    BY <1>5, <2>1 DEF Bybit!Exchange, Orderly
  <2>3. head \in Nat /\ head' = head + 1 /\ UNCHANGED <<pos, due, base, open, last, book>>
    BY <1>5, <2>2, StreamAssumption
    DEF Bybit!Publish, Bybit!Exchange, Bybit!wsVars, Bybit!sync, Bybit!state, BybitTypes, StreamOK
  <2>4. 0..head \subseteq 0..head'
    BY <2>3
  <2> QED
    BY <2>3, <2>4 DEF BybitTwo, Bybit!Old
<1>6. ASSUME NEW c \in Conns, Bybit!Opened(c), UNCHANGED <<last, book, base>> PROVE BybitTwo'
  <2>1. /\ open' = open \cup {c} /\ c \notin open /\ open \subseteq Conns
        /\ pos' = [pos EXCEPT ![c] = head] /\ due' = [due EXCEPT ![c] = head]
        /\ head' = head /\ head # None
    BY <1>6, StreamAssumption
    DEF Bybit!Opened, Bybit!Connect, Bybit!Rotate, Bybit!Subscribed, BybitTypes, StreamOK,
        Binance!WsInv, Binance!WsTypeOK
  <2>2. pos'[c] = head /\ due'[c] = head
        /\ \A d \in open : pos'[d] = pos[d] /\ due'[d] = due[d]
    BY <2>1 DEF BybitTypes, StreamOK
  <2> QED
    BY <1>6, <2>1, <2>2 DEF BybitTwo, Bybit!Old
<1>7. CASE Bybit!LoadInstruments
  BY <1>3, <1>7 DEF Bybit!LoadInstruments, Bybit!wsVars, Bybit!stream, stream
<1>8. CASE Bybit!Connection
  <2>1. ASSUME Bybit!Supervise PROVE open' = open
    BY <2>1 DEF Bybit!Supervise, Bybit!Notice, Bybit!Overlap, Bybit!GiveUp, Bybit!Switch, Bybit!Closed
  <2>2. ASSUME NEW c \in Conns, Bybit!OtherFrame(c) PROVE UNCHANGED <<open, stream>>
    BY <2>2 DEF Bybit!OtherFrame, Bybit!Frame, Bybit!stream, stream
  <2>3. UNCHANGED <<last, book, base>>
    BY <1>8 DEF Bybit!Connection, Bybit!sync, Bybit!state
  <2> QED
    BY <1>8, <1>3, <1>6, <2>1, <2>2, <2>3 DEF Bybit!Connection, Bybit!stream, stream
<1> QED
  BY <1>2, <1>4, <1>5, <1>7, <1>8, BybitTwoSnapshot, BybitTwoDelta DEF Bybit!Next, Bybit!Disconnected

-----------------------------------------------------------------------------
(* Deribit: its types, and the snapshot that is awaited.                   *)

DeribitTypes ==
  /\ Binance!WsInv /\ StreamOK /\ BookTypes
  /\ resub \in BOOLEAN
  /\ asked \subseteq open

(* With one connection at a time: it is the active one, so that _resub-    *)
(* scribe always asks.                                                     *)
DeribitOne ==
  (c1 \in open /\ (last = None \/ resub)) => c1 \in asked \/ due[c1] # None

LEMMA Resubscribes ==
  ASSUME Deribit!Resubscribe, asked \subseteq open
  PROVE  /\ resub' \in BOOLEAN /\ asked \subseteq asked' /\ asked' \subseteq open
         /\ active \in open /\ active # None => active \in asked'
BY DEF Deribit!Resubscribe

LEMMA Loads ==
  ASSUME NEW levels, Deribit!Load(levels), asked \subseteq open, faults \in 0..MaxFaults
  PROVE  /\ book' \in {levels, None}
         /\ resub' \in BOOLEAN /\ asked \subseteq asked' /\ asked' \subseteq open
         /\ faults' \in 0..MaxFaults
         /\ (active \in open /\ active # None /\ resub') => active \in asked'
<1>1. CASE book' = levels /\ resub' = FALSE /\ UNCHANGED <<asked, faults>>
  BY <1>1
<1>2. CASE Deribit!Fault /\ book' = None /\ Deribit!Resubscribe
  <2>1. faults' \in 0..MaxFaults
    BY <1>2, StreamAssumption DEF Deribit!Fault
  <2> QED
    BY <1>2, <2>1, Resubscribes
<1> QED
  BY <1>1, <1>2 DEF Deribit!Load

LEMMA DeribitTypesKeep == ASSUME DeribitTypes, Deribit!Next PROVE DeribitTypes'
<1> USE DEF DeribitTypes
<1>1. Binance!WsInv' /\ StreamOK'
  BY DeribitMoves, StreamKeeps, WsKeeps
<1>2. ASSUME NEW levels \in [Levels -> 0..MaxUpdates] \cup {None}, levels # None => known,
             Deribit!Load(levels), UNCHANGED <<known, open>>
      PROVE  DeribitTypes'
  <2>1. /\ book' \in {levels, None} /\ resub' \in BOOLEAN /\ asked' \subseteq open
        /\ faults' \in 0..MaxFaults
    BY <1>2, Loads DEF BookTypes
  <2> QED
    BY <1>1, <1>2, <2>1 DEF BookTypes
<1>3. ASSUME UNCHANGED <<book, known, faults, resub>>, asked' \subseteq open' PROVE DeribitTypes'
  BY <1>1, <1>3 DEF BookTypes
<1>4. ASSUME NEW c \in Conns, Deribit!Snapshot(c) PROVE DeribitTypes'
  <2> DEFINE levels == IF known THEN Deribit!BookAt(pos[c]) ELSE book
  <2>1. levels \in [Levels -> 0..MaxUpdates] \cup {None} /\ (levels # None => known)
    BY BookAtType, DeribitBook DEF BookTypes, StreamOK
  <2>2. UNCHANGED <<known, open>>
    BY <1>4 DEF Deribit!Snapshot, Deribit!SnapshotFrame, Deribit!Frame
  <2>3. UNCHANGED <<book, resub, asked, faults>> \/ Deribit!Load(levels)
    BY <1>4 DEF Deribit!Snapshot
  <2> HIDE DEF levels
  <2> QED
    BY <1>2, <1>3, <2>1, <2>2, <2>3
<1>5. ASSUME NEW c \in Conns, Deribit!Change(c) PROVE DeribitTypes'
  <2> DEFINE levels == IF book = None THEN None ELSE Deribit!Applied(book, pos'[c])
  <2>1. levels \in [Levels -> 0..MaxUpdates] \cup {None} /\ (levels # None => known)
    <3>1. pos'[c] \in 0..MaxUpdates
      BY <1>1 DEF StreamOK
    <3> QED
      BY <3>1, AppliedType, DeribitBook DEF BookTypes
  <2>2. UNCHANGED <<known, open>>
    BY <1>5 DEF Deribit!Change, Deribit!UpdateFrame, Deribit!Frame
  <2>3. \/ UNCHANGED <<book, resub, asked, faults>> \/ Deribit!Load(levels)
        \/ Deribit!Resubscribe /\ UNCHANGED <<book, faults>>
    BY <1>5 DEF Deribit!Change
  <2>4. CASE Deribit!Resubscribe /\ UNCHANGED <<book, faults>>
    <3>1. resub' \in BOOLEAN /\ asked' \subseteq open
      BY <2>4, Resubscribes
    <3> QED
      BY <1>1, <2>2, <2>4, <3>1 DEF BookTypes
  <2> HIDE DEF levels
  <2> QED
    BY <1>2, <1>3, <2>1, <2>2, <2>3, <2>4
<1>6. ASSUME NEW c \in Conns, Deribit!Malformed(c) PROVE DeribitTypes'
  <2>1. faults' \in 0..MaxFaults /\ UNCHANGED <<book, known, resub, asked, open>>
    BY <1>6, StreamAssumption
    DEF Deribit!Malformed, Deribit!Fault, Deribit!UpdateFrame, Deribit!Frame, Deribit!sync,
        Deribit!state, BookTypes
  <2> QED
    BY <1>1, <2>1 DEF BookTypes
<1>7. ASSUME NEW c \in Conns, Deribit!AfterLifecycle(c) PROVE DeribitTypes'
  <2>1. /\ UNCHANGED <<book, known, faults>> /\ asked' = asked \ {c} /\ open' = open \ {c}
        /\ resub' \in {resub, FALSE}
    BY <1>7 DEF Deribit!AfterLifecycle, Deribit!Down
  <2> QED
    BY <1>1, <2>1 DEF BookTypes
<1>8. ASSUME NEW c \in Conns, Deribit!Resubscribed(c) PROVE DeribitTypes'
  BY <1>3, <1>8 DEF Deribit!Resubscribed, Deribit!wsVars
<1>9. CASE Deribit!LoadInstruments
  BY <1>1, <1>9 DEF Deribit!LoadInstruments, Deribit!wsVars, BookTypes
<1>10. CASE Deribit!Exchange
  BY <1>3, <1>10 DEF Deribit!Exchange, Deribit!wsVars, Deribit!sync, Deribit!state
<1>11. CASE Deribit!Connection
  <2>1. UNCHANGED <<book, known, faults, resub, asked>>
    BY <1>11 DEF Deribit!Connection, Deribit!sync, Deribit!state
  <2>2. open \subseteq open'
    BY <1>11 DEF Deribit!Connection, Deribit!Opened, Deribit!Connect, Deribit!Rotate,
      Deribit!OtherFrame, Deribit!Frame, Deribit!Supervise, Deribit!Notice, Deribit!Overlap,
      Deribit!GiveUp, Deribit!Switch, Deribit!Closed
  <2> QED
    BY <1>3, <2>1, <2>2
<1> QED
  BY <1>4, <1>5, <1>6, <1>7, <1>8, <1>9, <1>10, <1>11 DEF Deribit!Next

LEMMA DeribitOneKeeps ==
  ASSUME DeribitTypes, OneWs, DeribitOne, Deribit!Next, open' \subseteq OneSlot
  PROVE  DeribitOne'
<1>1. ASSUME UNCHANGED <<open, last, resub, due>>, asked \subseteq asked' PROVE DeribitOne'
  BY <1>1 DEF DeribitOne
<1>2. ASSUME c1 \in open PROVE active = c1 /\ active # None /\ c1 \in Conns
  BY <1>2, WsAssumption DEF OneWs, DeribitTypes, Binance!WsInv, Binance!WsTypeOK
<1>3. ASSUME NEW levels, Deribit!Load(levels), last' # None, UNCHANGED open PROVE DeribitOne'
  <2>1. (active \in open /\ active # None /\ resub') => active \in asked'
    BY <1>3, Loads DEF DeribitTypes, BookTypes
  <2> QED
    BY <1>2, <1>3, <2>1 DEF DeribitOne
<1>4. ASSUME NEW c \in Conns, Deribit!Snapshot(c) PROVE DeribitOne'
  <2>1. UNCHANGED open /\ pos[c] # None
    BY <1>4, StreamAssumption
    DEF Deribit!Snapshot, Deribit!SnapshotFrame, Deribit!Frame, DeribitTypes, StreamOK
  <2>2. CASE last # None /\ pos[c] <= last /\ ~ resub
    <3>1. UNCHANGED <<last, resub>>
      BY <1>4, <2>2 DEF Deribit!Snapshot
    <3> QED
      BY <2>2, <3>1 DEF DeribitOne
  <2>3. CASE ~ (last # None /\ pos[c] <= last /\ ~ resub)
    <3>1. last' = pos[c] /\ Deribit!Load(IF known THEN Deribit!BookAt(pos[c]) ELSE book)
      BY <1>4, <2>3 DEF Deribit!Snapshot
    <3> QED
      BY <1>3, <2>1, <3>1
  <2> QED
    BY <2>2, <2>3
<1>5. ASSUME NEW c \in Conns, Deribit!Change(c) PROVE DeribitOne'
  <2>1. UNCHANGED <<open, due>> /\ pos'[c] # None
    <3>1. StreamOK'
      BY DeribitMoves, StreamKeeps DEF DeribitTypes
    <3> QED
      BY <1>5, <3>1, StreamAssumption
      DEF Deribit!Change, Deribit!UpdateFrame, Deribit!Frame, StreamOK
  <2>2. \/ UNCHANGED <<last, resub, asked>>
        \/ last # None /\ Deribit!Resubscribe /\ UNCHANGED last
        \/ last' = pos'[c] /\ Deribit!Load(IF book = None THEN None ELSE Deribit!Applied(book, pos'[c]))
    BY <1>5 DEF Deribit!Change
  <2>3. CASE Deribit!Resubscribe /\ UNCHANGED last
    <3>1. (active \in open /\ active # None) => active \in asked'
      BY <2>3, Resubscribes DEF DeribitTypes
    <3> QED
      BY <1>2, <2>1, <3>1 DEF DeribitOne
  <2> QED
    BY <1>1, <1>3, <2>1, <2>2, <2>3
<1>6. ASSUME NEW c \in Conns, Deribit!Malformed(c) PROVE DeribitOne'
  BY <1>1, <1>6 DEF Deribit!Malformed, Deribit!UpdateFrame, Deribit!Frame, Deribit!sync, Deribit!state
<1>7. ASSUME NEW c \in Conns, Deribit!AfterLifecycle(c) PROVE DeribitOne'
  <2>1. c = c1 /\ open' = {}
    BY <1>7 DEF Deribit!AfterLifecycle, Deribit!Down, OneWs
  <2> QED
    BY <2>1 DEF DeribitOne
<1>8. ASSUME NEW c \in Conns, Deribit!Resubscribed(c) PROVE DeribitOne'
  <2>0. c = c1 /\ head # None
    BY <1>8, StreamAssumption DEF Deribit!Resubscribed, DeribitTypes, StreamOK, OneWs
  <2>1. due' = [due EXCEPT ![c1] = head] /\ head # None
    BY <1>8, <2>0 DEF Deribit!Resubscribed
  <2>2. due'[c1] # None
    BY <1>8, <2>0, <2>1 DEF DeribitTypes, StreamOK
  <2> QED
    BY <2>2 DEF DeribitOne
<1>9. CASE Deribit!LoadInstruments \/ Deribit!Exchange
  BY <1>1, <1>9 DEF Deribit!LoadInstruments, Deribit!Exchange, Deribit!Publish, Deribit!wsVars,
    Deribit!stream, Deribit!sync, Deribit!state
<1>10. CASE Deribit!Connection
  <2>1. UNCHANGED <<last, resub, asked>>
    BY <1>10 DEF Deribit!Connection, Deribit!sync, Deribit!state
  <2>2. ASSUME NEW c \in Conns, Deribit!Opened(c) PROVE DeribitOne'
    <3>0. c = c1 /\ head # None
      BY <2>2, StreamAssumption
      DEF Deribit!Opened, Deribit!Connect, Deribit!Rotate, OneSlot, DeribitTypes, StreamOK
    <3>1. due' = [due EXCEPT ![c1] = head] /\ head # None
      BY <2>2, <3>0 DEF Deribit!Opened, Deribit!Subscribed
    <3>2. due'[c1] # None
      BY <2>2, <3>0, <3>1 DEF DeribitTypes, StreamOK
    <3> QED
      BY <3>2 DEF DeribitOne
  <2>3. ASSUME NEW c \in Conns, Deribit!OtherFrame(c) PROVE DeribitOne'
    BY <1>1, <2>1, <2>3 DEF Deribit!OtherFrame, Deribit!Frame, Deribit!stream
  <2>4. ASSUME Deribit!Supervise, UNCHANGED due PROVE DeribitOne'
    <3>1. open' = open
      BY <2>4 DEF Deribit!Supervise, Deribit!Notice, Deribit!Overlap, Deribit!GiveUp,
        Deribit!Switch, Deribit!Closed
    <3> QED
      BY <1>1, <2>1, <2>4, <3>1
  <2> QED
    BY <1>10, <2>2, <2>3, <2>4 DEF Deribit!Connection, Deribit!stream
<1> QED
  BY <1>4, <1>5, <1>6, <1>7, <1>8, <1>9, <1>10 DEF Deribit!Next

-----------------------------------------------------------------------------
(* The module that TLC checks: one venue, over one or two connections.     *)

BooksInv ==
  /\ venue \in {"binance", "bybit", "deribit"} /\ slots \in {OneSlot, TwoSlots}
  /\ venue = "binance" => Binance!DepthInv
  /\ venue = "bybit" => /\ BybitTypes
                        /\ slots = OneSlot => OneWs /\ BybitOne
                        /\ slots = TwoSlots => BybitTwo
  /\ venue = "deribit" => /\ DeribitTypes /\ DeribitInv
                          /\ slots = OneSlot => OneWs /\ DeribitOne

LEMMA BinanceFacts == Binance!WsAssumption /\ Binance!DepthAssumption
BY WsAssumption, BooksAssumption DEF Binance!WsAssumption, WsAssumption

LEMMA BooksInit == ASSUME Init PROVE BooksInv
<1>1. CASE venue = "binance" /\ slots = OneSlot /\ Binance!Init
  BY <1>1, BinanceFacts, Binance!DepthInvInit DEF BooksInv
<1>2. ASSUME Bybit!Init \/ Deribit!Init
      PROVE  /\ Binance!WsInv /\ StreamOK /\ BookTypes
             /\ OneWs /\ open = {} /\ last = None
  <2>1. /\ run = "connect" /\ active = None /\ other = None /\ open = {} /\ seen = FALSE
        /\ head = 0 /\ pos = [c \in Conns |-> 0] /\ due = [c \in Conns |-> None]
        /\ last = None /\ book = None /\ known \in BOOLEAN /\ faults = 0
    BY <1>2 DEF Bybit!Init, Bybit!WsInit, Bybit!StreamInit,
      Deribit!Init, Deribit!WsInit, Deribit!StreamInit
  <2>2. Binance!WsInv
    BY <2>1 DEF Binance!WsInv, Binance!WsTypeOK, Binance!NoStray
  <2>3. StreamOK /\ BookTypes
    BY <2>1, StreamAssumption DEF StreamOK, BookTypes
  <2> QED
    BY <2>1, <2>2, <2>3 DEF OneWs
<1>3. CASE venue = "bybit" /\ slots \in {OneSlot, TwoSlots} /\ Bybit!Init
  <2>1. base = None /\ leaving = FALSE
    BY <1>3 DEF Bybit!Init
  <2>2. BybitTypes
    BY <1>2, <1>3, <2>1 DEF BybitTypes
  <2>3. BybitOne /\ BybitTwo
    BY <1>2, <1>3, <2>1 DEF BybitOne, BybitTwo
  <2> QED
    BY <1>2, <1>3, <2>2, <2>3 DEF BooksInv
<1>4. CASE venue = "deribit" /\ slots \in {OneSlot, TwoSlots} /\ Deribit!Init
  <2>1. resub = FALSE /\ asked = {}
    BY <1>4 DEF Deribit!Init
  <2>2. DeribitTypes
    BY <1>2, <1>4, <2>1 DEF DeribitTypes
  <2>3. DeribitOne
    BY <1>2, <1>4 DEF DeribitOne
  <2> QED
    BY <1>2, <1>4, <2>2, <2>3, DeribitInit DEF BooksInv
<1> QED
  BY <1>1, <1>3, <1>4 DEF Init

LEMMA BooksNext == ASSUME BooksInv, [Next]_vars PROVE BooksInv'
<1>1. CASE BinanceOnly(Binance!Next)
  <2>1. venue = "binance" /\ Binance!Next /\ UNCHANGED <<venue, slots>>
    BY <1>1 DEF BinanceOnly, Within
  <2>2. Binance!DepthInv'
    BY <2>1, BinanceFacts, Binance!DepthInvNext DEF BooksInv
  <2> QED
    BY <2>1, <2>2 DEF BooksInv
<1>2. CASE BybitOnly(Bybit!Next)
  <2>1. /\ venue = "bybit" /\ Bybit!Next /\ UNCHANGED <<venue, slots>>
        /\ open' \subseteq slots /\ (slots = TwoSlots => Orderly)
    BY <1>2 DEF BybitOnly, Within
  <2>2. BybitTypes'
    BY <2>1, BybitTypesKeep DEF BooksInv
  <2>3. ASSUME slots = OneSlot PROVE OneWs' /\ BybitOne'
    BY <2>1, <2>3, BybitMoves, OneWsKeeps, BybitOneKeeps DEF BooksInv, BybitTypes
  <2>4. ASSUME slots = TwoSlots PROVE BybitTwo'
    BY <2>1, <2>4, BybitTwoKeeps DEF BooksInv
  <2>5. OneSlot' = OneSlot /\ TwoSlots' = TwoSlots
    BY DEF OneSlot, TwoSlots
  <2> QED
    BY <2>1, <2>2, <2>3, <2>4, <2>5 DEF BooksInv
<1>3. CASE DeribitOnly(Deribit!Next)
  <2>1. /\ venue = "deribit" /\ Deribit!Next /\ UNCHANGED <<venue, slots>>
        /\ open' \subseteq slots
    BY <1>3 DEF DeribitOnly, Within
  <2>2. DeribitTypes' /\ DeribitInv'
    BY <2>1, DeribitTypesKeep, NextDeribitInv DEF BooksInv
  <2>3. ASSUME slots = OneSlot PROVE OneWs' /\ DeribitOne'
    BY <2>1, <2>3, DeribitMoves, OneWsKeeps, DeribitOneKeeps DEF BooksInv, DeribitTypes
  <2>4. OneSlot' = OneSlot /\ TwoSlots' = TwoSlots
    BY DEF OneSlot, TwoSlots
  <2> QED
    BY <2>1, <2>2, <2>3, <2>4 DEF BooksInv
<1>4. CASE UNCHANGED vars
  <2>1. UNCHANGED <<venue, slots>> /\ UNCHANGED Binance!vars
    BY <1>4 DEF vars, wsVars, stream, state, binanceVars, Binance!vars, Binance!wsVars,
      Binance!exchange, Binance!sync
  <2>2. CASE venue = "binance"
    <3>1. Binance!DepthInv'
      BY <2>1, <2>2, BinanceFacts, Binance!DepthInvNext DEF BooksInv
    <3> QED
      BY <2>1, <2>2, <3>1 DEF BooksInv
  <2>3. /\ UNCHANGED <<run, active, other, open, seen, head, pos, due, last, book, known, faults>>
        /\ UNCHANGED <<leaving, base, resub, asked, venue, slots>>
    BY <1>4 DEF vars, wsVars, stream, state, bybitVars, deribitVars
  <2>4. Binance!WsInv' = Binance!WsInv /\ StreamOK' = StreamOK /\ BookTypes' = BookTypes
    BY <2>3 DEF Binance!WsInv, Binance!WsTypeOK, Binance!NoStray, StreamOK, BookTypes
  <2>5. OneWs' = OneWs /\ BybitOne' = BybitOne /\ BybitTwo' = BybitTwo
    BY <2>3 DEF OneWs, BybitOne, OneNumber, BybitTwo, Bybit!SnapshotNo, Bybit!New, Bybit!Old
  <2>6. DeribitInv' = DeribitInv /\ DeribitOne' = DeribitOne
    BY <2>3 DEF DeribitInv, Deribit!BookIsTrue, Deribit!BookAt, Deribit!Levels, DeribitOne
  <2>7. OneSlot' = OneSlot /\ TwoSlots' = TwoSlots
    BY DEF OneSlot, TwoSlots
  <2>8. BybitTypes' = BybitTypes /\ DeribitTypes' = DeribitTypes
    BY <2>3, <2>4 DEF BybitTypes, DeribitTypes
  <2>9. CASE venue # "binance"
    BY <2>3, <2>4, <2>5, <2>6, <2>7, <2>8, <2>9 DEF BooksInv
  <2> QED
    BY <2>2, <2>9
<1> QED
  BY <1>1, <1>2, <1>3, <1>4 DEF Next

LEMMA BooksInvHolds == Spec => []BooksInv
BY BooksInit, BooksNext, PTL DEF Spec

(* The number that was seen last is one the exchange gave the book's       *)
(* update.                                                                 *)
LEMMA BybitLast ==
  ASSUME BooksInv, venue = "bybit", last # None
  PROVE  \E n \in 0..head : /\ last \in {Bybit!NumberOf(n), Bybit!SnapshotNo(n)}
                            /\ last \in 1..(2 * MaxUpdates + 1)
                            /\ book # None => book = BookAt(n)
<1>1. /\ head \in 0..MaxUpdates /\ MaxUpdates \in Nat
      /\ base # None => base \in 0..head
  BY StreamAssumption DEF BooksInv, BybitTypes, StreamOK
<1>2. CASE slots = OneSlot
  <2>1. BybitOne /\ c1 \in open /\ c1 \in Conns
    BY <1>2 DEF BooksInv, BybitOne, BybitTypes, Binance!WsInv, Binance!WsTypeOK
  <2> DEFINE n == pos[c1]
  <2>2. n \in 0..head
    BY <2>1, StreamAssumption DEF BooksInv, BybitTypes, StreamOK
  <2>3. OneNumber /\ (book # None => book = BookAt(n))
    BY <2>1 DEF BybitOne
  <2>4. last \in {Bybit!NumberOf(n), Bybit!SnapshotNo(n)}
    BY <1>1, <2>2, <2>3 DEF OneNumber, Bybit!NumberOf, Bybit!SnapshotNo, Bybit!New, Bybit!Old
  <2>5. last \in 1..(2 * MaxUpdates + 1)
    BY <1>1, <2>2, <2>3 DEF OneNumber, Bybit!SnapshotNo, Bybit!New, Bybit!Old
  <2> HIDE DEF n
  <2> QED
    BY <2>2, <2>3, <2>4, <2>5
<1>3. CASE slots = TwoSlots
  <2>1. base = None
    BY <1>3 DEF BooksInv, BybitTwo
  <2>2. PICK n \in 0..head : last = Bybit!Old(n) /\ (book # None => book = BookAt(n))
    BY <1>3 DEF BooksInv, BybitTwo
  <2>3. Bybit!NumberOf(n) = last
    BY <2>1, <2>2 DEF Bybit!NumberOf
  <2>4. last \in 1..(2 * MaxUpdates + 1)
    BY <1>1, <2>2 DEF Bybit!Old
  <2> QED
    BY <2>2, <2>3, <2>4
<1> QED
  BY <1>2, <1>3 DEF BooksInv

(* Every variable of the venue that runs has its type.                     *)
THEOREM BookTypesHold == Spec => []TypeOK
<1>1. BooksInv => TypeOK
  <2> SUFFICES ASSUME BooksInv PROVE TypeOK
    OBVIOUS
  <2>1. CASE venue = "binance"
    <3>1. Binance!TypeOK
      BY <2>1, BinanceFacts, Binance!DepthInvTypes DEF BooksInv
    <3> QED
      BY <2>1, <3>1 DEF TypeOK
  <2>2. CASE venue = "bybit"
    <3>1. last \in 1..(2 * MaxUpdates + 1) \cup {None}
      BY <2>2, BybitLast
    <3>2. Bybit!StreamTypeOK
      BY <2>2, BybitBook DEF BooksInv, BybitTypes, Bybit!StreamTypeOK, StreamOK, BookTypes,
        Bybit!WsTypeOK, Binance!WsInv, Binance!WsTypeOK
    <3>3. Bybit!TypeOK
      BY <2>2, <3>1, <3>2 DEF BooksInv, BybitTypes, Bybit!TypeOK
    <3> QED
      BY <2>2, <3>3 DEF TypeOK
  <2>3. CASE venue = "deribit"
    <3>1. Deribit!StreamTypeOK
      BY <2>3, DeribitBook DEF BooksInv, DeribitTypes, Deribit!StreamTypeOK, StreamOK, BookTypes,
        Deribit!WsTypeOK, Binance!WsInv, Binance!WsTypeOK
    <3>2. Deribit!TypeOK
      BY <2>3, <3>1 DEF BooksInv, DeribitTypes, DeribitInv, Deribit!TypeOK
    <3> QED
      BY <2>3, <3>2 DEF TypeOK
  <2> QED
    BY <2>1, <2>2, <2>3 DEF BooksInv
<1> QED
  BY <1>1, BooksInvHolds, PTL

(* Bybit's and Deribit's books are the exchange's at the last update seen. *)
THEOREM StreamBooksHold == Spec => []StreamBooks
<1>1. BooksInv => StreamBooks
  <2> SUFFICES ASSUME BooksInv PROVE StreamBooks
    OBVIOUS
  <2>1. ASSUME venue = "bybit" PROVE Bybit!BookIsTrue
    BY <2>1, BybitLast, BybitBook DEF Bybit!BookIsTrue
  <2>2. ASSUME venue = "deribit" PROVE Deribit!BookIsTrue
    BY <2>2 DEF BooksInv, DeribitInv
  <2> QED
    BY <2>1, <2>2 DEF StreamBooks
<1> QED
  BY <1>1, BooksInvHolds, PTL

(* With one connection at a time a snapshot that is awaited is asked for,  *)
(* under way or due, or the connection is about to be opened anew.         *)
THEOREM SnapshotComesHolds == Spec => []SnapshotComes
<1>1. BooksInv => SnapshotComes
  <2> SUFFICES ASSUME BooksInv, slots = OneSlot
               PROVE  /\ venue = "bybit" => Bybit!SnapshotComes
                      /\ venue = "deribit" => Deribit!SnapshotComes
    BY DEF SnapshotComes, BooksInv
  <2>1. ASSUME venue = "bybit" PROVE Bybit!SnapshotComes
    BY <2>1 DEF BooksInv, OneWs, BybitOne, Bybit!SnapshotComes, Bybit!connected
  <2>2. ASSUME venue = "deribit" PROVE Deribit!SnapshotComes
    BY <2>2 DEF BooksInv, OneWs, DeribitOne, Deribit!SnapshotComes, Deribit!connected
  <2> QED
    BY <2>1, <2>2
<1> QED
  BY <1>1, BooksInvHolds, PTL

=============================================================================

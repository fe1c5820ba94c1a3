-------------------------- MODULE DepthSyncProofs --------------------------
(***************************************************************************)
(* Proofs about DepthSync, for any connections, buffers, levels and any    *)
(* number of events and faults.  The last part is about what the replay of *)
(* the buffered events computes: the fold over the buffer, and the fold    *)
(* over the levels, are unfolded once, and then treated element by element.*)
(***************************************************************************)
EXTENDS DepthSync, WellFoundedInduction, TLAPS

-----------------------------------------------------------------------------
(* The requests and the scales of DepthSync: none of these proofs depends  *)
(* on what the replay of the buffered events computes, only on which way   *)
(* each handler goes.                                                      *)

(* NoStray is inductive once it is said that `other` is used only while    *)
(* rotating or closing.                                                    *)
WsInv == WsTypeOK /\ NoStray /\ (run \in {"connect", "serve"} => other = None)

(* Every step moves the connections by one action of ManagedWs, or not.    *)
WsStep ==
  \/ Supervise
  \/ \E c \in Conns : Connect(c) \/ Rotate(c) \/ Down(c) \/ Frame(c)
  \/ UNCHANGED wsVars

LEMMA NextIsWsStep == ASSUME [Next]_vars PROVE WsStep
<1>1. CASE Next
  <2>1. CASE \E c \in Conns : Opened(c) \/ Deliver(c) \/ Skip(c) \/ AfterLifecycle(c)
    BY <2>1 DEF Opened, Deliver, Skip, AfterLifecycle, WsStep
  <2>2. CASE Supervise
    BY <2>2 DEF WsStep
  <2>3. CASE Publish \/ ChangeTick \/ UpdateScales \/ ResyncFails \/ WorkerDies
    BY <2>3 DEF Publish, ChangeTick, UpdateScales, ResyncFails, WorkerDies, WsStep
  <2>4. CASE Worker
    BY <2>4 DEF Worker, TakeRequest, AskAgain, Requeue, Resync, WsStep
  <2> QED
    BY <1>1, <2>1, <2>2, <2>3, <2>4 DEF Next
<1>2. CASE UNCHANGED vars
  BY <1>2 DEF vars, WsStep
<1> QED
  BY <1>1, <1>2

LEMMA WsStepKeeps == ASSUME WsInv, WsStep PROVE WsInv'
<1> USE WsAssumption DEF WsInv, WsTypeOK, NoStray
<1>1. CASE Notice
  BY <1>1 DEF Notice, connected
<1>2. CASE Overlap
  BY <1>2 DEF Overlap
<1>3. CASE GiveUp
  BY <1>3 DEF GiveUp
<1>4. CASE Switch
  BY <1>4 DEF Switch
<1>5. CASE Closed
  BY <1>5 DEF Closed
<1>6. ASSUME NEW c \in Conns, Connect(c) PROVE WsInv'
  BY <1>6 DEF Connect
<1>7. ASSUME NEW c \in Conns, Rotate(c) PROVE WsInv'
  BY <1>7 DEF Rotate, connected
<1>8. ASSUME NEW c \in Conns, Down(c) PROVE WsInv'
  BY <1>8 DEF Down
<1>9. ASSUME NEW c \in Conns, Frame(c) PROVE WsInv'
  BY <1>9 DEF Frame
<1>10. CASE UNCHANGED wsVars
  BY <1>10 DEF wsVars
<1> QED
  BY <1>1, <1>2, <1>3, <1>4, <1>5, <1>6, <1>7, <1>8, <1>9, <1>10 DEF WsStep, Supervise

(* No connection is left open that the supervisor will not close.          *)
THEOREM NoStrayHolds == Spec => []NoStray
<1>1. Init => WsInv
  BY DEF Init, WsInit, WsInv, WsTypeOK, NoStray
<1>2. WsInv /\ [Next]_vars => WsInv'
  BY NextIsWsStep, WsStepKeeps
<1>3. WsInv => NoStray
  BY DEF WsInv
<1> QED
  BY <1>1, <1>2, <1>3, PTL DEF Spec

-----------------------------------------------------------------------------

RequestType ==
  /\ requested \in BOOLEAN
  /\ queue \in Nat
  /\ worker \in {"idle", "asking", "stale", "retry", "dead"}

(* While the worker pauses behind a stale snapshot nobody else fetches one.*)
RequestInv ==
  /\ RequestType
  /\ OneRequest
  /\ worker = "stale" => seqr.state = "need"

(* An event leaves a sequencer that waits for a snapshot waiting.          *)
LEMMA StillNeeds ==
  ASSUME NEW s, NEW e, s.state = "need"
  PROVE  on_event(s, e).seq.state = "need"
BY DEF on_event, Step, Buffered

LEMMA RequestKeeps ==
  ASSUME RequestInv, RequestSnapshot, seqr'.state = "need", UNCHANGED worker
  PROVE  RequestInv'
BY DEF RequestInv, RequestType, OneRequest, RequestSnapshot

LEMMA ResetKeeps ==
  ASSUME RequestInv, Reset, UNCHANGED worker
  PROVE  RequestInv'
<1>1. seqr'.state = "need" /\ RequestSnapshot
  BY DEF Reset, NeedSnapshot
<1> QED
  BY <1>1, RequestKeeps

LEMMA EventKeeps ==
  ASSUME RequestInv, NEW e, SequenceDepth(e), UNCHANGED worker
  PROVE  RequestInv'
<1> DEFINE r == on_event(seqr, e)
<1>1. CASE /\ seqr' = r.seq
           /\ IF r.seq.state = "need" THEN RequestSnapshot ELSE UNCHANGED <<requested, queue>>
  <2>1. CASE r.seq.state = "need"
    BY <1>1, <2>1, RequestKeeps
  <2>2. CASE r.seq.state # "need"
    <3>1. seqr.state # "need" /\ worker # "stale"
      BY <2>2, StillNeeds DEF RequestInv
    <3>2. UNCHANGED <<requested, queue>>
      BY <1>1, <2>2
    <3> QED
      BY <3>1, <3>2 DEF RequestInv, RequestType, OneRequest
  <2> QED
    BY <2>1, <2>2
<1>2. CASE Reset
  BY <1>2, ResetKeeps
<1> QED
  BY <1>1, <1>2 DEF SequenceDepth

LEMMA ResyncKeeps ==
  ASSUME RequestInv, NEW id, Resync(id)
  PROVE  RequestInv'
<1> DEFINE r == on_snapshot(seqr, id)
<1> USE DEF RequestInv, RequestType, OneRequest
<1>1. worker = "asking" /\ requested /\ queue = 0
  BY DEF Resync
<1>2. CASE /\ seqr' = [NeedSnapshot EXCEPT !.buf = r.seq.buf]
           /\ requested' = FALSE /\ worker' = "stale" /\ UNCHANGED queue
  <2>1. seqr'.state = "need"
    BY <1>2 DEF NeedSnapshot
  <2> QED
    BY <1>1, <1>2, <2>1
<1>3. CASE /\ seqr' = NeedSnapshot /\ requested' = TRUE
           /\ queue' = queue + 1 /\ worker' = "idle"
  BY <1>1, <1>3 DEF NeedSnapshot
<1>4. CASE requested' = FALSE /\ worker' = "idle" /\ UNCHANGED queue
  BY <1>1, <1>4
<1> QED
  BY <1>2, <1>3, <1>4 DEF Resync

LEMMA StepKeepsRequest == ASSUME RequestInv, [Next]_vars PROVE RequestInv'
<1>1. ASSUME NEW c \in Conns, Deliver(c) PROVE RequestInv'
  BY <1>1, EventKeeps DEF Deliver
<1>2. ASSUME NEW c \in Conns, AfterLifecycle(c) PROVE RequestInv'
  <2>1. UNCHANGED worker /\ (UNCHANGED <<seqr, requested, queue>> \/ Reset)
    BY <1>2 DEF AfterLifecycle
  <2> QED
    BY <2>1, ResetKeeps DEF RequestInv, RequestType, OneRequest
<1>3. CASE UpdateScales
  <2>1. UNCHANGED worker /\ (UNCHANGED <<seqr, requested, queue>> \/ Reset)
    BY <1>3 DEF UpdateScales
  <2> QED
    BY <2>1, ResetKeeps DEF RequestInv, RequestType, OneRequest
<1>4. CASE TakeRequest
  BY <1>4 DEF TakeRequest, RequestInv, RequestType, OneRequest
<1>5. CASE AskAgain
  <2>1. seqr.state = "need" /\ UNCHANGED seqr
    BY <1>5 DEF RequestInv, AskAgain
  <2> QED
    BY <1>5, <2>1 DEF AskAgain, RequestSnapshot, RequestInv, RequestType, OneRequest
<1>6. CASE Requeue
  <2>1. queue = 0 /\ seqr.state = "need"
    BY <1>6 DEF Requeue, RequestInv, RequestType, OneRequest
  <2>2. requested' = TRUE /\ queue' = 1 /\ worker' = "idle" /\ UNCHANGED seqr
    BY <1>6, <2>1 DEF Requeue
  <2> QED
    BY <2>1, <2>2 DEF RequestInv, RequestType, OneRequest
<1>7. CASE ResyncFails \/ WorkerDies
  BY <1>7 DEF ResyncFails, WorkerDies, RequestInv, RequestType, OneRequest
<1>8. ASSUME NEW id \in 0..LastUpdate, Resync(id) PROVE RequestInv'
  BY <1>8, ResyncKeeps
<1>9. CASE UNCHANGED sync
  BY <1>9 DEF sync, RequestInv, RequestType, OneRequest
<1>10. ASSUME NEW c \in Conns, Opened(c) \/ Skip(c) PROVE UNCHANGED sync
  BY <1>10 DEF Opened, Skip
<1>11. CASE Publish \/ ChangeTick \/ UNCHANGED vars
  BY <1>9, <1>11 DEF Publish, ChangeTick, vars
<1> QED
  BY <1>1, <1>2, <1>3, <1>4, <1>5, <1>6, <1>7, <1>8, <1>9, <1>10, <1>11 DEF Next, Worker

(* A snapshot is asked for only while the sequencer waits for one, by one  *)
(* request at a time.                                                      *)
THEOREM OneRequestHolds == Spec => []OneRequest
<1>1. Init => RequestInv
  <2> SUFFICES ASSUME Init PROVE RequestInv
    OBVIOUS
  <2>1. requested = FALSE /\ queue = 0 /\ worker = "idle"
    BY DEF Init
  <2>2. RequestType
    BY <2>1 DEF RequestType
  <2>3. ~ requested /\ ~ (queue = 1 \/ worker \in {"asking", "retry", "dead"})
    BY <2>1
  <2>4. OneRequest
    BY <2>1, <2>3 DEF OneRequest
  <2> QED
    BY <2>1, <2>2, <2>4 DEF RequestInv
<1>2. RequestInv /\ [Next]_vars => RequestInv'
  BY StepKeepsRequest
<1>3. RequestInv => OneRequest
  BY DEF RequestInv
<1> QED
  BY <1>1, <1>2, <1>3, PTL DEF Spec

-----------------------------------------------------------------------------

(* Without known scales there is no book, so none can be in unknown ones.  *)
ScaleInv == BookHasScales /\ (scales = None => book = None)

LEMMA StepKeepsScales == ASSUME ScaleInv, [Next]_vars PROVE ScaleInv'
<1> USE DEF ScaleInv, BookHasScales
<1>1. ASSUME NEW c \in Conns, Deliver(c) PROVE ScaleInv'
  <2>1. UNCHANGED scales /\ SequenceDepth(Event(pos[c] + 1))
    BY <1>1 DEF Deliver
  <2>2. book' = None \/ (book # None /\ book'.scale = book.scale)
    BY <2>1 DEF SequenceDepth
  <2> QED
    BY <2>1, <2>2
<1>2. ASSUME NEW id \in 0..LastUpdate, Resync(id) PROVE ScaleInv'
  <2>1. UNCHANGED scales
    BY <1>2 DEF Resync
  <2>2. \/ UNCHANGED book
        \/ book' = None
        \/ scales # None /\ book'.scale = scales
    BY <1>2 DEF Resync
  <2> QED
    BY <2>1, <2>2
<1>3. CASE UpdateScales
  BY <1>3 DEF UpdateScales, Tick
<1>4. CASE UNCHANGED <<book, scales>>
  BY <1>4
<1>5. ASSUME NEW c \in Conns, Opened(c) \/ Skip(c) \/ AfterLifecycle(c)
      PROVE  UNCHANGED <<book, scales>>
  BY <1>5 DEF Opened, Skip, AfterLifecycle, sync
<1>6. CASE Publish \/ ChangeTick \/ ResyncFails \/ WorkerDies \/ UNCHANGED vars
  BY <1>4, <1>6 DEF Publish, ChangeTick, ResyncFails, WorkerDies, vars, sync
<1>7. CASE TakeRequest \/ AskAgain \/ Requeue
  BY <1>4, <1>7 DEF TakeRequest, AskAgain, Requeue
<1>8. CASE Supervise /\ UNCHANGED <<pos, exchange, sync, faults>>
  BY <1>4, <1>8 DEF sync
<1> QED
  BY <1>1, <1>2, <1>3, <1>4, <1>5, <1>6, <1>7, <1>8 DEF Next, Worker

(* The book is in the tick and lot size the process believes in.           *)
THEOREM BookHasScalesHolds == Spec => []BookHasScales
<1>1. Init => ScaleInv
  BY DEF Init, ScaleInv, BookHasScales
<1>2. ScaleInv /\ [Next]_vars => ScaleInv'
  BY StepKeepsScales
<1>3. ScaleInv => BookHasScales
  BY DEF ScaleInv
<1> QED
  BY <1>1, <1>2, <1>3, PTL DEF Spec

-----------------------------------------------------------------------------
(* Folds over a sequence.                                                  *)

(* Induction over a set of numbers.                                        *)
LEMMA Induction ==
  ASSUME NEW S, 0 \in S, \A n \in Nat : n \in S => n + 1 \in S
  PROVE  \A n \in Nat : n \in S
<1> SUFFICES ASSUME NEW m \in Nat, m \notin S PROVE FALSE
  OBVIOUS
<1> DEFINE Out == {n \in Nat : n \notin S}
<1>1. PICK f \in Out : \A g \in Out : <<g, f>> \notin OpToRel(<, Nat)
  BY NatLessThanWellFounded, WFMin
<1>2. \A g \in Out : f <= g
  <2>1. \A i, j \in Nat : <<j, i>> \notin OpToRel(<, Nat) => i <= j
    BY DEF OpToRel
  <2> QED
    BY <1>1, <2>1
<1>3. f # 0 /\ f - 1 \in Nat
  OBVIOUS
<1>4. f - 1 \in S
  BY <1>2, <1>3
<1> QED
  BY <1>3, <1>4

LEMMA MaxIn ==
  ASSUME NEW n \in Nat, NEW t \in SUBSET (1..n), t # {}
  PROVE  Max(t) \in t /\ \A k \in t : k <= Max(t)
<1> DEFINE Has(m) == \A r \in SUBSET (1..m) : r # {} => \E x \in r : \A k \in r : k <= x
           S == {m \in Nat : Has(m)}
<1>1. Has(0)
  <2>1. 1..0 = {}
    OBVIOUS
  <2> QED
    BY <2>1
<1>2. ASSUME NEW m \in Nat, Has(m) PROVE Has(m + 1)
  <2> SUFFICES ASSUME NEW r \in SUBSET (1..(m + 1)), r # {}
               PROVE  \E x \in r : \A k \in r : k <= x
    OBVIOUS
  <2>1. CASE m + 1 \in r
    BY <2>1
  <2>2. CASE m + 1 \notin r
    <3>1. r \in SUBSET (1..m)
      BY <2>2
    <3> QED
      BY <1>2, <3>1
  <2> QED
    BY <2>1, <2>2
<1>3. Has(n)
  <2>1. n \in S
    <3>1. 0 \in S /\ \A m \in Nat : m \in S => m + 1 \in S
      <4> HIDE DEF Has
      <4> QED
        BY <1>1, <1>2
    <3> HIDE DEF S
    <3> QED
      BY <3>1, Induction
  <2> QED
    BY <2>1
<1>4. \E x \in t : \A k \in t : x >= k
  BY <1>3
<1> QED
  BY <1>4 DEF Max

(* g computes the fold of op over the sequence s, the way FoldLeft does.   *)
IsFold(g, op, b, s, n) ==
  \A t \in SUBSET (1..n) :
     g[t] = IF t = {} THEN b ELSE op[<<g[t \ {Max(t)}], s[Max(t)]>>]

(* A function on the subsets of 1..Len(s) that computes the fold exists.   *)
LEMMA FoldExists ==
  ASSUME NEW V, NEW E, NEW op \in [V \X E -> V], NEW b \in V, NEW s \in Seq(E)
  PROVE  \E g \in [SUBSET (1..Len(s)) -> V] : IsFold(g, op, b, s, Len(s))
<1> DEFINE Has(n) == n <= Len(s) => \E g \in [SUBSET (1..n) -> V] : IsFold(g, op, b, s, n)
           S == {n \in Nat : Has(n)}
<1>0. Len(s) \in Nat
  OBVIOUS
<1>1. Has(0)
  <2>1. SUBSET (1..0) = {{}}
    OBVIOUS
  <2>2. IsFold([t \in SUBSET (1..0) |-> b], op, b, s, 0)
    BY <2>1 DEF IsFold
  <2> QED
    BY <2>2
<1>2. ASSUME NEW n \in Nat, Has(n) PROVE Has(n + 1)
  <2> SUFFICES ASSUME n + 1 <= Len(s)
               PROVE  \E g \in [SUBSET (1..(n + 1)) -> V] : IsFold(g, op, b, s, n + 1)
    OBVIOUS
  <2>1. PICK g \in [SUBSET (1..n) -> V] : IsFold(g, op, b, s, n)
    <3>1. n <= Len(s)
      BY <1>0
    <3> QED
      BY <1>2, <3>1, Zenon
  <2> DEFINE h == [t \in SUBSET (1..(n + 1)) |->
                     IF n + 1 \in t THEN op[<<g[t \ {n + 1}], s[n + 1]>>] ELSE g[t]]
  <2>2. ASSUME NEW t \in SUBSET (1..(n + 1)), n + 1 \in t
        PROVE  /\ Max(t) = n + 1
               /\ t \ {n + 1} \in SUBSET (1..n)
    <3>0. n + 1 \in Nat
      OBVIOUS
    <3>1. Max(t) \in t /\ n + 1 <= Max(t)
      BY <2>2, <3>0, MaxIn
    <3>2. Max(t) \in 1..(n + 1)
      BY <3>1
    <3> QED
      BY <2>2, <3>1, <3>2
  <2>3. ASSUME NEW t \in SUBSET (1..(n + 1)), n + 1 \notin t
        PROVE  t \in SUBSET (1..n)
    BY <2>3
  <2>4. s[n + 1] \in E
    OBVIOUS
  <2>5. h \in [SUBSET (1..(n + 1)) -> V]
    <3> SUFFICES ASSUME NEW t \in SUBSET (1..(n + 1)) PROVE h[t] \in V
      OBVIOUS
    <3>1. CASE n + 1 \in t
      BY <2>2, <2>4, <3>1
    <3>2. CASE n + 1 \notin t
      BY <2>3, <3>2
    <3> QED
      BY <3>1, <3>2
  <2>6. IsFold(h, op, b, s, n + 1)
    <3> SUFFICES ASSUME NEW t \in SUBSET (1..(n + 1))
                 PROVE h[t] = IF t = {} THEN b ELSE op[<<h[t \ {Max(t)}], s[Max(t)]>>]
      BY DEF IsFold
    <3>1. CASE n + 1 \in t
      <4>1. h[t \ {n + 1}] = g[t \ {n + 1}]
        BY <2>2, <3>1
      <4>2. h[t] = op[<<g[t \ {n + 1}], s[n + 1]>>]
        BY <3>1
      <4> QED
        BY <2>2, <3>1, <4>1, <4>2
    <3>2. CASE n + 1 \notin t
      <4>1. t \in SUBSET (1..n) /\ t \ {Max(t)} \in SUBSET (1..n) /\ t \ {Max(t)} \in SUBSET (1..(n + 1))
        BY <2>3, <3>2
      <4>2. h[t] = g[t] /\ h[t \ {Max(t)}] = g[t \ {Max(t)}]
        BY <3>2, <4>1
      <4>3. g[t] = IF t = {} THEN b ELSE op[<<g[t \ {Max(t)}], s[Max(t)]>>]
        BY <2>1, <4>1 DEF IsFold
      <4> QED
        BY <4>2, <4>3
    <3> QED
      BY <3>1, <3>2
  <2> QED
    BY <2>5, <2>6
<1>3. Has(Len(s))
  <2>1. Len(s) \in S
    <3>1. 0 \in S /\ \A n \in Nat : n \in S => n + 1 \in S
      <4> HIDE DEF Has
      <4> QED
        BY <1>1, <1>2
    <3> HIDE DEF S
    <3> QED
      BY <1>0, <3>1, Induction
  <2> QED
    BY <2>1
<1>4. Len(s) <= Len(s)
  BY <1>0
<1> QED
  BY <1>3, <1>4, Zenon


LEMMA Prefix ==
  ASSUME NEW i \in Nat, i # 0
  PROVE  1..i # {} /\ Max(1..i) = i /\ (1..i) \ {i} = 1..(i - 1)
<1>1. 1..i # {} /\ (1..i) \ {i} = 1..(i - 1)
  OBVIOUS
<1>2. Max(1..i) \in 1..i /\ i <= Max(1..i)
  <2>1. 1..i \in SUBSET (1..i) /\ i \in 1..i
    OBVIOUS
  <2> QED
    BY <1>1, <2>1, MaxIn
<1> QED
  BY <1>1, <1>2

(* The levels after 0, 1, ... of the events w, up to ApplyAll's.           *)
Run(p, b, w) ==
  /\ p[0] = b
  /\ \A i \in 1..Len(w) : p[i] = Apply(p[i - 1], w[i])
  /\ ApplyAll(b, w) = p[Len(w)]

LEMMA ApplyAllFolds ==
  ASSUME NEW V, NEW E, NEW b \in V, NEW s \in Seq(E),
         \A x \in V, e \in E : Apply(x, e) \in V
  PROVE  \E p : Run(p, b, s)
<1> DEFINE S == DOMAIN s
           IsIter(f) == f = [t \in SUBSET S |-> IF t = {} THEN b ELSE Apply(f[t \ {Max(t)}], s[Max(t)])]
           it == CHOOSE f : IsIter(f)
           op == [q \in V \X E |-> Apply(q[1], q[2])]
<1>1. ApplyAll(b, s) = it[S]
  BY Zenon DEF ApplyAll, FoldLeft, MapThenFoldSet
<1>2. op \in [V \X E -> V]
  OBVIOUS
<1>3. PICK g \in [SUBSET (1..Len(s)) -> V] : IsFold(g, op, b, s, Len(s))
  <2> HIDE DEF op
  <2> QED
    BY <1>2, FoldExists
<1>4. S = 1..Len(s) /\ Len(s) \in Nat
  OBVIOUS
<1>5. IsIter(g)
  <2>1. ASSUME NEW t \in SUBSET S, t # {} PROVE g[t] = Apply(g[t \ {Max(t)}], s[Max(t)])
    <3>1. Max(t) \in S
      BY <1>4, <2>1, MaxIn
    <3>2. g[t] = op[<<g[t \ {Max(t)}], s[Max(t)]>>]
      BY <1>3, <1>4, <2>1 DEF IsFold
    <3>3. g[t \ {Max(t)}] \in V /\ s[Max(t)] \in E
      BY <1>4, <3>1
    <3> QED
      BY <3>2, <3>3
  <2>2. g[{}] = b
    BY <1>3 DEF IsFold
  <2> QED
    BY <1>4, <2>1, <2>2
<1>6. IsIter(it)
  <2> HIDE DEF IsIter
  <2> QED
    BY <1>5
<1>7. \A t \in SUBSET S : it[t] = IF t = {} THEN b ELSE Apply(it[t \ {Max(t)}], s[Max(t)])
  BY <1>6
<1> HIDE DEF it, S
<1> DEFINE p == [i \in 0..Len(s) |-> it[1..i]]
<1>8. p[0] = b
  <2>1. 1..0 = {} /\ 0 \in 0..Len(s)
    BY <1>4
  <2> QED
    BY <1>7, <2>1
<1>9. ASSUME NEW i \in 1..Len(s) PROVE p[i] = Apply(p[i - 1], s[i])
  <2>1. /\ 1..i \in SUBSET S /\ i \in 0..Len(s) /\ i - 1 \in 0..Len(s)
        /\ i \in Nat /\ i # 0
    BY <1>4
  <2>2. 1..i # {} /\ Max(1..i) = i /\ (1..i) \ {i} = 1..(i - 1)
    BY <2>1, Prefix
  <2>3. it[1..i] = Apply(it[(1..i) \ {i}], s[i])
    BY <1>7, <2>1, <2>2
  <2> QED
    BY <2>1, <2>2, <2>3
<1>10. ApplyAll(b, s) = p[Len(s)]
  BY <1>1, <1>4
<1>11. Run(p, b, s)
  <2> HIDE DEF p
  <2> QED
    BY <1>8, <1>9, <1>10 DEF Run
<1> QED
  BY <1>11, Zenon

LEMMA ApplyAllNone == ASSUME NEW b PROVE ApplyAll(b, <<>>) = b
<1>1. ASSUME NEW V, V = {b}, NEW E, E = {}, NEW w \in Seq(E) PROVE \E p : Run(p, b, w)
  <2>1. b \in V /\ \A x \in V, e \in E : Apply(x, e) \in V
    BY <1>1
  <2> QED
    BY <2>1, ApplyAllFolds
<1>2. PICK p : Run(p, b, <<>>)
  <2>1. <<>> \in Seq({})
    OBVIOUS
  <2> QED
    BY <1>1, <2>1
<1> QED
  BY <1>2 DEF Run

LEMMA ApplyAllAppend ==
  ASSUME NEW V, NEW E, NEW b \in V, NEW s \in Seq(E), NEW e \in E,
         \A x \in V, y \in E : Apply(x, y) \in V
  PROVE  ApplyAll(b, Append(s, e)) = Apply(ApplyAll(b, s), e)
<1> DEFINE r == Append(s, e)
<1>0. /\ r \in Seq(E) /\ Len(r) = Len(s) + 1 /\ r[Len(s) + 1] = e /\ Len(s) \in Nat
      /\ \A i \in 1..Len(s) : r[i] = s[i]
  OBVIOUS
<1> HIDE DEF r
<1>1. PICK p : Run(p, b, s)
  BY ApplyAllFolds
<1>2. PICK q : Run(q, b, r)
  <2>1. r \in Seq(E)
    BY <1>0
  <2> QED
    BY <2>1, ApplyAllFolds
<1> DEFINE S == {i \in Nat : i <= Len(s) => p[i] = q[i]}
<1>4. 0 \in S
  BY <1>1, <1>2 DEF Run
<1>5. ASSUME NEW i \in Nat, i \in S PROVE i + 1 \in S
  <2> SUFFICES ASSUME i + 1 <= Len(s) PROVE p[i + 1] = q[i + 1]
    OBVIOUS
  <2>1. /\ i <= Len(s) /\ i + 1 \in 1..Len(s) /\ i + 1 \in 1..Len(r) /\ (i + 1) - 1 = i
    BY <1>0
  <2>2. p[i] = q[i]
    BY <1>5, <2>1
  <2>3. p[i + 1] = Apply(p[i], s[i + 1]) /\ q[i + 1] = Apply(q[i], r[i + 1])
    BY <1>1, <1>2, <2>1 DEF Run
  <2> QED
    BY <1>0, <2>1, <2>2, <2>3
<1>6. p[Len(s)] = q[Len(s)]
  <2>1. Len(s) \in S
    <3> HIDE DEF S
    <3> QED
      BY <1>0, <1>4, <1>5, Induction
  <2> QED
    BY <1>0, <2>1
<1>7. q[Len(r)] = Apply(q[Len(s)], e)
  <2>1. Len(r) \in 1..Len(r) /\ Len(r) - 1 = Len(s)
    BY <1>0
  <2> QED
    BY <1>0, <1>2, <2>1 DEF Run
<1> QED
  BY <1>0, <1>1, <1>2, <1>6, <1>7 DEF r, Run

(* The sequencer that has taken the snapshot id.                           *)
Awaiting(id) == Step([state |-> "await", last |-> 0, snap |-> id, buf |-> <<>>], <<>>, FALSE)

(* The sequencer after the replay of the buffered events is in every set   *)
(* that holds the one before it and that no event leaves.                  *)
LEMMA ReplayFolds ==
  ASSUME NEW q, NEW id, q.state = "need", NEW V, NEW E, Awaiting(id) \in V, q.buf \in Seq(E),
         \A x \in V, e \in E : Replay(x, e) \in V
  PROVE  on_snapshot(q, id) \in V
<1> DEFINE b == Awaiting(id)
           s == q.buf
           S == DOMAIN s
           IsIter(f) == f = [t \in SUBSET S |-> IF t = {} THEN b ELSE Replay(f[t \ {Max(t)}], s[Max(t)])]
           it == CHOOSE f : IsIter(f)
           op == [x \in V \X E |-> Replay(x[1], x[2])]
<1>1. on_snapshot(q, id) = it[S]
  BY Zenon DEF on_snapshot, Awaiting, FoldLeft, MapThenFoldSet
<1> HIDE DEF b
<1>b. b \in V /\ s \in Seq(E)
  BY DEF b
<1> HIDE DEF s
<1>2. op \in [V \X E -> V]
  OBVIOUS
<1>3. PICK g \in [SUBSET (1..Len(s)) -> V] : IsFold(g, op, b, s, Len(s))
  <2> HIDE DEF op
  <2> QED
    BY <1>2, <1>b, FoldExists
<1>4. S = 1..Len(s) /\ Len(s) \in Nat
  BY <1>b
<1>5. IsIter(g)
  <2>1. ASSUME NEW t \in SUBSET S, t # {} PROVE g[t] = Replay(g[t \ {Max(t)}], s[Max(t)])
    <3>1. Max(t) \in S
      BY <1>4, <2>1, MaxIn
    <3>2. g[t] = op[<<g[t \ {Max(t)}], s[Max(t)]>>]
      BY <1>3, <1>4, <2>1 DEF IsFold
    <3>3. g[t \ {Max(t)}] \in V /\ s[Max(t)] \in E
      BY <1>b, <1>4, <3>1
    <3> QED
      BY <3>2, <3>3
  <2>2. g[{}] = b
    BY <1>3 DEF IsFold
  <2> QED
    BY <1>4, <2>1, <2>2
<1>6. IsIter(it)
  <2> HIDE DEF IsIter
  <2> QED
    BY <1>5
<1>7. \A t \in SUBSET S : it[t] = IF t = {} THEN b ELSE Replay(it[t \ {Max(t)}], s[Max(t)])
  BY <1>6
<1> HIDE DEF it, S
<1> DEFINE T == {i \in Nat : i <= Len(s) => it[1..i] \in V}
<1>8. 0 \in T
  <2>1. 1..0 = {} /\ {} \in SUBSET S
    OBVIOUS
  <2> QED
    BY <1>b, <1>7, <2>1
<1>9. ASSUME NEW i \in Nat, i \in T PROVE i + 1 \in T
  <2> SUFFICES ASSUME i + 1 <= Len(s) PROVE it[1..(i + 1)] \in V
    OBVIOUS
  <2>1. /\ 1..(i + 1) \in SUBSET S /\ i + 1 \in S /\ i <= Len(s)
        /\ i + 1 \in Nat /\ i + 1 # 0 /\ (i + 1) - 1 = i
    BY <1>4
  <2>2. 1..(i + 1) # {} /\ Max(1..(i + 1)) = i + 1 /\ (1..(i + 1)) \ {i + 1} = 1..i
    BY <2>1, Prefix
  <2>3. it[1..(i + 1)] = Replay(it[1..i], s[i + 1])
    BY <1>7, <2>1, <2>2
  <2>4. it[1..i] \in V /\ s[i + 1] \in E
    BY <1>b, <1>9, <2>1 DEF S
  <2> QED
    BY <2>3, <2>4
<1>10. Len(s) \in T
  <2> HIDE DEF T
  <2> QED
    BY <1>4, <1>8, <1>9, Induction
<1> QED
  BY <1>1, <1>4, <1>10

-----------------------------------------------------------------------------

(* The events of the exchange: each continues its predecessor.             *)
Events == {e \in EventType : e.U = e.pu + 1 /\ e.U <= e.u}

Sequencers == {s \in [state : {"need", "await", "live"}, last : Updates, snap : Updates,
                      buf : Seq(Events)] : Len(s.buf) <= MaxBuffer}

Results == [seq : Sequencers, apply : Seq(Events), gap : BOOLEAN]

(* The update the sequencer stands at.                                     *)
At(s) == IF s.state = "await" THEN s.snap ELSE s.last

Books == [Levels -> Updates]

LEMMA UpdatesAreNat == Updates \subseteq Nat /\ 0 \in Updates /\ NLevels \in Nat \ {0}
BY DepthAssumption DEF Updates

LEMMA EventFields ==
  ASSUME NEW e \in Events
  PROVE  /\ e.U \in Updates /\ e.u \in Updates /\ e.pu \in Updates
         /\ e.U \in Nat /\ e.u \in Nat /\ e.pu \in Nat
         /\ e.U = e.pu + 1 /\ e.U <= e.u /\ 1 <= e.U
<1>1. e \in EventType /\ e.U = e.pu + 1 /\ e.U <= e.u
  BY DEF Events
<1>2. e.U \in Updates /\ e.u \in Updates /\ e.pu \in Updates
  BY <1>1 DEF EventType
<1>3. e.U \in Nat /\ e.u \in Nat /\ e.pu \in Nat
  BY <1>2, UpdatesAreNat
<1> QED
  BY <1>1, <1>2, <1>3

LEMMA LatestType ==
  ASSUME NEW l \in Levels, NEW from \in Nat, NEW to \in Updates
  PROVE  Latest(l, from, to) \in Updates
<1> DEFINE m == (to - l) % NLevels
<1>1. m \in Nat /\ to \in Nat
  BY UpdatesAreNat DEF Levels
<1> QED
  BY <1>1, UpdatesAreNat, DepthAssumption DEF Latest, Updates

LEMMA LatestNext ==
  ASSUME NEW l \in Levels, NEW n \in Nat, NEW from \in Nat, NEW to \in Nat,
         1 <= from, from <= n + 1, n <= to
  PROVE  Latest(l, 1, to) = IF Latest(l, from, to) = 0 THEN Latest(l, 1, n) ELSE Latest(l, from, to)
<1> DEFINE k == to - ((to - l) % NLevels)
           j == n - ((n - l) % NLevels)
<1>1. k \in Int /\ j \in Int /\ j <= n /\ l \in Nat /\ l < NLevels /\ NLevels \in Nat \ {0}
  BY UpdatesAreNat DEF Levels
<1>2. CASE k >= from
  <2>1. Latest(l, from, to) = k /\ Latest(l, 1, to) = k /\ k # 0
    BY <1>1, <1>2 DEF Latest
  <2> QED
    BY <2>1
<1>3. CASE k < from
  <2>1. k <= n
    BY <1>1, <1>3
  <2>2. j = k
    BY <1>1, <2>1
  <2>3. Latest(l, from, to) = 0
    BY <1>1, <1>3 DEF Latest
  <2>4. Latest(l, 1, to) = Latest(l, 1, n)
    BY <1>1, <2>2 DEF Latest
  <2> QED
    BY <2>3, <2>4
<1> QED
  BY <1>1, <1>2, <1>3

LEMMA BookType ==
  /\ \A n \in Updates : BookAt(n) \in Books
  /\ \A x \in Books, e \in Events : Apply(x, e) \in Books
<1>1. ASSUME NEW n \in Updates PROVE BookAt(n) \in Books
  BY LatestType DEF BookAt, Books
<1>2. ASSUME NEW x \in Books, NEW e \in Events PROVE Apply(x, e) \in Books
  <2>1. e.U \in Nat /\ e.u \in Updates
    BY UpdatesAreNat DEF Events, EventType
  <2>2. ASSUME NEW l \in Levels PROVE Latest(l, e.U, e.u) \in Updates /\ x[l] \in Updates
    BY <2>1, LatestType DEF Books
  <2> QED
    BY <2>2 DEF Apply, Books
<1> QED
  BY <1>1, <1>2

(* An event that reaches back to where the book stands brings it to where  *)
(* the event ends.                                                         *)
LEMMA ApplyNext ==
  ASSUME NEW n \in Updates, NEW e \in Events, e.U <= n + 1, n <= e.u
  PROVE  Apply(BookAt(n), e) = BookAt(e.u)
<1>1. e.U \in Nat /\ e.u \in Nat /\ n \in Nat /\ 1 <= e.U
  BY EventFields, UpdatesAreNat
<1>2. ASSUME NEW l \in Levels
      PROVE  (IF Latest(l, e.U, e.u) = 0 THEN BookAt(n)[l] ELSE Latest(l, e.U, e.u))
               = Latest(l, 1, e.u)
  BY <1>1, LatestNext DEF BookAt
<1> QED
  BY <1>2 DEF Apply, BookAt

LEMMA BufferedType ==
  ASSUME NEW s \in Sequencers, NEW e \in Events
  PROVE  Buffered(s, e) \in Sequencers /\ Buffered(s, e).state = s.state
<1>1. s.buf \in Seq(Events) /\ Len(s.buf) \in Nat /\ Len(s.buf) <= MaxBuffer /\ MaxBuffer \in Nat \ {0}
  BY DepthAssumption DEF Sequencers
<1> DEFINE b == IF Len(s.buf) < MaxBuffer THEN Append(s.buf, e) ELSE Append(Tail(s.buf), e)
<1>2. b \in Seq(Events) /\ Len(b) <= MaxBuffer
  BY <1>1
<1> QED
  BY <1>2 DEF Buffered, Sequencers

LEMMA RestartType ==
  ASSUME NEW e \in Events
  PROVE  Restart(e) \in Sequencers /\ Restart(e).state = "need"
<1>1. <<e>> \in Seq(Events) /\ Len(<<e>>) = 1 /\ 1 <= MaxBuffer
  BY DepthAssumption
<1> QED
  BY <1>1, UpdatesAreNat DEF Restart, NeedSnapshot, Sequencers

LEMMA NeedType == NeedSnapshot \in Sequencers
<1>1. <<>> \in Seq(Events) /\ Len(<<>>) = 0 /\ 0 <= MaxBuffer
  BY DepthAssumption
<1> QED
  BY <1>1, UpdatesAreNat DEF NeedSnapshot, Sequencers

(* What an event does to the sequencer, and which one may be applied.      *)
LEMMA OnEvent ==
  ASSUME NEW s \in Sequencers, NEW e \in Events
  PROVE  LET r == on_event(s, e)
         IN  /\ r \in Results
             /\ s.state = "need" \/ r.gap => r.seq.state = "need"
             /\ r.seq.state # "need" <=> ~ r.gap /\ s.state # "need"
             /\ \/ r.apply = <<>> /\ (r.seq.state # "need" => r.seq = s)
                \/ /\ r.apply = <<e>>
                   /\ s.state # "need" /\ r.seq.state = "live" /\ r.seq.last = e.u
                   /\ e.U <= At(s) + 1 /\ At(s) <= e.u
<1> DEFINE r == on_event(s, e)
<1>1. s.snap \in Nat /\ s.last \in Nat /\ s.state \in {"need", "await", "live"}
  <2>1. s.snap \in Updates /\ s.last \in Updates /\ s.state \in {"need", "await", "live"}
    BY DEF Sequencers
  <2> QED
    BY <2>1, UpdatesAreNat
<1>2. <<>> \in Seq(Events) /\ <<e>> \in Seq(Events)
  OBVIOUS
<1>3. CASE r = Step(Buffered(s, e), <<>>, FALSE) /\ s.state = "need"
  BY <1>2, <1>3, BufferedType DEF Step, Results
<1>4. CASE r = Step(s, <<>>, FALSE) /\ s.state # "need"
  BY <1>2, <1>4 DEF Step, Results
<1>5. CASE r = Step(Restart(e), <<>>, TRUE) /\ s.state # "need"
  BY <1>2, <1>5, RestartType DEF Step, Results
<1>6. ASSUME s.state # "need", e.U <= At(s) + 1, At(s) <= e.u, NEW t \in Sequencers,
             t.state = "live", t.last = e.u, r = Step(t, <<e>>, FALSE)
      PROVE  /\ r \in Results
             /\ ~ r.gap /\ r.seq.state # "need" /\ r.apply = <<e>>
             /\ r.seq.state = "live" /\ r.seq.last = e.u
  BY <1>2, <1>6 DEF Step, Results
<1>7. CASE /\ r = Step([s EXCEPT !.state = "live", !.last = e.u], <<e>>, FALSE)
           /\ s.state = "await" /\ Bridges(s, e) /\ ~ (e.u < s.snap)
  <2> DEFINE t == [s EXCEPT !.state = "live", !.last = e.u]
  <2>1. e.U <= At(s) + 1 /\ At(s) <= e.u
    BY <1>1, <1>7, EventFields DEF Bridges, At
  <2>2. t \in Sequencers /\ t.state = "live" /\ t.last = e.u
    BY EventFields DEF Sequencers
  <2> HIDE DEF t
  <2> QED
    BY <1>6, <1>7, <2>1, <2>2 DEF t
<1>8. CASE /\ r = Step([s EXCEPT !.last = e.u], <<e>>, FALSE)
           /\ s.state = "live" /\ e.pu = s.last
  <2> DEFINE t == [s EXCEPT !.last = e.u]
  <2>1. e.U <= At(s) + 1 /\ At(s) <= e.u
    BY <1>1, <1>8, EventFields DEF At
  <2>2. t \in Sequencers /\ t.state = "live" /\ t.last = e.u
    BY <1>8, EventFields DEF Sequencers
  <2> HIDE DEF t
  <2> QED
    BY <1>6, <1>8, <2>1, <2>2 DEF t
<1>9. \/ r = Step(Buffered(s, e), <<>>, FALSE) /\ s.state = "need"
      \/ r = Step(s, <<>>, FALSE) /\ s.state # "need"
      \/ r = Step(Restart(e), <<>>, TRUE) /\ s.state # "need"
      \/ /\ r = Step([s EXCEPT !.state = "live", !.last = e.u], <<e>>, FALSE)
         /\ s.state = "await" /\ Bridges(s, e) /\ ~ (e.u < s.snap)
      \/ /\ r = Step([s EXCEPT !.last = e.u], <<e>>, FALSE)
         /\ s.state = "live" /\ e.pu = s.last
  <2>1. CASE s.state = "need"
    BY <2>1, Zenon DEF on_event
  <2>2. CASE s.state = "await"
    BY <2>2, Zenon DEF on_event
  <2>3. CASE s.state = "live"
    BY <2>3, Zenon DEF on_event
  <2> QED
    BY <1>1, <2>1, <2>2, <2>3
<1> HIDE DEF r
<1> QED
  BY <1>3, <1>4, <1>5, <1>7, <1>8, <1>9 DEF r

(* What the replay keeps: unless there was a gap, what may be applied to   *)
(* the snapshot's book brings it to where the sequencer stands.            *)
Held(r, id) ==
  /\ r.gap => r.seq.state = "need"
  /\ ~ r.gap => r.seq.state # "need" /\ ApplyAll(BookAt(id), r.apply) = BookAt(At(r.seq))

LEMMA AtType == ASSUME NEW s \in Sequencers PROVE At(s) \in Updates
BY DEF Sequencers, At

LEMMA ReplayHeld ==
  ASSUME NEW id \in Updates, NEW r \in Results, Held(r, id), NEW e \in Events
  PROVE  Replay(r, e) \in Results /\ Held(Replay(r, e), id)
<1>1. r.seq \in Sequencers /\ r.apply \in Seq(Events) /\ r.gap \in BOOLEAN
  BY DEF Results
<1>2. CASE r.gap
  <2>1. Replay(r, e) = [r EXCEPT !.seq = Buffered(r.seq, e)]
    BY <1>2 DEF Replay
  <2>2. Buffered(r.seq, e) \in Sequencers /\ Buffered(r.seq, e).state = "need"
    BY <1>1, <1>2, BufferedType DEF Held
  <2> QED
    BY <1>1, <1>2, <2>1, <2>2 DEF Results, Held
<1>3. CASE ~ r.gap
  <2> DEFINE n == on_event(r.seq, e)
  <2>1. /\ n \in Results
        /\ n.gap => n.seq.state = "need"
        /\ n.seq.state # "need" => ~ n.gap
        /\ \/ n.apply = <<>> /\ (n.seq.state # "need" => n.seq = r.seq)
           \/ /\ n.apply = <<e>>
              /\ n.seq.state = "live" /\ n.seq.last = e.u
              /\ e.U <= At(r.seq) + 1 /\ At(r.seq) <= e.u
        /\ r.seq.state # "need" /\ (~ n.gap => n.seq.state # "need")
    <3>1. r.seq.state # "need"
      BY <1>3 DEF Held
    <3> QED
      BY <1>1, <3>1, OnEvent
  <2>2. /\ Replay(r, e) = Step(n.seq, IF n.gap THEN <<>> ELSE r.apply \o n.apply, n.gap)
    BY <1>3 DEF Replay
  <2> HIDE DEF n
  <2>3. n.seq \in Sequencers /\ n.apply \in Seq(Events) /\ n.gap \in BOOLEAN
    BY <2>1 DEF Results
  <2>4. CASE n.gap
    BY <2>1, <2>2, <2>3, <2>4 DEF Step, Results, Held
  <2>5. CASE ~ n.gap /\ n.apply = <<>>
    <3>1. r.apply \o n.apply = r.apply /\ n.seq = r.seq
      BY <1>1, <2>1, <2>5
    <3>2. Replay(r, e) = Step(r.seq, r.apply, FALSE)
      BY <2>2, <2>3, <2>5, <3>1
    <3> QED
      BY <1>1, <1>3, <3>2 DEF Step, Results, Held
  <2>6. CASE ~ n.gap /\ n.apply = <<e>>
    <3>1. r.apply \o n.apply = Append(r.apply, e) /\ Append(r.apply, e) \in Seq(Events)
      BY <1>1, <2>6
    <3>2. Replay(r, e) = Step(n.seq, Append(r.apply, e), FALSE)
      BY <2>2, <2>3, <2>6, <3>1
    <3>3. /\ n.seq.state = "live" /\ n.seq.last = e.u
          /\ e.U <= At(r.seq) + 1 /\ At(r.seq) <= e.u
      <4>1. <<e>> # <<>>
        OBVIOUS
      <4> QED
        BY <2>1, <2>6, <4>1
    <3>4. ApplyAll(BookAt(id), Append(r.apply, e)) = Apply(ApplyAll(BookAt(id), r.apply), e)
      BY <1>1, BookType, ApplyAllAppend
    <3>5. Apply(BookAt(At(r.seq)), e) = BookAt(e.u)
      BY <1>1, <3>3, AtType, ApplyNext
    <3>6. ApplyAll(BookAt(id), Append(r.apply, e)) = BookAt(At(n.seq))
      BY <1>3, <3>3, <3>4, <3>5 DEF Held, At
    <3> QED
      BY <2>3, <3>1, <3>2, <3>3, <3>6 DEF Step, Results, Held
  <2> QED
    BY <2>1, <2>4, <2>5, <2>6
<1> QED
  BY <1>1, <1>2, <1>3

LEMMA AwaitingHeld ==
  ASSUME NEW id \in Updates
  PROVE  Awaiting(id) \in Results /\ Held(Awaiting(id), id)
<1>1. <<>> \in Seq(Events) /\ Len(<<>>) = 0 /\ 0 <= MaxBuffer
  BY DepthAssumption
<1>2. [state |-> "await", last |-> 0, snap |-> id, buf |-> <<>>] \in Sequencers
  BY <1>1, UpdatesAreNat DEF Sequencers
<1>3. ApplyAll(BookAt(id), <<>>) = BookAt(id)
  BY ApplyAllNone
<1> QED
  BY <1>1, <1>2, <1>3 DEF Awaiting, Step, Results, Held, At

LEMMA OnSnapshot ==
  ASSUME NEW s \in Sequencers, s.state = "need", NEW id \in Updates
  PROVE  on_snapshot(s, id) \in Results /\ Held(on_snapshot(s, id), id)
<1> DEFINE V == {r \in Results : Held(r, id)}
<1>1. Awaiting(id) \in V /\ s.buf \in Seq(Events)
  BY AwaitingHeld DEF Sequencers
<1>2. \A x \in V, e \in Events : Replay(x, e) \in V
  BY ReplayHeld
<1>3. on_snapshot(s, id) \in V
  <2> HIDE DEF V
  <2> QED
    BY <1>1, <1>2, ReplayFolds
<1> QED
  BY <1>3

-----------------------------------------------------------------------------

(* The exchange's updates are numbered on and on.                          *)
HistoryOK ==
  /\ history \in Seq(Nat)
  /\ Len(history) <= MaxEvents
  /\ \A i \in 1..Len(history) : Upto(i - 1) < Upto(i) /\ Upto(i) <= 2 * i
  /\ pos \in [Conns -> 0..MaxEvents]

BookOK ==
  /\ seqr \in Sequencers
  /\ book # None => /\ book \in [scale : 0..1, levels : Books]
                    /\ seqr.state # "need" => book.levels = BookAt(At(seqr))
  /\ live \in BOOLEAN
  /\ scales \in {None, 0, 1}

LEMMA HistoryIsEvents ==
  ASSUME HistoryOK
  PROVE  /\ \A i \in 0..Len(history) : Upto(i) \in Updates
         /\ LastUpdate \in Updates
         /\ \A i \in 1..Len(history) : Event(i) \in Events
<1>1. Len(history) \in Nat /\ MaxEvents \in Nat /\ Len(history) <= MaxEvents
  BY DepthAssumption DEF HistoryOK
<1>2. ASSUME NEW i \in 0..Len(history) PROVE Upto(i) \in Updates
  <2>1. CASE i = 0
    BY <2>1, UpdatesAreNat DEF Upto
  <2>2. CASE i # 0
    <3>1. i \in 1..Len(history) /\ Upto(i) = history[i]
      BY <1>1, <2>2 DEF Upto
    <3>2. Upto(i) \in Nat /\ Upto(i) <= 2 * i
      BY <3>1 DEF HistoryOK
    <3> QED
      BY <1>1, <3>1, <3>2 DEF Updates
  <2> QED
    BY <2>1, <2>2
<1>3. ASSUME NEW i \in 1..Len(history) PROVE Event(i) \in Events
  <2>1. i \in 0..Len(history) /\ i - 1 \in 0..Len(history) /\ Upto(i - 1) < Upto(i)
    BY <1>1 DEF HistoryOK
  <2>2. Upto(i) \in Updates /\ Upto(i - 1) \in Updates
    BY <1>2, <2>1
  <2>3. Upto(i - 1) + 1 \in Updates /\ Upto(i - 1) + 1 <= Upto(i)
    BY <1>1, <2>1, <2>2 DEF Updates
  <2> QED
    BY <2>2, <2>3 DEF Event, Events, EventType
<1>4. LastUpdate \in Updates
  BY <1>1, <1>2 DEF LastUpdate
<1> QED
  BY <1>2, <1>3, <1>4

LEMMA ApplyOne ==
  ASSUME NEW b \in Books, NEW e \in Events
  PROVE  ApplyAll(b, <<e>>) = Apply(b, e)
<1>1. ASSUME NEW s \in Seq(Events)
      PROVE  ApplyAll(b, Append(s, e)) = Apply(ApplyAll(b, s), e)
  BY BookType, ApplyAllAppend
<1>2. <<>> \in Seq(Events) /\ Append(<<>>, e) = <<e>>
  OBVIOUS
<1>3. ApplyAll(b, Append(<<>>, e)) = Apply(ApplyAll(b, <<>>), e)
  BY <1>1, <1>2
<1> QED
  BY <1>2, <1>3, ApplyAllNone

LEMMA EventKeepsBook ==
  ASSUME BookOK, NEW e \in Events, SequenceDepth(e), UNCHANGED scales
  PROVE  BookOK'
<1> DEFINE r == on_event(seqr, e)
<1>1. /\ r \in Results
      /\ r.seq.state # "need" <=> ~ r.gap /\ seqr.state # "need"
      /\ \/ r.apply = <<>> /\ (r.seq.state # "need" => r.seq = seqr)
         \/ /\ r.apply = <<e>>
            /\ seqr.state # "need" /\ r.seq.state = "live" /\ r.seq.last = e.u
            /\ e.U <= At(seqr) + 1 /\ At(seqr) <= e.u
  BY OnEvent DEF BookOK
<1>2. r.seq \in Sequencers
  BY <1>1 DEF Results
<1>3. CASE Reset /\ book' = None
  BY <1>3, NeedType DEF Reset, BookOK
<1>4. CASE /\ seqr' = r.seq
           /\ book' = IF book = None THEN None
                      ELSE [scale |-> book.scale, levels |-> ApplyAll(book.levels, r.apply)]
           /\ live' = (r.seq.state = "live")
  <2> HIDE DEF r
  <2>1. CASE book = None
    BY <1>2, <1>4, <2>1 DEF BookOK
  <2>2. CASE book # None
    <3>0. /\ book \in [scale : 0..1, levels : Books]
          /\ seqr.state # "need" => book.levels = BookAt(At(seqr))
      BY <2>2 DEF BookOK
    <3>1. CASE r.apply = <<>> /\ (r.seq.state # "need" => r.seq = seqr)
      <4>1. ApplyAll(book.levels, r.apply) = book.levels
        BY <3>1, ApplyAllNone
      <4> QED
        BY <1>1, <1>2, <1>4, <2>2, <3>0, <3>1, <4>1 DEF BookOK
    <3>2. CASE /\ r.apply = <<e>>
               /\ seqr.state # "need" /\ r.seq.state = "live" /\ r.seq.last = e.u
               /\ e.U <= At(seqr) + 1 /\ At(seqr) <= e.u
      <4>1. ApplyAll(book.levels, <<e>>) = Apply(book.levels, e)
        <5>1. book.levels \in Books
          BY <3>0
        <5> QED
          BY <5>1, ApplyOne
      <4>2. At(seqr) \in Updates
        BY AtType DEF BookOK
      <4>3. Apply(book.levels, e) = BookAt(e.u)
        BY <3>0, <3>2, <4>2, ApplyNext
      <4>4. At(r.seq) = e.u
        BY <3>2 DEF At
      <4>5. BookAt(e.u) \in Books
        BY EventFields, BookType
      <4>6. book' = [scale |-> book.scale, levels |-> BookAt(e.u)]
        BY <1>4, <2>2, <3>2, <4>1, <4>3
      <4> QED
        BY <1>2, <1>4, <3>0, <4>4, <4>5, <4>6 DEF BookOK
    <3> QED
      BY <1>1, <3>1, <3>2
  <2> QED
    BY <2>1, <2>2
<1> QED
  BY <1>3, <1>4 DEF SequenceDepth

LEMMA ResyncKeepsBook ==
  ASSUME BookOK, ScaleInv, RequestInv, NEW id \in Updates, Resync(id)
  PROVE  BookOK'
<1> DEFINE r == on_snapshot(seqr, id)
<1>1. seqr \in Sequencers /\ seqr.state = "need" /\ UNCHANGED scales /\ scales \in {None, 0, 1}
  BY DEF Resync, RequestInv, OneRequest, BookOK
<1>2. r \in Results /\ Held(r, id)
  BY <1>1, OnSnapshot
<1>3. r.seq \in Sequencers
  BY <1>2 DEF Results
<1> HIDE DEF r
<1>4. CASE /\ seqr' = [NeedSnapshot EXCEPT !.buf = r.seq.buf]
           /\ UNCHANGED <<book, live>>
  <2>1. seqr' \in Sequencers /\ seqr'.state = "need"
    BY <1>3, <1>4, NeedType DEF Sequencers, NeedSnapshot
  <2> QED
    BY <1>1, <1>4, <2>1 DEF BookOK
<1>5. CASE seqr' = NeedSnapshot /\ book' = None /\ live' = FALSE
  BY <1>1, <1>5, NeedType DEF BookOK
<1>6. CASE /\ ~ r.gap
           /\ seqr' = r.seq
           /\ book' = IF scales = None THEN book
                      ELSE [scale |-> scales, levels |-> ApplyAll(BookAt(id), r.apply)]
           /\ live' = (r.seq.state = "live")
  <2>1. CASE scales = None
    BY <1>1, <1>3, <1>6, <2>1 DEF BookOK, ScaleInv
  <2>2. CASE scales # None
    <3>1. ApplyAll(BookAt(id), r.apply) = BookAt(At(r.seq)) /\ scales \in 0..1
      BY <1>1, <1>2, <1>6, <2>2 DEF Held
    <3>2. BookAt(At(r.seq)) \in Books
      BY <1>3, AtType, BookType
    <3>3. book' = [scale |-> scales, levels |-> BookAt(At(r.seq))]
      BY <1>6, <2>2, <3>1
    <3> QED
      BY <1>1, <1>3, <1>6, <3>1, <3>2, <3>3 DEF BookOK
  <2> QED
    BY <2>1, <2>2
<1> QED
  BY <1>4, <1>5, <1>6 DEF Resync, r

DepthInv == WsInv /\ RequestInv /\ ScaleInv /\ HistoryOK /\ BookOK

LEMMA StepKeepsHistory == ASSUME HistoryOK, [Next]_vars PROVE HistoryOK'
<1>1. ASSUME NEW p \in [Conns -> 0..MaxEvents], pos' = p, UNCHANGED history PROVE HistoryOK'
  BY <1>1 DEF HistoryOK, Upto
<1>2. ASSUME UNCHANGED <<history, pos>> PROVE HistoryOK'
  BY <1>1, <1>2 DEF HistoryOK
<1>3. CASE Publish
  <2>1. PICK n \in 1..2 : history' = Append(history, LastUpdate + n)
    BY <1>3 DEF Publish
  <2>2. Len(history) < MaxEvents /\ UNCHANGED pos /\ Len(history) \in Nat /\ MaxEvents \in Nat
    BY <1>3, DepthAssumption DEF Publish, HistoryOK
  <2>3. LastUpdate \in Nat /\ LastUpdate <= 2 * Len(history)
    <3>1. LastUpdate \in Nat
      BY HistoryIsEvents, UpdatesAreNat
    <3>2. CASE Len(history) = 0
      BY <3>2 DEF LastUpdate, Upto
    <3>3. CASE Len(history) # 0
      <4>1. Len(history) \in 1..Len(history)
        BY <2>2, <3>3
      <4> QED
        BY <4>1, <3>1 DEF LastUpdate, HistoryOK
    <3> QED
      BY <3>1, <3>2, <3>3
  <2>4. LastUpdate + n \in Nat
    BY <2>3
  <2>5. /\ history' \in Seq(Nat) /\ Len(history') = Len(history) + 1
        /\ \A i \in 1..Len(history) : history'[i] = history[i]
        /\ history'[Len(history) + 1] = LastUpdate + n
    BY <2>1, <2>4 DEF HistoryOK
  <2>6. \A i \in 0..Len(history) : Upto(i)' = Upto(i)
    BY <2>2, <2>5 DEF Upto
  <2>7. ASSUME NEW i \in Nat, i = Len(history) + 1 PROVE Upto(i)' = LastUpdate + n
    BY <2>2, <2>5, <2>7 DEF Upto
  <2>8. ASSUME NEW i \in 1..Len(history')
        PROVE  (Upto(i - 1) < Upto(i) /\ Upto(i) <= 2 * i)'
    <3>1. CASE i = Len(history) + 1
      <4>1. i - 1 = Len(history) /\ i - 1 \in 0..Len(history)
        BY <2>2, <3>1
      <4>2. Upto(i - 1)' = LastUpdate
        BY <2>6, <4>1 DEF LastUpdate
      <4>3. Upto(i)' = LastUpdate + n
        BY <2>2, <2>7, <3>1
      <4> QED
        BY <2>2, <2>3, <3>1, <4>2, <4>3
    <3>2. CASE i # Len(history) + 1
      <4>1. i \in 1..Len(history) /\ i \in 0..Len(history) /\ i - 1 \in 0..Len(history)
        BY <2>2, <2>5, <3>2
      <4> QED
        BY <2>6, <4>1 DEF HistoryOK
    <3> QED
      BY <3>1, <3>2
  <2> QED
    BY <2>2, <2>5, <2>8 DEF HistoryOK
<1>4. ASSUME NEW c \in Conns, Opened(c) \/ Deliver(c) \/ Skip(c) \/ AfterLifecycle(c)
      PROVE  HistoryOK'
  <2>0. /\ pos \in [Conns -> 0..MaxEvents] /\ Len(history) \in 0..MaxEvents
        /\ MaxEvents \in Nat
    BY DepthAssumption DEF HistoryOK
  <2>1. CASE Opened(c)
    BY <1>1, <2>0, <2>1 DEF Opened, exchange
  <2>2. CASE Deliver(c) \/ Skip(c)
    <3>1. /\ pos' = [pos EXCEPT ![c] = @ + 1] /\ pos[c] < Len(history) /\ UNCHANGED history
      BY <2>2 DEF Deliver, Skip, exchange
    <3>2. pos[c] + 1 \in 0..MaxEvents
      BY <2>0, <3>1
    <3>3. [pos EXCEPT ![c] = @ + 1] \in [Conns -> 0..MaxEvents]
      BY <2>0, <3>2
    <3> QED
      BY <1>1, <3>1, <3>3
  <2>3. CASE AfterLifecycle(c)
    BY <1>2, <2>3 DEF AfterLifecycle, exchange
  <2> QED
    BY <1>4, <2>1, <2>2, <2>3
<1>5. CASE UpdateScales \/ Worker \/ ResyncFails \/ WorkerDies \/ ChangeTick \/ UNCHANGED vars
  BY <1>2, <1>5
  DEF UpdateScales, Worker, TakeRequest, AskAgain, Requeue, Resync, ResyncFails, WorkerDies,
      ChangeTick, vars, exchange
<1>6. CASE Supervise /\ UNCHANGED <<pos, exchange, sync, faults>>
  BY <1>2, <1>6 DEF exchange
<1> QED
  BY <1>3, <1>4, <1>5, <1>6 DEF Next

LEMMA StepKeepsBook == ASSUME DepthInv, [Next]_vars PROVE BookOK'
<1> USE DEF DepthInv
<1>1. ASSUME UNCHANGED <<seqr, book, live, scales>> PROVE BookOK'
  BY <1>1 DEF BookOK
<1>2. ASSUME NEW c \in Conns, Deliver(c) PROVE BookOK'
  <2>1. pos[c] + 1 \in 1..Len(history)
    BY <1>2 DEF Deliver, HistoryOK
  <2>2. Event(pos[c] + 1) \in Events
    BY <2>1, HistoryIsEvents
  <2> QED
    BY <1>2, <2>2, EventKeepsBook DEF Deliver
<1>3. ASSUME NEW c \in Conns, AfterLifecycle(c) PROVE BookOK'
  <2>1. UNCHANGED <<book, scales>> /\ (UNCHANGED <<seqr, live>> \/ Reset)
    BY <1>3 DEF AfterLifecycle
  <2>2. NeedSnapshot.state = "need"
    BY DEF NeedSnapshot
  <2> QED
    BY <1>1, <2>1, <2>2, NeedType DEF Reset, BookOK
<1>4. CASE UpdateScales
  <2>1. scales' \in {None, 0, 1}
    BY <1>4 DEF UpdateScales, Tick
  <2>2. CASE UNCHANGED <<seqr, book, live>>
    BY <2>1, <2>2 DEF BookOK
  <2>3. CASE book' = None /\ Reset
    BY <2>1, <2>3, NeedType DEF Reset, BookOK
  <2> QED
    BY <1>4, <2>2, <2>3 DEF UpdateScales
<1>5. ASSUME NEW id \in 0..LastUpdate, Resync(id) PROVE BookOK'
  <2>1. id \in Updates
    <3>1. LastUpdate \in Updates
      BY HistoryIsEvents
    <3> QED
      BY <3>1, DepthAssumption DEF Updates
  <2> QED
    BY <1>5, <2>1, ResyncKeepsBook
<1>6. ASSUME NEW c \in Conns, Opened(c) \/ Skip(c) PROVE BookOK'
  BY <1>1, <1>6 DEF Opened, Skip, sync
<1>7. CASE Publish \/ ChangeTick \/ ResyncFails \/ WorkerDies \/ TakeRequest \/ AskAgain \/ Requeue
           \/ UNCHANGED vars
  BY <1>1, <1>7 DEF Publish, ChangeTick, ResyncFails, WorkerDies, TakeRequest, AskAgain, Requeue,
                    vars, sync
<1>8. CASE Supervise /\ UNCHANGED <<pos, exchange, sync, faults>>
  BY <1>1, <1>8 DEF sync
<1> QED
  BY <1>2, <1>3, <1>4, <1>5, <1>6, <1>7, <1>8 DEF Next, Worker

LEMMA DepthInvInit == ASSUME Init PROVE DepthInv
<1>1. WsInv
  BY DEF Init, WsInit, WsInv, WsTypeOK, NoStray
<1>2. RequestInv
  <2>1. requested = FALSE /\ queue = 0 /\ worker = "idle"
    BY DEF Init
  <2>2. RequestType
    BY <2>1 DEF RequestType
  <2>3. ~ requested /\ ~ (queue = 1 \/ worker \in {"asking", "retry", "dead"})
    BY <2>1
  <2>4. OneRequest
    BY <2>1, <2>3 DEF OneRequest
  <2> QED
    BY <2>1, <2>2, <2>4 DEF RequestInv
<1>3. ScaleInv
  BY DEF Init, ScaleInv, BookHasScales
<1>4. HistoryOK
  BY DepthAssumption DEF Init, HistoryOK
<1>5. BookOK
  BY NeedType DEF Init, BookOK
<1> QED
  BY <1>1, <1>2, <1>3, <1>4, <1>5 DEF DepthInv

LEMMA DepthInvNext == ASSUME DepthInv, [Next]_vars PROVE DepthInv'
<1>1. WsInv' /\ RequestInv' /\ ScaleInv'
  BY NextIsWsStep, WsStepKeeps, StepKeepsRequest, StepKeepsScales DEF DepthInv
<1>2. HistoryOK' /\ BookOK'
  BY StepKeepsHistory, StepKeepsBook DEF DepthInv
<1> QED
  BY <1>1, <1>2 DEF DepthInv

LEMMA DepthInvHolds == Spec => []DepthInv
BY DepthInvInit, DepthInvNext, PTL DEF Spec

LEMMA DepthInvTypes == ASSUME DepthInv PROVE TypeOK
<1>1. WsTypeOK /\ requested \in BOOLEAN /\ queue \in Nat
      /\ worker \in {"idle", "asking", "stale", "retry", "dead"}
  BY DEF DepthInv, WsInv, RequestInv, RequestType
<1>2. seqr \in [state : {"need", "await", "live"}, last : Nat, snap : Nat, buf : Seq(EventType)]
      /\ Len(seqr.buf) <= MaxBuffer
  <2>1. seqr \in Sequencers /\ Events \subseteq EventType
    BY DEF DepthInv, BookOK, Events
  <2>2. Seq(Events) \subseteq Seq(EventType)
    BY <2>1
  <2> QED
    BY <2>1, <2>2, UpdatesAreNat DEF Sequencers
<1>3. /\ book \in [scale : 0..1, levels : [Levels -> Updates]] \cup {None}
      /\ live \in BOOLEAN /\ scales \in {None, 0, 1} /\ pos \in [Conns -> 0..MaxEvents]
  BY DEF DepthInv, BookOK, HistoryOK, Books
<1> QED
  BY <1>1, <1>2, <1>3 DEF TypeOK

(* The book is the exchange's book at the update the sequencer stands at.  *)
THEOREM BookIsTrueHolds == Spec => []BookIsTrue
<1>1. DepthInv => BookIsTrue
  BY DEF DepthInv, BookOK, BookIsTrue, At
<1> QED
  BY <1>1, DepthInvHolds, PTL

(* Every variable has its type.                                            *)
THEOREM DepthTypes == Spec => []TypeOK
BY DepthInvHolds, DepthInvTypes, PTL

=============================================================================

----------------------------- MODULE DepthSync -----------------------------
(***************************************************************************)
(* The order book of one Binance symbol (quanta.venues.binance_usdm.       *)
(* sequencing, quanta.recorder.binance_usdm, quanta.marketstate.orderbook):*)
(* diff events come over the managed WebSocket, in the overlap of a        *)
(* rotation over two connections, a snapshot comes from the REST interface *)
(* with an update id of its own, and the sequencer decides what may be     *)
(* applied to the book.  Update k of the exchange sets one level to the    *)
(* value k; an event carries the updates U..u and names its predecessor's  *)
(* last update pu.                                                         *)
(***************************************************************************)
EXTENDS ManagedWs, SequencesExt

CONSTANTS
  MaxEvents,   \* bound: events the exchange sends
  MaxBuffer,   \* events the sequencer buffers
  MaxFaults,   \* bound: frames that are malformed, snapshot requests that fail,
               \*   answers that are no snapshot, changes of the instrument
  NLevels      \* price levels

ASSUME DepthAssumption ==
  /\ MaxEvents \in Nat /\ MaxBuffer \in Nat \ {0}
  /\ MaxFaults \in Nat
  /\ NLevels \in Nat \ {0}

VARIABLES
  history,    \* the exchange: u of every event so far
  changed,    \* the exchange: update after which tick and lot size are new, or None
  pos,        \* events each connection has delivered
  seqr,       \* DepthSequencer: state, last_u, snapshot_id, _buffer
  book,       \* DepthState.book: None, or its scales and levels
  live,       \* DepthState.live
  requested,  \* DepthState.snapshot_requested
  queue,      \* entries of _snapshot_queue
  worker,     \* what _snapshot_worker is doing
  scales,     \* the instrument's scales as known, or None
  faults      \* faults so far

exchange == <<history, changed>>
sync     == <<seqr, book, live, requested, queue, worker, scales>>
vars     == <<wsVars, exchange, pos, sync, faults>>

Levels == 0..(NLevels - 1)
Updates == 0..(2 * MaxEvents)
EventType == [U : Updates, u : Updates, pu : Updates]
NeedSnapshot == [state |-> "need", last |-> 0, snap |-> 0, buf |-> <<>>]

Upto(i) == IF i = 0 THEN 0 ELSE history[i]
LastUpdate == Upto(Len(history))
Event(i) == [U |-> Upto(i - 1) + 1, u |-> Upto(i), pu |-> Upto(i - 1)]

(* Prices of update k are multiples of the old or of the new tick size.    *)
Tick(k) == IF changed # None /\ k > changed THEN 1 ELSE 0

Fault == faults < MaxFaults /\ faults' = faults + 1

Init ==
  /\ WsInit
  /\ history = <<>>
  /\ changed = None
  /\ pos = [c \in Conns |-> 0]
  /\ seqr = NeedSnapshot
  /\ book = None
  /\ live = FALSE
  /\ requested = FALSE
  /\ queue = 0
  /\ worker = "idle"
  /\ scales \in {None, 0}     \* None: the first exchangeInfo was refused (HTTP 451)
  /\ faults = 0

-----------------------------------------------------------------------------
(* The book.                                                               *)

(* The last of the updates from..to that set level l, or 0.                *)
Latest(l, from, to) ==
  LET k == to - ((to - l) % NLevels) IN IF k >= from THEN k ELSE 0

(* The exchange's book after update n; the snapshot with id n.             *)
BookAt(n) == [l \in Levels |-> Latest(l, 1, n)]

(* L2Book.apply: levels the event names get their new value.               *)
Apply(levels, e) == [l \in Levels |-> IF Latest(l, e.U, e.u) = 0 THEN levels[l]
                                                               ELSE Latest(l, e.U, e.u)]

ApplyAll(levels, es) == FoldLeft(Apply, levels, es)

(* ScaleError: a price that is no multiple of the book's tick.             *)
Unrepresentable(scale, es) == \E i \in 1..Len(es) : Tick(es[i].u) # scale

-----------------------------------------------------------------------------
(* DepthSequencer.                                                         *)

Step(s, apply, gap) == [seq |-> s, apply |-> apply, gap |-> gap]

(* Bug: a deque without a limit.                                           *)
BufferedAll(s, e) ==
  [state |-> s.state, last |-> s.last, snap |-> s.snap, buf |-> Append(s.buf, e)]

(* A full deque drops its oldest entry.                                    *)
Buffered(s, e) ==
  [state |-> s.state, last |-> s.last, snap |-> s.snap,
   buf |-> IF Len(s.buf) < MaxBuffer THEN Append(s.buf, e) ELSE Append(Tail(s.buf), e)]

Restart(e) == [NeedSnapshot EXCEPT !.buf = <<e>>]

(* Bug: the first event after a snapshot need not reach back to it.        *)
BridgesLater(s, e) == e.u >= s.snap

Bridges(s, e) == (e.U <= s.snap /\ s.snap <= e.u) \/ e.pu = s.snap

on_event(s, e) ==
  IF s.state = "need" THEN Step(Buffered(s, e), <<>>, FALSE)
  ELSE IF s.state = "await"
       THEN IF e.u < s.snap THEN Step(s, <<>>, FALSE)
            ELSE IF Bridges(s, e)
                 THEN Step([s EXCEPT !.state = "live", !.last = e.u], <<e>>, FALSE)
                 ELSE Step(Restart(e), <<>>, TRUE)
  ELSE IF e.u <= s.last THEN Step(s, <<>>, FALSE)
  ELSE IF e.pu = s.last THEN Step([s EXCEPT !.last = e.u], <<e>>, FALSE)
  ELSE Step(Restart(e), <<>>, TRUE)

(* One buffered event after the snapshot; behind a gap the rest is kept.   *)
Replay(r, e) ==
  IF r.gap THEN [r EXCEPT !.seq = Buffered(@, e)]
  ELSE LET n == on_event(r.seq, e)
       IN  Step(n.seq, IF n.gap THEN <<>> ELSE r.apply \o n.apply, n.gap)

(* A snapshot nobody waits for changes nothing.                            *)
on_snapshot(s, id) ==
  IF s.state # "need" THEN Step(s, <<>>, FALSE)
  ELSE FoldLeft(Replay,
                Step([state |-> "await", last |-> 0, snap |-> id, buf |-> <<>>], <<>>, FALSE),
                s.buf)

-----------------------------------------------------------------------------
(* BinanceCapture.                                                         *)

RequestSnapshot ==
  /\ requested' = TRUE
  /\ queue' = IF requested THEN queue ELSE queue + 1

Reset ==
  /\ seqr' = NeedSnapshot
  /\ live' = FALSE
  /\ RequestSnapshot

(* _sequence_depth, for an event that can be applied and one that cannot.  *)
SequenceDepth(e) ==
  LET r == on_event(seqr, e)
  IN  \/ /\ book # None => ~ Unrepresentable(book.scale, r.apply)
         /\ seqr' = r.seq
         /\ book' = IF book = None THEN None
                    ELSE [scale |-> book.scale, levels |-> ApplyAll(book.levels, r.apply)]
         /\ live' = (r.seq.state = "live")
         /\ IF r.seq.state = "need" THEN RequestSnapshot ELSE UNCHANGED <<requested, queue>>
      \/ /\ book # None /\ Unrepresentable(book.scale, r.apply)
         /\ book' = None
         /\ Reset

(* The next frame of connection c, well formed or not.                     *)
Deliver(c) ==
  /\ Frame(c)
  /\ pos[c] < Len(history)
  /\ pos' = [pos EXCEPT ![c] = @ + 1]
  /\ SequenceDepth(Event(pos[c] + 1))
  /\ UNCHANGED <<exchange, worker, scales, faults>>

Skip(c) ==
  /\ Frame(c)
  /\ pos[c] < Len(history)
  /\ Fault
  /\ pos' = [pos EXCEPT ![c] = @ + 1]
  /\ UNCHANGED <<exchange, sync>>

(* A connection is gone: unless another one delivers, the book is reset.   *)
AfterLifecycle(c) ==
  /\ Down(c)
  /\ IF connected' THEN UNCHANGED <<seqr, live, requested, queue>> ELSE Reset
  /\ UNCHANGED <<pos, exchange, book, worker, scales, faults>>

(* A new connection delivers from now on.                                  *)
Opened(c) ==
  /\ Connect(c) \/ Rotate(c)
  /\ pos' = [pos EXCEPT ![c] = Len(history)]
  /\ UNCHANGED <<exchange, sync, faults>>

(* Bug: the book is kept.                                                  *)
UpdateScalesOnly ==
  /\ scales # Tick(LastUpdate)
  /\ scales' = Tick(LastUpdate)
  /\ UNCHANGED <<wsVars, pos, exchange, seqr, book, live, requested, queue, worker, faults>>

(* exchangeInfo: a change of the tick or lot size starts the book anew.    *)
UpdateScales ==
  LET new == Tick(LastUpdate)
  IN  /\ scales # new
      /\ scales' = new
      /\ IF scales = None THEN UNCHANGED <<seqr, book, live, requested, queue>>
         ELSE book' = None /\ Reset
      /\ UNCHANGED <<wsVars, pos, exchange, worker, faults>>

(* Bug: the flag is lowered before the answer is there.                    *)
TakeRequestEarly ==
  /\ worker = "idle"
  /\ queue > 0
  /\ queue' = queue - 1
  /\ worker' = "asking"
  /\ requested' = FALSE
  /\ UNCHANGED <<wsVars, pos, exchange, seqr, book, live, scales, faults>>

(* _snapshot_worker takes the symbol and asks.                             *)
TakeRequest ==
  /\ worker = "idle"
  /\ queue > 0
  /\ queue' = queue - 1
  /\ worker' = "asking"
  /\ UNCHANGED <<wsVars, pos, exchange, seqr, book, live, requested, scales, faults>>

(* _resync with a snapshot of any age: it is older than what is buffered,  *)
(* it cannot be represented, or it is the book, with what came since.      *)
Resync(id) ==
  LET r == on_snapshot(seqr, id)
  IN  /\ worker = "asking"
      /\ \/ /\ r.gap
            /\ seqr' = [NeedSnapshot EXCEPT !.buf = r.seq.buf]
            /\ requested' = FALSE
            /\ worker' = "stale"
            /\ UNCHANGED <<book, live, queue>>
         \/ /\ ~ r.gap
            /\ scales # None /\ (Tick(id) # scales \/ Unrepresentable(scales, r.apply))
            /\ seqr' = NeedSnapshot
            /\ book' = None
            /\ live' = FALSE
            /\ requested' = TRUE
            /\ queue' = queue + 1
            /\ worker' = "idle"
         \/ /\ ~ r.gap
            /\ scales # None => Tick(id) = scales /\ ~ Unrepresentable(scales, r.apply)
            /\ seqr' = r.seq
            /\ book' = IF scales = None THEN book
                       ELSE [scale |-> scales, levels |-> ApplyAll(BookAt(id), r.apply)]
            /\ live' = (r.seq.state = "live")
            /\ requested' = FALSE
            /\ worker' = "idle"
            /\ UNCHANGED queue
      /\ UNCHANGED <<wsVars, pos, exchange, scales, faults>>

(* After the pause behind a stale snapshot: ask again.                     *)
AskAgain ==
  /\ worker = "stale"
  /\ worker' = "idle"
  /\ RequestSnapshot
  /\ UNCHANGED <<wsVars, pos, exchange, seqr, book, live, scales, faults>>

ResyncFails ==
  /\ worker = "asking"
  /\ Fault
  /\ worker' = "retry"
  /\ UNCHANGED <<wsVars, pos, exchange, seqr, book, live, requested, queue, scales>>

(* Bug: the flag still stands when the snapshot is requested again.        *)
RequeueNotes ==
  /\ worker = "retry"
  /\ worker' = "idle"
  /\ UNCHANGED <<wsVars, pos, exchange, seqr, book, live, requested, queue, scales, faults>>

Requeue ==
  /\ worker = "retry"
  /\ worker' = "idle"
  /\ IF seqr.state = "need" THEN requested' = TRUE /\ queue' = queue + 1
                            ELSE requested' = FALSE /\ UNCHANGED queue
  /\ UNCHANGED <<wsVars, pos, exchange, seqr, book, live, scales, faults>>

(* Status 200 and no snapshot in it: nothing catches the exception.        *)
WorkerDies ==
  /\ worker = "asking"
  /\ Fault
  /\ worker' = "dead"
  /\ UNCHANGED <<wsVars, pos, exchange, seqr, book, live, requested, queue, scales>>

-----------------------------------------------------------------------------
(* The exchange sends the next one or two updates, in the new tick size    *)
(* from some moment on.                                                    *)
Publish ==
  /\ Len(history) < MaxEvents
  /\ \E n \in 1..2 : history' = Append(history, LastUpdate + n)
  /\ UNCHANGED <<wsVars, changed, pos, sync, faults>>

ChangeTick ==
  /\ changed = None
  /\ Fault
  /\ changed' = LastUpdate
  /\ UNCHANGED <<wsVars, history, pos, sync>>

Worker == TakeRequest \/ AskAgain \/ Requeue \/ \E id \in 0..LastUpdate : Resync(id)

Next ==
  \/ Publish \/ ChangeTick
  \/ \E c \in Conns : Opened(c) \/ Deliver(c) \/ Skip(c) \/ AfterLifecycle(c)
  \/ Supervise /\ UNCHANGED <<pos, exchange, sync, faults>>
  \/ UpdateScales
  \/ Worker \/ ResyncFails \/ WorkerDies

Spec == Init /\ [][Next]_vars

(* The worker runs, and a snapshot that is asked for again and again is    *)
(* not older than the stream for ever; exchangeInfo is polled.             *)
FairSpec ==
  /\ Spec
  /\ WF_vars(Worker)
  /\ SF_vars(Resync(LastUpdate))
  /\ WF_vars(UpdateScales)

-----------------------------------------------------------------------------
(* Properties.                                                             *)

TypeOK ==
  /\ WsTypeOK
  /\ seqr \in [state : {"need", "await", "live"}, last : Nat, snap : Nat, buf : Seq(EventType)]
  /\ Len(seqr.buf) <= MaxBuffer
  /\ book \in [scale : 0..1, levels : [Levels -> Updates]] \cup {None}
  /\ live \in BOOLEAN
  /\ requested \in BOOLEAN
  /\ queue \in Nat
  /\ worker \in {"idle", "asking", "stale", "retry", "dead"}
  /\ scales \in {None, 0, 1}
  /\ pos \in [Conns -> 0..MaxEvents]

(* The book is the exchange's book at the update the sequencer stands at:  *)
(* with gaps, duplicates and overlapping connections, late and stale       *)
(* snapshots no update is lost, and none is applied twice or too late.     *)
BookIsTrue ==
  book # None => /\ seqr.state = "live" => book.levels = BookAt(seqr.last)
                 /\ seqr.state = "await" => book.levels = BookAt(seqr.snap)

(* A snapshot is asked for only while the sequencer waits for one, and by  *)
(* one request at a time: a snapshot never replaces a book that is in step.*)
OneRequest ==
  /\ requested => seqr.state = "need"
  /\ queue <= 1
  /\ requested <=> (queue = 1 \/ worker \in {"asking", "retry", "dead"})
  /\ queue = 1 => worker \notin {"asking", "retry", "dead"}

(* The book is in the tick and lot size the process believes in.           *)
BookHasScales == book # None => book.scale = scales

(* A symbol that waits for a snapshot gets one, unless the worker has died.*)
Resyncs == requested ~> (~ requested \/ worker = "dead")

=============================================================================

----------------------------- MODULE Recording ------------------------------
(***************************************************************************)
(* What the quality report says about a day (quanta.lake.quality): the     *)
(* recorder logs lifecycle events, and the part of the day it was running  *)
(* and each stream was connected is computed from the events of that day   *)
(* and of the day before.  A recorder runs for days, so a day may hold no  *)
(* start event; every connection is replaced before it is a day old.       *)
(*                                                                         *)
(* Two UTC days of Ticks ticks; `ran` and `up` are what really happened on *)
(* the second one.                                                         *)
(***************************************************************************)
EXTENDS Integers, SequencesExt

CONSTANTS
  Streams,
  Ticks,       \* ticks of a day; a connection is replaced after Ticks - 1
  MaxConns,    \* bound: connections opened
  MaxEvents    \* bound: lifecycle events

VARIABLES
  now, running,
  live,      \* per stream: its connections, [id, since]
  log,       \* lifecycle events: [t, type, stream, conn]
  opened,    \* connections opened so far
  gaps,      \* gap events of the second day
  ran, up,   \* ticks of the second day, in truth
  blind      \* the process died, or ran into the second day all disconnected

vars == <<now, running, live, log, opened, gaps, ran, up, blind>>

Event(type, stream, conn) == [t |-> now, type |-> type, stream |-> stream, conn |-> conn]

Log(events) == Len(log) + Len(events) <= MaxEvents /\ log' = log \o events

NoStream == "none"

(* Either nothing runs yet, or a recorder that started long ago.           *)
Init ==
  /\ now = 0
  /\ running \in BOOLEAN
  /\ live = [s \in Streams |-> IF running THEN {[id |-> 0, since |-> 0]} ELSE {}]
  /\ log = <<>> /\ opened = 0 /\ gaps = 0
  /\ ran = 0 /\ up = [s \in Streams |-> 0]
  /\ blind = FALSE

-----------------------------------------------------------------------------
(* The recorder and the managed WebSockets, as they log it.                *)

RecorderStart ==
  /\ ~ running /\ running' = TRUE
  /\ Log(<<Event("recorder_start", NoStream, 0)>>)
  /\ UNCHANGED <<now, live, opened, gaps, ran, up, blind>>

Connected(s) ==
  /\ running /\ opened < MaxConns
  /\ opened' = opened + 1
  /\ live' = [live EXCEPT ![s] = @ \cup {[id |-> opened + 1, since |-> now]}]
  /\ Log(<<Event("connected", s, opened + 1)>>)
  /\ UNCHANGED <<now, running, gaps, ran, up, blind>>

Disconnected(s) ==
  \E c \in live[s] :
    /\ live' = [live EXCEPT ![s] = @ \ {c}]
    /\ Log(<<Event("disconnected", s, c.id)>>)
    /\ UNCHANGED <<now, running, opened, gaps, ran, up, blind>>

ConnectFailed(s) ==
  /\ running /\ live[s] = {}
  /\ Log(<<Event("connect_failed", s, 0)>>)
  /\ UNCHANGED <<now, running, live, opened, gaps, ran, up, blind>>

(* The streams stop, then their capture, then the recorder.                *)
RecorderStop ==
  /\ running /\ running' = FALSE
  /\ live' = [s \in Streams |-> {}]
  /\ Log(<<Event("stopped", CHOOSE s \in Streams : TRUE, 0), Event("capture_stop", NoStream, 0)>>)
  /\ UNCHANGED <<now, opened, gaps, ran, up, blind>>

Die ==
  /\ running /\ running' = FALSE
  /\ live' = [s \in Streams |-> {}]
  /\ blind' = TRUE
  /\ UNCHANGED <<now, log, opened, gaps, ran, up>>

Gap ==
  /\ running /\ now >= Ticks /\ gaps = 0
  /\ gaps' = 1
  /\ UNCHANGED <<now, running, live, log, opened, ran, up, blind>>

SecondDay == now >= Ticks

StartedOrStopped(events) ==
  \E i \in DOMAIN events : events[i].type \in {"recorder_start", "recorder_stop", "capture_stop"}

Tick ==
  /\ now < 2 * Ticks
  /\ \A s \in Streams : \A c \in live[s] : now - c.since < Ticks - 1
  /\ now' = now + 1
  /\ ran' = IF SecondDay /\ running THEN ran + 1 ELSE ran
  /\ up' = [s \in Streams |-> IF SecondDay /\ live[s] # {} THEN up[s] + 1 ELSE up[s]]
  /\ blind' = (blind \/ (/\ now' = Ticks /\ running
                         /\ \A s \in Streams : live[s] = {}
                         /\ ~ StartedOrStopped(log)))
  /\ UNCHANGED <<running, live, log, opened, gaps>>

Next ==
  \/ RecorderStart \/ RecorderStop \/ Die \/ Gap \/ Tick
  \/ \E s \in Streams : Connected(s) \/ Disconnected(s) \/ ConnectFailed(s)

Spec == Init /\ [][Next]_vars

-----------------------------------------------------------------------------
(* quality.py: a Lifecycle is [running, conns], conns a function of the    *)
(* streams heard of.                                                       *)

NothingKnown == [running |-> FALSE, conns |-> <<>>]

NoneLive(lc) == [s \in DOMAIN lc.conns |-> {}]

LiveOf(lc, s) == IF s \in DOMAIN lc.conns THEN lc.conns[s] ELSE {}

WithLive(lc, s, ids) ==
  [lc EXCEPT !.conns = [x \in DOMAIN lc.conns \cup {s} |-> IF x = s THEN ids ELSE lc.conns[x]]]

apply(lc, ev) ==
  CASE ev.type = "recorder_start" -> [running |-> TRUE, conns |-> NoneLive(lc)]
    [] ev.type \in {"recorder_stop", "capture_stop"} -> [running |-> FALSE, conns |-> NoneLive(lc)]
    [] ev.type = "connected"    -> WithLive(lc, ev.stream, LiveOf(lc, ev.stream) \cup {ev.conn})
    [] ev.type = "disconnected" -> WithLive(lc, ev.stream, LiveOf(lc, ev.stream) \ {ev.conn})
    [] ev.type = "stopped"      -> WithLive(lc, ev.stream, {})
    [] OTHER                    -> WithLive(lc, ev.stream, LiveOf(lc, ev.stream))

Replayed(events) == FoldLeft(apply, NothingKnown, events)

(* Bug for the mutants: a day without a start event did not run.           *)
end_state_logged(events) == Replayed(events)

(* The state at midnight; with no start or stop event in the day, a live   *)
(* connection tells that the recorder runs since before it.                *)
end_state(events) ==
  LET lc == Replayed(events)
  IN  IF StartedOrStopped(events) THEN lc
      ELSE [lc EXCEPT !.running = \E s \in DOMAIN lc.conns : lc.conns[s] # {}]

DayEvents(day) == SelectSeq(log, LAMBDA e : e.t \div Ticks = day)

(* stream_coverage: running time and connected time of the second day.     *)
Advance(acc, to) ==
  [acc EXCEPT !.t = to,
              !.ran = IF acc.lc.running THEN @ + (to - acc.t) ELSE @,
              !.up = [s \in Streams |->
                        IF LiveOf(acc.lc, s) # {} THEN @[s] + (to - acc.t) ELSE @[s]]]

Coverage(events, init) ==
  Advance(FoldLeft(LAMBDA acc, e : LET a == Advance(acc, e.t) IN [a EXCEPT !.lc = apply(a.lc, e)],
                   [t |-> Ticks, lc |-> init, ran |-> 0, up |-> [s \in Streams |-> 0]], events),
          2 * Ticks)

(* venue_quality.  A stream no event tells of is not looked at.            *)
Heard(c) == DOMAIN c.lc.conns

Flag(c) ==
  CASE c.ran = 0 \/ (\E s \in Heard(c) : c.up[s] < c.ran) \/ Heard(c) = {} -> "bad"
    [] c.ran # 0 /\ Heard(c) # {} /\ (\A s \in Heard(c) : c.up[s] >= c.ran) /\ gaps > 0 -> "degraded"
    [] OTHER -> "good"

-----------------------------------------------------------------------------

(* The report tells the truth about a day, whether its connections come    *)
(* from the day before, overlap, drop or are stopped: unless the process   *)
(* died (it logs no stop), or was disconnected altogether at midnight with *)
(* no start or stop on the day before, which the report cannot tell from   *)
(* not running.  A good day ran, and every stream was connected throughout.*)
CoverageIsTrue ==
  now = 2 * Ticks /\ ~ blind =>
    LET c == Coverage(DayEvents(1), end_state(DayEvents(0)))
    IN  /\ c.ran = ran /\ c.up = up
        /\ Flag(c) = "good" => gaps = 0 /\ ran > 0 /\ \A s \in Streams : up[s] = ran \/ s \notin Heard(c)

=============================================================================

----------------------------- MODULE StatusPage -----------------------------
(***************************************************************************)
(* The status page (quanta.ui): it scrapes the recorder's metrics, keeps a *)
(* history of a few numbers of each scrape, and tells from them whether    *)
(* all is well.  The recorder's counters begin at zero in each process;    *)
(* scrapes fail, and the page is restarted.  One stream of one venue.      *)
(***************************************************************************)
EXTENDS Integers, Sequences, FiniteSetsExt, Functions

CONSTANTS
  None,
  ScrapeDown, StreamDown, StreamSilent,  \* thresholds of HealthConfig, in scrapes
  Window,                                \* in which lost trades are told
  MaxAge,                                \* of the history
  LastTick, MaxLosses, MaxLives, MaxPages \* bounds: time, losses, processes, pages

VARIABLES
  now,
  rec,     \* the recorder: up, its life, and its metrics conn, last, missing
  lost,    \* trades it has noticed to be lost, in all its lives
  heard,   \* when the last message was recorded, in any of them
  points,  \* the page's history: [ts, down, missing, last], and whose life and which
           \* losses those were
  lastOk,  \* the last scrape that succeeded
  scraped, \* this interval's scrape is over
  pages

vars == <<now, rec, lost, heard, points, lastOk, scraped, pages>>

StatusAssumption == {ScrapeDown, StreamDown, StreamSilent, Window, MaxAge} \subseteq Nat

NewLife(n) == [up |-> TRUE, life |-> n, conn |-> FALSE, last |-> None, missing |-> 0]

Init ==
  /\ now = 0
  /\ rec = NewLife(1) /\ lost = 0 /\ heard = 0
  /\ points = <<>> /\ lastOk = None /\ scraped = FALSE /\ pages = 1

-----------------------------------------------------------------------------
(* The recorder: what it does in an interval comes before the scrape.      *)

(* observe: the time of the last message.                                  *)
Message ==
  /\ ~ scraped /\ rec.up /\ rec.conn /\ rec.last # now
  /\ rec' = [rec EXCEPT !.last = now]
  /\ heard' = now
  /\ UNCHANGED <<now, lost, points, lastOk, scraped, pages>>

(* A gap in the ids of the trades.                                         *)
TradeGap ==
  /\ ~ scraped /\ rec.up /\ rec.conn /\ lost < MaxLosses
  /\ rec' = [rec EXCEPT !.missing = @ + 1]
  /\ lost' = lost + 1
  /\ UNCHANGED <<now, heard, points, lastOk, scraped, pages>>

(* on_lifecycle.                                                           *)
Lifecycle ==
  /\ ~ scraped /\ rec.up
  /\ rec' = [rec EXCEPT !.conn = ~ @]
  /\ UNCHANGED <<now, lost, heard, points, lastOk, scraped, pages>>

Dies ==
  /\ ~ scraped /\ rec.up
  /\ rec' = [rec EXCEPT !.up = FALSE]
  /\ UNCHANGED <<now, lost, heard, points, lastOk, scraped, pages>>

Starts ==
  /\ ~ scraped /\ ~ rec.up /\ rec.life < MaxLives
  /\ rec' = NewLife(rec.life + 1)
  /\ UNCHANGED <<now, lost, heard, points, lastOk, scraped, pages>>

-----------------------------------------------------------------------------
(* The page.                                                               *)

derive ==
  [ts |-> now, down |-> ~ rec.conn, missing |-> rec.missing, last |-> rec.last,
   life |-> rec.life, lost |-> lost]

(* The oldest go, up to the first that is not too old.                     *)
add(p) ==
  LET all == Append(points, p)
  IN  SubSeq(all, Min({i \in DOMAIN all : p.ts - all[i].ts <= MaxAge}), Len(all))

(* scrape_once: also fails with the recorder up.                           *)
Scrape ==
  /\ ~ scraped
  /\ scraped' = TRUE
  /\ \/ rec.up /\ points' = add(derive) /\ lastOk' = now
     \/ UNCHANGED <<points, lastOk>>
  /\ UNCHANGED <<now, rec, lost, heard, pages>>

Interval ==
  /\ scraped /\ now < LastTick
  /\ now' = now + 1 /\ scraped' = FALSE
  /\ UNCHANGED <<rec, lost, heard, points, lastOk, pages>>

PageRestarts ==
  /\ pages < MaxPages
  /\ points' = <<>> /\ lastOk' = None /\ pages' = pages + 1
  /\ UNCHANGED <<now, rec, lost, heard, scraped>>

Next ==
  \/ Message \/ TradeGap \/ Lifecycle \/ Dies \/ Starts
  \/ Scrape \/ Interval \/ PageRestarts

Spec == Init /\ [][Next]_vars

-----------------------------------------------------------------------------
(* What it tells.                                                          *)

latest == points[Len(points)]

InWindow(i, window) == points[i].ts >= latest.ts - window

(* Bug for the mutants: the first point counts from zero.                  *)
GrowthFromZero(i) ==
  LET v == points[i].missing
      prev == IF i = 1 THEN 0 ELSE points[i - 1].missing
  IN  IF v >= prev THEN v - prev ELSE v

(* Bug: a counter that was reset is not noticed.                           *)
GrowthOverReset(i) == IF i = 1 THEN 0 ELSE points[i].missing - points[i - 1].missing

(* From one point to the next: a smaller value has started again at zero.  *)
Growth(i) ==
  LET v == points[i].missing
  IN  IF i = 1 THEN 0
      ELSE IF v >= points[i - 1].missing THEN v - points[i - 1].missing ELSE v

increase(window) ==
  SumFunction([i \in {j \in DOMAIN points : InWindow(j, window)} |-> Growth(i)])

sustained(interval) ==
  /\ latest.ts - points[1].ts >= interval
  /\ \A i \in DOMAIN points : InWindow(i, interval) => points[i].down

(* Bug: the age of the last message when the metrics were read.            *)
AgeWhenRead == latest.ts - latest.last

Age == now - latest.last

stream_issues ==
  IF points = <<>> THEN {}
  ELSE {i \in {"stream_down"} : latest.down /\ sustained(StreamDown)}
       \cup {i \in {"stream_silent"} : latest.last # None /\ Age > StreamSilent}

integrity_issues == {i \in {"trades_missing"} : points # <<>> /\ increase(Window) > 0}

recorder_issues ==
  {i \in {"recorder_down"} : IF lastOk = None THEN TRUE ELSE now - lastOk > ScrapeDown}

evaluate == recorder_issues \cup stream_issues \cup integrity_issues

-----------------------------------------------------------------------------
(* Properties.                                                             *)

(* When the page says that all is well, the recorder was alive just before *)
(* and what it records is fresh, whichever scrapes failed (but for a       *)
(* stream that has sent nothing since the recorder started).               *)
GreenIsFresh ==
  evaluate = {} =>
    /\ points # <<>>
    /\ latest.last # None => now - heard <= StreamSilent

(* The losses told for a window are no more than what was lost since the   *)
(* scrape before it, and no less than what was lost in it between two      *)
(* scrapes of one process, whatever restarts lie between.                  *)
Before(window) ==
  Max({1} \cup {i \in DOMAIN points : ~ InWindow(i, window)})

OfOneLife(window) ==
  {i \in DOMAIN points : i > 1 /\ InWindow(i, window) /\ points[i].life = points[i - 1].life}

IncreaseIsTrue ==
  points # <<>> =>
    /\ increase(Window) <= latest.lost - points[Before(Window)].lost
    /\ increase(Window) >=
         SumFunction([i \in OfOneLife(Window) |-> points[i].lost - points[i - 1].lost])

-----------------------------------------------------------------------------
(* Why they hold.                                                          *)

Points ==
  [ts : Nat, down : BOOLEAN, missing : Nat, last : Nat \cup {None}, life : Nat, lost : Nat]

TypeOK ==
  /\ now \in Nat /\ lost \in Nat /\ heard \in Nat
  /\ rec \in [up : BOOLEAN, life : Nat, conn : BOOLEAN, last : Nat \cup {None}, missing : Nat]
  /\ points \in Seq(Points) /\ lastOk \in Nat \cup {None}
  /\ scraped \in BOOLEAN

(* No message is newer than the newest.                                    *)
Heard ==
  /\ heard <= now
  /\ rec.last # None => rec.last <= heard
  /\ \A i \in DOMAIN points : points[i].last # None => points[i].last <= heard

(* In one process the counter tells what was lost; one that started since  *)
(* does not tell more than that.                                           *)
Follows(p, q) ==
  /\ p.ts <= q.ts /\ p.life <= q.life /\ p.lost <= q.lost
  /\ IF p.life = q.life THEN q.missing - p.missing = q.lost - p.lost
     ELSE q.missing <= q.lost - p.lost

InOrder ==
  /\ \A i \in DOMAIN points : i > 1 => Follows(points[i - 1], points[i])
  /\ points # <<>> => Follows(latest, derive)

PageInv ==
  /\ TypeOK /\ Heard /\ InOrder
  /\ lastOk # None => points # <<>>

=============================================================================

------------------------------ MODULE Recorder ------------------------------
(***************************************************************************)
(* The recorder service around the writers (quanta.recorder.service,       *)
(* diskguard, Writers of base) and what the daily check of recorded trades *)
(* makes of the losses it tells in its meta records: below a floor of free *)
(* space market records are not written, and a backlog that cannot be      *)
(* written is trimmed.  Trade n is received in tick n.                     *)
(***************************************************************************)
EXTENDS Integers, Sequences, FiniteSetsExt, Functions

-----------------------------------------------------------------------------
(* The daily completeness check (quanta.tools.verify_aggtrades,            *)
(* quanta.lake.checks): the capture against the official archive of the    *)
(* day, and what explains each trade that is missing.  A trade is [id,     *)
(* time, data]; meta is [gaps, breaks]: id ranges the recorder reported,   *)
(* and times at which it was not capturing.                                *)

Ids(trades) == {t.id : t \in trades}

(* compare_tables: only ids between our first and our last are compared.   *)
Window(archive, recorded) ==
  {i \in Ids(archive) : Min(Ids(recorded)) <= i /\ i <= Max(Ids(recorded))}

Missing(archive, recorded) == {t \in archive : t.id \in Window(archive, recorded) \ Ids(recorded)}

Mismatched(archive, recorded) ==
  {t.id : t \in {x \in recorded : \E y \in archive : y.id = x.id /\ y # x}}

Extra(archive, recorded) == Ids(recorded) \ Ids(archive)

-----------------------------------------------------------------------------
(* explain_missing.                                                        *)

(* _in_ranges looks only at the last gap that begins at or before the id.  *)
Reported(t, meta) ==
  \E g \in meta.gaps :
    /\ g.first <= t.id /\ t.id <= g.last
    /\ \A h \in meta.gaps :
         h.first > t.id \/ h.first < g.first \/ (h.first = g.first /\ h.last <= g.last)

(* Consecutive missing ids that no reported gap explains form a stretch.   *)
Stretch(t, rest) ==
  {x \in rest : \A i \in Min({x.id, t.id})..Max({x.id, t.id}) : i \in Ids(rest)}

Times(trades) == {t.time : t \in trades}

(* Bug for the mutants: each trade by itself must have a break nearby.                     *)
BreakNearTrade(t, rest, meta, tol) ==
  \E b \in meta.breaks : t.time - tol <= b /\ b <= t.time + tol

BreakInStretch(t, rest, meta, tol) ==
  LET span == Times(Stretch(t, rest))
  IN  \E b \in meta.breaks : Min(span) - tol <= b /\ b <= Max(span) + tol

Unexplained(missing, meta, tol) ==
  LET rest == {t \in missing : ~ Reported(t, meta)}
  IN  {t \in rest : ~ BreakInStretch(t, rest, meta, tol)}

(* trade_result.                                                           *)
Status(archive, recorded, meta, tol) ==
  LET missing == Missing(archive, recorded)
  IN  CASE recorded = {} -> "no_data"
        [] recorded # {} /\ (\/ Unexplained(missing, meta, tol) # {}
                             \/ Mismatched(archive, recorded) # {}
                             \/ Extra(archive, recorded) # {}) -> "failed"
        [] OTHER -> IF missing = {} THEN "ok" ELSE "explained"

-----------------------------------------------------------------------------
(* Against what happened: fate[i] of the i-th trade of the day, one per    *)
(* tick.  "down" trades fall while the recorder was not capturing, and the *)
(* recorder wrote a record where that begins and ends; "gap" trades were   *)
(* lost and reported; "lost" trades were lost without a word.              *)

Archive(fate) == {[id |-> i, time |-> i, data |-> "as sent"] : i \in DOMAIN fate}

Captured(fate) ==
  {[id |-> i, time |-> i, data |-> IF fate[i] = "altered" THEN "altered" ELSE "as sent"] :
     i \in {j \in DOMAIN fate : fate[j] \in {"kept", "altered"}}}

MetaOf(fate) ==
  [gaps   |-> {g \in [first : DOMAIN fate, last : DOMAIN fate] :
                 /\ g.first <= g.last /\ \A k \in g.first..g.last : fate[k] = "gap"
                 /\ g.first = 1 \/ fate[g.first - 1] # "gap"
                 /\ g.last = Len(fate) \/ fate[g.last + 1] # "gap"},
   breaks |-> {i \in DOMAIN fate : fate[i] = "down" /\ ((i - 1) \notin DOMAIN fate \/ fate[i - 1] # "down")}
         \cup {i \in DOMAIN fate : (i - 1) \in DOMAIN fate /\ fate[i - 1] = "down" /\ fate[i] # "down"}]

CheckOf(fate, tol) == Status(Archive(fate), Captured(fate), MetaOf(fate), tol)

(* Losses the recorder told of never fail a day, however long the outage.  *)
NoFalseAlarm(fate, tol) ==
  (\A i \in DOMAIN fate : fate[i] \in {"kept", "down", "gap"}) => CheckOf(fate, tol) # "failed"

(* A trade that was altered, or lost without a word among trades that were *)
(* kept and further than the tolerance from any break, fails the day.      *)
LossIsFound(fate, tol) ==
  (\E i \in DOMAIN fate :
     \/ fate[i] = "altered"
     \/ /\ fate[i] = "lost" /\ {i - 1, i + 1} \subseteq {j \in DOMAIN fate : fate[j] = "kept"}
        /\ \A b \in MetaOf(fate).breaks : b < i - tol \/ b > i + tol)
  => CheckOf(fate, tol) = "failed"

-----------------------------------------------------------------------------
(* The recorder.                                                           *)

CONSTANTS
  LastTick,               \* the day's trades
  DiskCheck,              \* ticks between two disk checks (disk_check_s)
  MaxQueue,               \* records kept while writes fail (max_queue_mb)
  Tolerance,              \* BREAK_TOLERANCE_MS, in ticks
  MaxFailing, MaxCrashes  \* bounds: times that writes begin to fail, and that the process ends

VARIABLES
  now,
  free,      \* space: "low" below the floor, "margin" below the resume level, "ok"
  failing,   \* writes fail
  up, checked,
  guard,     \* active, and the records dropped since it became so
  queue,     \* market records to be written
  disk,      \* market records written
  metaQueue, \* meta records to be written: [t, type, count]
  meta,      \* meta records written
  trimmed, reported,
  cut,       \* something was trimmed on this day
  faults

vars == <<now, free, failing, up, checked, guard, queue, disk, metaQueue, meta, trimmed, reported,
          cut, faults>>

(* A break explains at least the trades next to it.                        *)
RecorderAssumption == {LastTick, DiskCheck, MaxQueue} \subseteq Nat /\ Tolerance \in Nat \ {0}

Record(type, count) == [t |-> now, type |-> type, count |-> count]

Init ==
  /\ now = 0 /\ free = "ok" /\ failing = FALSE
  /\ up = TRUE /\ checked = 0
  /\ guard = [active |-> FALSE, dropped |-> 0]
  /\ queue = <<>> /\ disk = {}
  /\ metaQueue = <<Record("recorder_start", 0)>> /\ meta = {}
  /\ trimmed = 0 /\ reported = 0 /\ cut = FALSE
  /\ faults = [failing |-> 0, crashes |-> 0]

-----------------------------------------------------------------------------
(* Receiving and writing.                                                  *)

(* append and _trim_queue: the oldest goes.                                *)
Trim(q) == IF Len(q) > MaxQueue THEN Tail(q) ELSE q

(* Flushes are faster than a tick, so is a disk check that is due.         *)
Idle ==
  up => /\ failing \/ (queue = <<>> /\ metaQueue = <<>>)
        /\ now - checked < DiskCheck

(* Writers.write: the guard keeps market records out.                      *)
Trade ==
  /\ now < LastTick /\ Idle
  /\ now' = now + 1
  /\ IF ~ up THEN UNCHANGED <<guard, queue, trimmed>>
     ELSE IF guard.active
     THEN guard' = [guard EXCEPT !.dropped = @ + 1] /\ UNCHANGED <<queue, trimmed>>
     ELSE LET q == Append(queue, now + 1)
          IN  /\ queue' = Trim(q)
              /\ trimmed' = trimmed + Len(q) - Len(Trim(q))
              /\ UNCHANGED guard
  /\ cut' = (cut \/ trimmed' > trimmed)
  /\ UNCHANGED <<free, failing, up, checked, disk, metaQueue, meta, reported, faults>>

Flush ==
  /\ up /\ ~ failing
  /\ queue # <<>> \/ metaQueue # <<>>
  /\ disk' = disk \cup Range(queue) /\ queue' = <<>>
  /\ meta' = meta \cup Range(metaQueue) /\ metaQueue' = <<>>
  /\ UNCHANGED <<now, free, failing, up, checked, guard, trimmed, reported, cut, faults>>

(* Bug for the mutants: only the log tells of the guard.                   *)
ChangeLogged(active) == <<>>

(* The in-band record of a transition of the guard.                        *)
Change(active) ==
  IF active = guard.active THEN <<>>
  ELSE IF active THEN <<Record("disk_guard_on", 0)>>
  ELSE <<Record("disk_guard_off", guard.dropped)>>

(* check_disk and DiskGuard.update.                                        *)
CheckDisk ==
  LET active == free = "low" \/ (guard.active /\ free = "margin")
      told == IF trimmed > reported THEN <<Record("write_backlog_dropped", trimmed - reported)>>
              ELSE <<>>
  IN  /\ checked' = now /\ reported' = trimmed
      /\ guard' = [active |-> active, dropped |-> IF active = guard.active THEN guard.dropped ELSE 0]
      /\ metaQueue' = metaQueue \o Change(active) \o told

DiskMonitor ==
  /\ up /\ now - checked = DiskCheck
  /\ CheckDisk
  /\ UNCHANGED <<now, free, failing, up, queue, disk, meta, trimmed, cut, faults>>

-----------------------------------------------------------------------------
(* The process and its disk.                                               *)

Ends(lastRecords) ==
  /\ faults.crashes < MaxCrashes
  /\ faults' = [faults EXCEPT !.crashes = @ + 1]
  /\ up' = FALSE /\ queue' = <<>> /\ metaQueue' = <<>>
  /\ IF failing THEN UNCHANGED <<disk, meta>>
     ELSE disk' = disk \cup lastRecords[1] /\ meta' = meta \cup lastRecords[2]
  /\ UNCHANGED <<now, free, failing, checked, guard, trimmed, reported, cut>>

(* run's end: recorder_stop, and the writers are closed.                   *)
Stop == up /\ Ends(<<Range(queue), Range(Append(metaQueue, Record("recorder_stop", 0)))>>)

Crash == up /\ Ends(<<{}, {}>>)

(* run: the disk is checked before any capture starts.                     *)
Start ==
  /\ ~ up /\ up' = TRUE
  /\ checked' = now
  /\ trimmed' = 0 /\ reported' = 0
  /\ guard' = [active |-> free = "low", dropped |-> 0]
  /\ metaQueue' = <<Record("recorder_start", 0)>>
                    \o (IF free = "low" THEN <<Record("disk_guard_on", 0)>> ELSE <<>>)
  /\ UNCHANGED <<now, free, failing, queue, disk, meta, cut, faults>>

SpaceChanges ==
  /\ \E f \in {"low", "margin", "ok"} \ {free} : free' = f
  /\ UNCHANGED <<now, failing, up, checked, guard, queue, disk, metaQueue, meta, trimmed, reported,
                 cut, faults>>

WritesFail ==
  /\ failing \/ faults.failing < MaxFailing
  /\ failing' = ~ failing
  /\ faults' = IF failing THEN faults ELSE [faults EXCEPT !.failing = @ + 1]
  /\ UNCHANGED <<now, free, up, checked, guard, queue, disk, metaQueue, meta, trimmed, reported,
                 cut>>

Next ==
  \/ Trade \/ Flush \/ DiskMonitor
  \/ Stop \/ Crash \/ Start
  \/ SpaceChanges \/ WritesFail

Spec == Init /\ [][Next]_vars

-----------------------------------------------------------------------------
(* The day is over and everything is on disk.                              *)

Over == now = LastTick /\ up /\ queue = <<>> /\ metaQueue = <<>> /\ reported = trimmed

AsTrades(ids) == {[id |-> i, time |-> i, data |-> "as sent"] : i \in ids}

CheckOfDay ==
  Status(AsTrades(1..LastTick), AsTrades(disk), [gaps |-> {}, breaks |-> {m.t : m \in meta}], Tolerance)

(* Whatever the disk guard, restarts and crashes cost, the day does not    *)
(* fail its check: the records the recorder leaves explain every loss.     *)
LossesExplained == Over /\ ~ cut => CheckOfDay # "failed"

(* What checks.py says of every such record, the trimmed backlog included:  *)
(* "meta record type -> why trades around it may be missing".              *)
TrimsExplained == Over => CheckOfDay # "failed"

-----------------------------------------------------------------------------
(* Why the losses are explained.                                           *)

Records == [t : Nat, type : {"recorder_start", "recorder_stop", "disk_guard_on", "disk_guard_off",
                             "write_backlog_dropped"}, count : Int]

TypeOK ==
  /\ now \in Nat /\ checked \in Nat
  /\ up \in BOOLEAN /\ failing \in BOOLEAN /\ cut \in BOOLEAN
  /\ free \in {"low", "margin", "ok"}
  /\ guard \in [active : BOOLEAN, dropped : Nat]
  /\ trimmed \in Nat /\ reported \in Nat
  /\ queue \in Seq(1..now) /\ disk \subseteq 1..now
  /\ metaQueue \in Seq(Records) /\ meta \subseteq Records
  /\ ~ up => queue = <<>> /\ metaQueue = <<>>

(* What is written is older than what is to be written, of either kind.    *)
InOrder ==
  \A k \in disk :
    /\ \A j \in Range(queue) : k < j
    /\ \A m \in Range(metaQueue) : k <= m.t

Gone == (1..now) \ (disk \cup Range(queue))

Told == {m.t : m \in meta \cup Range(metaQueue)}

(* All that is lost lies next to a record, with nothing kept between them; *)
(* or the recorder is down, and the record is the one of its next start.   *)
NextTo(i, t) == (t + 1)..i \cup i..t \subseteq Gone

AllTold ==
  /\ Told \subseteq 0..now
  /\ \A i \in Gone : (\E t \in Told : NextTo(i, t)) \/ (~ up /\ i..now \subseteq Gone)
  /\ up /\ guard.active => \E t \in Told : (t + 1)..now \subseteq Gone

RecorderInv == TypeOK /\ InOrder /\ (~ cut => AllTold)

=============================================================================

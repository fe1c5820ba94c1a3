----------------------------- MODULE LakeDaily ------------------------------
(***************************************************************************)
(* The daily lake job of one day and its scheduler (quanta.lake.daily,     *)
(* normalize, and the report of quality): every venue is normalized table  *)
(* by table, a manifest describes the tables, the report reads the         *)
(* manifests.  The process may die between any two steps and restarts; the *)
(* marker of a day that died keeps the start-up catch-up away.             *)
(*                                                                         *)
(* What a table, a manifest or a report was made from is the version of    *)
(* the raw data of the day, which grows when a segment is finalized late.  *)
(***************************************************************************)
EXTENDS Naturals, Sequences

CONSTANTS
  Venues,      \* venues with raw data, in the order of VENUES: a sequence
  Tables,      \* tables of a venue, in the order they are written: a sequence
  MaxDeaths,   \* bound: deaths of the process
  MaxManual    \* bound: runs by hand

VARIABLES
  slot,      \* "before" or "after" the daily run of this day, or "over"
  up,        \* the scheduler is running
  raw,       \* per venue: version, and whether a segment is unfinalized
  full,      \* free space is below min_free_bytes
  table,     \* per venue and table: version it was written from, 0 if none
  manifest,  \* per venue: version, 0 if none
  marker,    \* the .running file
  report,    \* versions the report was made from, NoReport, or per venue
  job,       \* the run in progress
  told,      \* the last run ended with a problem or an exception in the log
  deaths,    \* deaths at work in an automatic run
  restarts, manual

vars == <<slot, up, raw, full, table, manifest, marker, report, job, told, deaths, restarts, manual>>

NoReport == <<>>

NoJob == [step |-> "idle", by |-> "nobody", left |-> <<>>, at |-> 1, of |-> 0, done |-> {},
          problem |-> FALSE]

VenueSet == {Venues[i] : i \in DOMAIN Venues}

Init ==
  /\ slot = "before"
  /\ up = FALSE
  /\ raw \in [VenueSet -> [version : {1}, partial : BOOLEAN]]
  /\ full = FALSE
  /\ table = [v \in VenueSet |-> [i \in DOMAIN Tables |-> 0]]
  /\ manifest = [v \in VenueSet |-> 0]
  /\ marker = FALSE
  /\ report = NoReport
  /\ job = NoJob
  /\ told = FALSE
  /\ deaths = 0 /\ restarts = 0 /\ manual = 0

-----------------------------------------------------------------------------
(* Around the job.                                                         *)

(* The recorder finalizes a segment it had left, for instance at its start.*)
Finalized(v) ==
  /\ raw[v].partial
  /\ raw' = [raw EXCEPT ![v] = [version |-> 2, partial |-> FALSE]]
  /\ UNCHANGED <<slot, up, full, table, manifest, marker, report, job, told, deaths, restarts, manual>>

DiskChanges ==
  /\ job.step # "idle"
  /\ full' = ~ full
  /\ UNCHANGED <<slot, up, raw, table, manifest, marker, report, job, told, deaths, restarts, manual>>

Begin(by) == job' = [NoJob EXCEPT !.step = "venue", !.by = by, !.left = Venues]

(* Bug for the mutants: the catch-up asks for the report only.             *)
CatchUpAlways == report = NoReport

(* needs_catch_up.                                                         *)
needs_catch_up == ~ marker /\ report = NoReport

(* The scheduler starts; the day is looked at while it is yesterday.       *)
Start ==
  /\ ~ up
  /\ up' = TRUE
  /\ IF slot # "over" /\ needs_catch_up THEN Begin("catch_up") ELSE UNCHANGED job
  /\ UNCHANGED <<slot, raw, full, table, manifest, marker, report, told, deaths, restarts, manual>>

(* The time of the daily run.  A scheduler that is busy or down then looks *)
(* for the next slot only when it is free again: that of the next day.     *)
MainSlot ==
  /\ slot = "before"
  /\ slot' = "after"
  /\ IF up /\ job.step = "idle" THEN Begin("schedule") ELSE UNCHANGED job
  /\ UNCHANGED <<up, raw, full, table, manifest, marker, report, told, deaths, restarts, manual>>

DayOver ==
  /\ slot = "after"
  /\ slot' = "over"
  /\ UNCHANGED <<up, raw, full, table, manifest, marker, report, job, told, deaths, restarts, manual>>

(* `quanta lake daily --date`, while no other run is on.                   *)
Manual ==
  /\ job.step = "idle" /\ manual < MaxManual
  /\ manual' = manual + 1
  /\ Begin("hand")
  /\ UNCHANGED <<slot, up, raw, full, table, manifest, marker, report, told, deaths, restarts>>

Die ==
  /\ restarts < MaxDeaths /\ up
  /\ up' = FALSE
  /\ restarts' = restarts + 1
  /\ job' = NoJob
  /\ deaths' = IF marker /\ job.step # "idle" /\ job.by # "hand" THEN deaths + 1 ELSE deaths
  /\ UNCHANGED <<slot, raw, full, table, manifest, marker, report, told, manual>>

-----------------------------------------------------------------------------
(* run_daily.                                                              *)

Venue == Head(job.left)

NextVenue(problem, done) ==
  job' = [job EXCEPT !.step = "venue", !.left = Tail(@), !.at = 1,
                     !.problem = @ \/ problem, !.done = IF done THEN @ \cup {Venue} ELSE @]

(* An exception nobody expected ends the run; the marker stays.            *)
Raise == job' = NoJob /\ told' = TRUE /\ UNCHANGED <<table, manifest, marker, report>>

BeginVenue ==
  /\ job.step = "venue" /\ job.left # <<>>
  /\ IF full THEN NextVenue(TRUE, FALSE) /\ UNCHANGED marker
             ELSE job' = [job EXCEPT !.step = "read"] /\ marker' = TRUE
  /\ UNCHANGED <<table, manifest, report, told>>

(* The raw records of the day are read into the builders, which spill: the *)
(* disk is looked at before each chunk and at the end.                     *)
Read ==
  /\ job.step = "read"
  /\ \/ /\ raw[Venue].partial
        /\ NextVenue(TRUE, TRUE) /\ UNCHANGED <<table, manifest, marker, report, told>>
     \/ /\ ~ raw[Venue].partial /\ full
        /\ NextVenue(TRUE, FALSE) /\ UNCHANGED <<table, manifest, marker, report, told>>
     \/ /\ ~ raw[Venue].partial /\ ~ full
        /\ job' = [job EXCEPT !.step = "write", !.of = raw[Venue].version]
        /\ UNCHANGED <<table, manifest, marker, report, told>>
     \/ Raise

(* A partition replaces the one before it.  Its last chunk is spilled then,*)
(* so that the disk guard may stop a venue between two of its tables.      *)
WriteTable ==
  /\ job.step = "write" /\ job.at <= Len(Tables)
  /\ \/ /\ table' = [table EXCEPT ![Venue][job.at] = job.of]
        /\ job' = [job EXCEPT !.at = @ + 1]
        /\ UNCHANGED <<manifest, marker, report, told>>
     \/ full /\ NextVenue(TRUE, FALSE) /\ UNCHANGED <<table, manifest, marker, report, told>>
     \/ Raise

WriteManifest ==
  /\ job.step = "write" /\ job.at > Len(Tables)
  /\ \/ /\ manifest' = [manifest EXCEPT ![Venue] = job.of]
        /\ NextVenue(FALSE, TRUE)
        /\ UNCHANGED <<table, marker, report, told>>
     \/ Raise

(* Bug: the marker goes before the report is written.                      *)
WriteReportLast ==
  /\ job.step = "venue" /\ job.left = <<>>
  /\ job' = [job EXCEPT !.step = "end"]
  /\ marker' = FALSE
  /\ UNCHANGED <<table, manifest, report, told>>

(* quality_report: the venues that were done and have a manifest.          *)
WriteReport ==
  /\ job.step = "venue" /\ job.left = <<>>
  /\ \/ /\ job' = [job EXCEPT !.step = "end"]
        /\ report' = IF job.done = {} THEN report
                     ELSE [v \in {w \in job.done : manifest[w] # 0} |-> manifest[v]]
        /\ UNCHANGED <<table, manifest, marker, told>>
     \/ job.done # {} /\ Raise

EndRun ==
  /\ job.step = "end"
  /\ marker' = FALSE
  /\ told' = job.problem
  /\ job' = NoJob
  /\ UNCHANGED <<table, manifest, report>>

RunStep ==
  /\ BeginVenue \/ Read \/ WriteTable \/ WriteManifest \/ WriteReport \/ EndRun
  /\ UNCHANGED <<slot, up, raw, full, deaths, restarts, manual>>

Next ==
  \/ \E v \in VenueSet : Finalized(v)
  \/ DiskChanges
  \/ Start \/ MainSlot \/ DayOver \/ Manual \/ Die
  \/ RunStep

Spec == Init /\ [][Next]_vars

-----------------------------------------------------------------------------
(* Properties.                                                             *)

(* A manifest describes its tables, and the report the manifests, unless a *)
(* run is at it, died over it (its marker tells), or told of a problem:    *)
(* whatever failed, died or filled up in between.                          *)
Consistent(v) ==
  /\ \A i \in DOMAIN Tables : table[v][i] = manifest[v]
  /\ report = NoReport \/ (v \in DOMAIN report /\ report[v] = manifest[v])

NoSilentMixture ==
  \A v \in VenueSet : Consistent(v) \/ job.step # "idle" \/ marker \/ told

(* "A failure cannot turn into a restart loop": however often the process  *)
(* dies and restarts, at most two of its deaths are at work on one day     *)
(* (one in the catch-up of a start, one in the daily run), and one more    *)
(* for each run by hand, which lifts the marker.                           *)
NoCrashLoop == deaths <= 2 + manual

-----------------------------------------------------------------------------
(* What makes them hold.                                                   *)

LakeAssumption ==
  /\ Venues \in Seq(VenueSet)
  /\ DOMAIN Tables = 1..Len(Tables) /\ Len(Tables) \in Nat

Steps == {"idle", "venue", "read", "write", "end"}

Jobs == [step : Steps, by : {"nobody", "catch_up", "schedule", "hand"}, left : Seq(VenueSet), at : Nat,
         of : Nat, done : SUBSET VenueSet, problem : BOOLEAN]

TypeOK ==
  /\ raw \in [VenueSet -> [version : {1, 2}, partial : BOOLEAN]]
  /\ table \in [VenueSet -> [DOMAIN Tables -> Nat]]
  /\ manifest \in [VenueSet -> Nat]
  /\ job \in Jobs
  /\ deaths \in Nat /\ manual \in Nat

Whole(v) == manifest[v] # 0 /\ \A i \in DOMAIN Tables : table[v][i] = manifest[v]

Ahead(v) == \E i \in DOMAIN job.left : job.left[i] = v

(* Without the marker nothing was touched since the last run that ended.   *)
Untouched ==
  ~ marker =>
    /\ job.done = {} /\ job.step \notin {"read", "write"}
    /\ told \/ \A v \in VenueSet : Consistent(v)

(* What a run without a problem has behind it is whole, and in its report. *)
AtWork ==
  /\ job.step \in {"venue", "read"} => job.at = 1
  /\ job.step \in {"read", "write"} => job.left # <<>>
  /\ job.step = "write" =>
       /\ job.of # 0 /\ job.of \in Nat
       /\ \A i \in DOMAIN Tables : i < job.at => table[Venue][i] = job.of
  /\ job.step # "idle" /\ ~ job.problem =>
       \A v \in VenueSet : Ahead(v) \/ (v \in job.done /\ Whole(v))
  /\ job.step = "end" => job.left = <<>>
  /\ job.step = "end" /\ ~ job.problem =>
       \A v \in VenueSet : v \in DOMAIN report /\ report[v] = manifest[v]

(* Runs that are still to come without anybody asking for them.            *)
ToCome ==
  (IF slot = "before" THEN 1 ELSE 0) + (IF job.step # "idle" \/ ~ marker THEN 1 ELSE 0)

DiesRarely == deaths + ToCome <= 2 + manual

DailyInv == TypeOK /\ Untouched /\ AtWork /\ DiesRarely

=============================================================================

---------------------------- MODULE TardisImport ----------------------------
(***************************************************************************)
(* The import of Tardis files (quanta.archive.tardis): a few downloads at  *)
(* a time, each verified and converted on the way, until the quota of the  *)
(* provider is used up; a run that is started again resumes.  For a file,  *)
(* the Parquet file is written first, then the mirror, then its sidecar:   *)
(* the process may die in between, and the provider may publish a new      *)
(* version at any time.  What is on disk is the version it came from.      *)
(***************************************************************************)
EXTENDS Naturals, FiniteSets

CONSTANTS
  Files,         \* the jobs of a run
  Concurrency,   \* most downloads at a time a run is asked for
  Attempts,
  NoRows,        \* versions <<file, version>> without a line ("no data that day")
  MaxRuns        \* bound: runs

VARIABLES
  upstream,   \* version published per file, 0 if there is none
  parquet, mirror, sidecar,   \* per file: version, 0 if there is none
  job,        \* per file: its step, the attempt and the bytes it holds
  result,     \* per file: status of the current run
  convert,    \* options of the current run: conversion,
  slots,      \* and downloads at a time
  quota,      \* the current run met the quota
  skipped,    \* some run was without conversion
  runs

vars == <<upstream, parquet, mirror, sidecar, job, result, convert, slots, quota, skipped, runs>>

disk == <<parquet, mirror, sidecar>>

Waiting == [step |-> "waiting", attempt |-> 1, got |-> 0]
Over    == [step |-> "over", attempt |-> 1, got |-> 0]

Init ==
  /\ upstream \in [Files -> {0, 1}]
  /\ parquet = [f \in Files |-> 0] /\ mirror = parquet /\ sidecar = parquet
  /\ job = [f \in Files |-> Over]
  /\ result = [f \in Files |-> "none"]
  /\ convert = TRUE /\ slots = 1 /\ quota = FALSE /\ skipped = FALSE
  /\ runs = 0

Running == {f \in Files : job[f].step \notin {"waiting", "over"}}

(* run_import: the process is started, also after it died.                 *)
StartRun ==
  /\ runs < MaxRuns
  /\ \A f \in Files : job[f].step = "over"
  /\ runs' = runs + 1
  /\ convert' \in BOOLEAN /\ slots' \in 1..Concurrency
  /\ skipped' = (skipped \/ ~ convert')
  /\ job' = [f \in Files |-> Waiting]
  /\ result' = [f \in Files |-> "none"]
  /\ quota' = FALSE
  /\ UNCHANGED <<upstream, disk>>

Die ==
  /\ \E f \in Files : job[f].step # "over"
  /\ job' = [f \in Files |-> Over]
  /\ UNCHANGED <<upstream, disk, result, convert, slots, quota, skipped, runs>>

Republish(f) ==
  /\ upstream[f] = 1
  /\ upstream' = [upstream EXCEPT ![f] = 2]
  /\ UNCHANGED <<disk, job, result, convert, slots, quota, skipped, runs>>

-----------------------------------------------------------------------------
(* import_file.                                                            *)

Finish(f, status) ==
  /\ job' = [job EXCEPT ![f] = Over]
  /\ result' = [result EXCEPT ![f] = status]

(* The first semaphores go to the first jobs; after a quota error none is  *)
(* started any more.                                                       *)
Begin(f) ==
  /\ job[f].step = "waiting" /\ Cardinality(Running) < slots
  /\ IF quota THEN Finish(f, "quota")
     ELSE /\ job' = [job EXCEPT ![f].step =
                       IF sidecar[f] # 0 /\ mirror[f] # 0 THEN "cached" ELSE "download"]
          /\ UNCHANGED result
  /\ UNCHANGED <<disk, quota>>

HasRows(f, version) == <<f, version>> \notin NoRows

(* What was verified before is not downloaded again; a Parquet file that is*)
(* missing is made from the mirror, if that can be read.                   *)
Cached(f) ==
  /\ job[f].step = "cached"
  /\ \/ /\ Finish(f, "cached")
        /\ parquet' = [parquet EXCEPT ![f] =
                         IF convert /\ @ = 0 /\ HasRows(f, sidecar[f]) THEN mirror[f] ELSE @]
     \/ /\ convert /\ parquet[f] = 0 /\ HasRows(f, sidecar[f])
        /\ Finish(f, "corrupt")
        /\ UNCHANGED parquet
  /\ UNCHANGED <<mirror, sidecar, quota>>

Again(f, status) ==
  IF job[f].attempt < Attempts
    THEN job' = [job EXCEPT ![f] = [step |-> "download", attempt |-> @.attempt + 1, got |-> 0]]
         /\ UNCHANGED result
    ELSE Finish(f, status)

(* The whole file has come, with the length and the MD5 announced.         *)
Downloaded(f) ==
  /\ job[f].step = "download" /\ upstream[f] # 0
  /\ job' = [job EXCEPT ![f].step = "convert", ![f].got = upstream[f]]
  /\ UNCHANGED <<disk, result, quota>>

(* Bytes that are bad, a server or network error: once more, a few times.  *)
DownloadFails(f) ==
  /\ job[f].step = "download"
  /\ \/ Again(f, "corrupt") \/ Again(f, "error")
     \/ upstream[f] = 0 /\ Finish(f, "missing")
     \/ Finish(f, "unauthorized")
  /\ UNCHANGED <<disk, quota>>

(* Bug for the mutants: a long wait ends the file, not the run.            *)
QuotaOfFile(f) ==
  /\ job[f].step = "download"
  /\ Again(f, "quota") \/ Finish(f, "quota")
  /\ UNCHANGED <<disk, quota>>

(* HTTP 429: a short wait is waited for, a long one ends the run.          *)
Quota(f) ==
  /\ job[f].step = "download"
  /\ \/ job[f].attempt < Attempts /\ Again(f, "quota") /\ UNCHANGED quota
     \/ Finish(f, "quota") /\ quota' = TRUE
  /\ UNCHANGED disk

(* Bug: a Parquet file that is there is kept.                              *)
ConvertOnce(f) ==
  /\ job[f].step = "convert"
  /\ parquet' = [parquet EXCEPT ![f] = IF convert /\ @ = 0 THEN job[f].got ELSE @]
  /\ job' = [job EXCEPT ![f].step = "mirror"]
  /\ UNCHANGED <<mirror, sidecar, result, quota>>

(* convert_gz reads the file to its end, whether it writes Parquet or not; *)
(* without rows it writes none.                                            *)
Convert(f) ==
  /\ job[f].step = "convert"
  /\ \/ /\ parquet' = [parquet EXCEPT ![f] =
                         IF convert /\ HasRows(f, job[f].got) THEN job[f].got ELSE @]
        /\ job' = [job EXCEPT ![f].step = "mirror"]
        /\ UNCHANGED result
     \/ Again(f, "corrupt") /\ UNCHANGED parquet
  /\ UNCHANGED <<mirror, sidecar, quota>>

Mirror(f) ==
  /\ job[f].step = "mirror"
  /\ mirror' = [mirror EXCEPT ![f] = job[f].got]
  /\ job' = [job EXCEPT ![f].step = "sidecar"]
  /\ UNCHANGED <<parquet, sidecar, result, quota>>

Sidecar(f) ==
  /\ job[f].step = "sidecar"
  /\ sidecar' = [sidecar EXCEPT ![f] = job[f].got]
  /\ Finish(f, IF HasRows(f, job[f].got) THEN "downloaded" ELSE "empty")
  /\ UNCHANGED <<parquet, mirror, quota>>

ImportStep ==
  /\ \E f \in Files :
       Begin(f) \/ Cached(f) \/ Downloaded(f) \/ DownloadFails(f) \/ Quota(f) \/ Convert(f)
         \/ Mirror(f) \/ Sidecar(f)
  /\ UNCHANGED <<upstream, convert, slots, skipped, runs>>

Next == StartRun \/ Die \/ (\E f \in Files : Republish(f)) \/ ImportStep

Spec == Init /\ [][Next]_vars

-----------------------------------------------------------------------------
(* Properties.                                                             *)

(* What counts as imported is whole: the mirror is what its sidecar says,  *)
(* and the Parquet file was made from the same bytes, whenever the process *)
(* died, whatever was published meanwhile.  (A run without conversion that *)
(* meets a new version of a file leaves the older Parquet file in place;   *)
(* so does a version without rows.)                                        *)
ImportedIsWhole ==
  \A f \in Files :
    sidecar[f] # 0 /\ mirror[f] # 0 =>
      /\ sidecar[f] = mirror[f]
      /\ ~ skipped /\ HasRows(f, mirror[f]) => parquet[f] = mirror[f]
      /\ result[f] = "downloaded" /\ convert => parquet[f] = mirror[f]

(* Once the quota is used up no download is begun; what was verified stays,*)
(* and is not downloaded again.                                            *)
QuotaHolds ==
  \A f \in Files :
    /\ job'[f].step = "download" /\ job[f].step = "waiting" =>
         ~ (\E g \in Files : result[g] = "quota") /\ ~ (sidecar[f] # 0 /\ mirror[f] # 0)
    /\ sidecar[f] # 0 => sidecar'[f] = sidecar[f] /\ mirror'[f] = mirror[f]

-----------------------------------------------------------------------------
(* What makes them hold.                                                   *)

Steps == {"waiting", "over", "cached", "download", "convert", "mirror", "sidecar"}

TypeOK ==
  /\ upstream \in [Files -> Nat]
  /\ {parquet, mirror, sidecar} \subseteq [Files -> Nat]
  /\ job \in [Files -> [step : Steps, attempt : Nat, got : Nat]]
  /\ DOMAIN result = Files

(* A file with a sidecar is not at work; what is at work has its bytes on  *)
(* disk up to its step.                                                    *)
FileInv(f) ==
  /\ sidecar[f] # 0 =>
       /\ sidecar[f] = mirror[f] /\ job[f].step \in {"waiting", "over", "cached"}
       /\ ~ skipped /\ HasRows(f, mirror[f]) => parquet[f] = mirror[f]
  /\ job[f].step = "cached" => sidecar[f] # 0
  /\ job[f].step \in {"convert", "mirror", "sidecar"} => job[f].got # 0
  /\ job[f].step \in {"mirror", "sidecar"} /\ convert /\ HasRows(f, job[f].got) => parquet[f] = job[f].got
  /\ job[f].step = "sidecar" => mirror[f] = job[f].got
  /\ result[f] = "downloaded" =>
       /\ sidecar[f] # 0 /\ job[f].step = "over"
       /\ convert => parquet[f] = mirror[f]

(* Who was not downloaded for the quota has met it, or was told of it.      *)
QuotaIsMet == (\E f \in Files : result[f] = "quota") => quota

TardisInv == TypeOK /\ (~ convert => skipped) /\ \A f \in Files : FileInv(f)

=============================================================================

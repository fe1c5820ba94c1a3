------------------------------ MODULE Segments ------------------------------
(***************************************************************************)
(* Raw capture segments of one channel (quanta.recorder.segment) and their *)
(* way to durable storage (quanta.recorder.uploader).  Records are queued  *)
(* in memory, a flush writes them as frames into a .partial file of their  *)
(* period, a finished file is renamed and gets a manifest, the uploader    *)
(* ships files with a manifest, marks them, and removes them when they are *)
(* old.  Every file operation is a step of its own: it may fail, and the   *)
(* process may crash before the next one.  A restart recovers what is left *)
(* .partial.                                                               *)
(*                                                                         *)
(* A record makes a frame of its own (frame_max_bytes = 1); a checksum is  *)
(* the sequence of frames it was computed from.                            *)
(***************************************************************************)
EXTENDS Naturals, SequencesExt

CONSTANTS
  MaxRecords,   \* bound: records appended
  MaxPeriods,   \* bound: hours that begin
  MaxFiles,     \* bound: files created
  MaxQueue,     \* frames kept while writes fail (max_queue_bytes)
  MaxFailures,  \* bound: file operations that fail
  MaxCrashes,   \* bound: crashes
  Damage,       \* what a failing write may leave behind: "nothing", "torn", "whole"
  None          \* no file, no manifest, no remote copy

SegmentsAssumption ==
  /\ MaxRecords \in Nat /\ MaxPeriods \in Nat /\ MaxFiles \in Nat
  /\ MaxQueue \in Nat \ {0}
  /\ MaxFailures \in Nat /\ MaxCrashes \in Nat
  /\ Damage \subseteq {"nothing", "torn", "whole"}
  /\ None \notin Nat

TORN == 0
Records == 1..MaxRecords
Names == 1..MaxFiles

VARIABLES
  period,    \* the current hour
  stamp,     \* the hour every record was received in
  queue,     \* memory: frames to be written
  fh,        \* memory: the open file: "none", "open", or "closed" and not reset
  cur,       \* memory: its name, or None
  hash,      \* memory: the frames the checksum was updated with
  job,       \* the writer thread: what it is doing, for which record
  disk,      \* local files
  hour,      \* the hour in a file's name
  remote,    \* copies in durable storage: frames, and whether the manifest is there
  up,        \* the uploader: next step, and the file
  recovery,  \* the file a restart is recovering, or None
  running,   \* recovery is over
  written,   \* records whose write was reported as done
  faults

memory == <<queue, fh, cur, hash, job>>
vars   == <<period, stamp, memory, disk, hour, remote, up, recovery, running, written, faults>>

Frames == Seq(Records \cup {TORN})
NoFile == [kind |-> "none", frames |-> <<>>, manifest |-> None, marker |-> FALSE]
Idle   == [step |-> "idle", rec |-> 0]
NoUp   == [step |-> "idle", file |-> None]
Used   == {f \in Names : disk[f].kind # "none" \/ hour[f] # None}

Init ==
  /\ period = 0
  /\ stamp = <<>>
  /\ queue = <<>> /\ fh = "none" /\ cur = None /\ hash = <<>> /\ job = Idle
  /\ disk = [f \in Names |-> NoFile]
  /\ hour = [f \in Names |-> None]
  /\ remote = [f \in Names |-> [frames |-> None, manifest |-> FALSE]]
  /\ up = NoUp
  /\ recovery = None
  /\ running = TRUE
  /\ written = {}
  /\ faults = [failures |-> 0, crashes |-> 0]

(* scan_frames: everything before the first frame that is not complete.    *)
Readable(frames) ==
  LET torn == {i \in 1..Len(frames) : frames[i] = TORN}
  IN  IF torn = {} THEN frames
      ELSE SubSeq(frames, 1, (CHOOSE i \in torn : \A j \in torn : i <= j) - 1)

In(r, frames) == \E i \in 1..Len(frames) : frames[i] = r

Fails ==
  /\ faults.failures < MaxFailures
  /\ faults' = [faults EXCEPT !.failures = @ + 1]

-----------------------------------------------------------------------------
(* The event loop.                                                         *)

(* Bug for the mutants: the backlog has no cap.                            *)
TrimNever(q) == q

(* _trim_queue: beyond the cap the oldest unwritten frames are dropped.    *)
Trim(q) == IF Len(q) > MaxQueue THEN SubSeq(q, Len(q) - MaxQueue + 1, Len(q)) ELSE q

append ==
  /\ running
  /\ Len(stamp) < MaxRecords
  /\ stamp' = Append(stamp, period)
  /\ queue' = Trim(Append(queue, Len(stamp) + 1))
  /\ UNCHANGED <<period, fh, cur, hash, job, disk, hour, remote, up, recovery, running, written,
                 faults>>

NextPeriod ==
  /\ period < MaxPeriods
  /\ period' = period + 1
  /\ UNCHANGED <<stamp, memory, disk, hour, remote, up, recovery, running, written, faults>>

(* Bug: a record goes into whatever file is open.                          *)
StepForAny(r) == IF fh = "none" THEN "open" ELSE "write"

(* The first operation for record r: its file is open, another one has to  *)
(* be finalized first, or there is none.                                   *)
StepFor(r) ==
  IF fh = "none" THEN "open" ELSE IF hour[cur] = stamp[r] THEN "write" ELSE "close"

(* flush takes the next frame ...                                          *)
FlushFrame ==
  /\ running /\ job.step = "idle"
  /\ queue # <<>>
  /\ job' = [step |-> StepFor(Head(queue)), rec |-> Head(queue)]
  /\ queue' = Tail(queue)
  /\ UNCHANGED <<period, stamp, fh, cur, hash, disk, hour, remote, up, recovery, running, written,
                 faults>>

(* ... and finalizes a file whose hour is over.                            *)
FlushFinalizes ==
  /\ running /\ job.step = "idle"
  /\ queue = <<>> /\ cur # None
  /\ hour[cur] < period
  /\ job' = [step |-> "close", rec |-> 0]
  /\ UNCHANGED <<period, stamp, queue, fh, cur, hash, disk, hour, remote, up, recovery, running,
                 written, faults>>

-----------------------------------------------------------------------------
(* The writer thread.                                                      *)

(* Bug: the frame goes back to the end of the queue.                       *)
JobFailsToTail ==
  /\ job' = Idle
  /\ queue' = IF job.rec = 0 THEN queue ELSE Trim(Append(queue, job.rec))

(* The job raises: its frame goes back to the head of the queue.           *)
JobFails ==
  /\ job' = Idle
  /\ queue' = IF job.rec = 0 THEN queue ELSE Trim(<<job.rec>> \o queue)

Close ==
  /\ job.step = "close"
  /\ fh' = "closed"
  /\ \/ job' = [job EXCEPT !.step = "replace"] /\ UNCHANGED <<queue, faults>>
     \/ fh = "open" /\ Fails /\ JobFails
  /\ UNCHANGED <<cur, hash, disk>>

(* os.replace: the .partial file gets its final name; if it has it already,*)
(* it is not found.                                                        *)
Replace ==
  /\ job.step = "replace"
  /\ \/ /\ disk[cur].kind = "partial"
        /\ disk' = [disk EXCEPT ![cur].kind = "final"]
        /\ job' = [job EXCEPT !.step = "manifest"]
        /\ UNCHANGED <<queue, faults>>
     \/ disk[cur].kind # "partial" /\ JobFails /\ UNCHANGED <<disk, faults>>
     \/ disk[cur].kind = "partial" /\ Fails /\ JobFails /\ UNCHANGED disk
  /\ UNCHANGED <<fh, cur, hash>>

WriteManifest ==
  /\ job.step = "manifest"
  /\ \/ /\ disk' = [disk EXCEPT ![cur].manifest = hash]
        /\ job' = [job EXCEPT !.step = "sync"]
        /\ UNCHANGED <<queue, faults>>
     \/ Fails /\ JobFails /\ UNCHANGED disk
  /\ UNCHANGED <<fh, cur, hash>>

(* The directory is synced and the writer forgets the file.                *)
SyncDir ==
  /\ job.step = "sync"
  /\ \/ /\ fh' = "none" /\ cur' = None /\ hash' = <<>>
        /\ job' = IF job.rec = 0 THEN Idle ELSE [job EXCEPT !.step = "open"]
        /\ UNCHANGED <<queue, faults>>
     \/ Fails /\ JobFails /\ UNCHANGED <<fh, cur, hash>>
  /\ UNCHANGED disk

(* A file is named for the moment it is opened: its name is a new one.     *)
NewName == CHOOSE f \in Names \ Used : \A g \in Names \ Used : f <= g

OpenFile ==
  /\ job.step = "open"
  /\ Names \ Used # {}
  /\ \/ /\ disk' = [disk EXCEPT ![NewName] = [NoFile EXCEPT !.kind = "partial"]]
        /\ hour' = [hour EXCEPT ![NewName] = stamp[job.rec]]
        /\ cur' = NewName /\ fh' = "open" /\ hash' = <<>>
        /\ job' = [job EXCEPT !.step = "write"]
        /\ UNCHANGED <<queue, faults>>
     \/ Fails /\ JobFails /\ UNCHANGED <<disk, hour, cur, fh, hash>>

(* The frame is written and synced.  A write or sync that fails leaves the *)
(* file as it was, with part of the frame, or with all of it (in the       *)
(* writer's buffer, that is written with the next frame, or on disk); a    *)
(* file that is closed already cannot be written.                          *)
WriteFrame ==
  /\ job.step = "write"
  /\ \/ /\ fh = "open"
        /\ disk' = [disk EXCEPT ![cur].frames = Append(@, job.rec)]
        /\ hash' = Append(hash, job.rec)
        /\ written' = written \cup {job.rec}
        /\ job' = Idle
        /\ UNCHANGED <<queue, faults>>
     \/ /\ fh = "open"
        /\ Fails /\ JobFails
        /\ \E d \in Damage :
             disk' = IF d = "nothing" THEN disk
                     ELSE [disk EXCEPT ![cur].frames =
                                         Append(@, IF d = "torn" THEN TORN ELSE job.rec)]
        /\ UNCHANGED <<hash, written>>
     \/ fh = "closed" /\ JobFails /\ UNCHANGED <<disk, hash, written, faults>>
  /\ UNCHANGED <<fh, cur>>

WriterStep ==
  /\ running
  /\ \/ (Close \/ Replace \/ WriteManifest \/ SyncDir) /\ UNCHANGED <<hour, written>>
     \/ OpenFile /\ UNCHANGED written
     \/ WriteFrame /\ UNCHANGED hour
  /\ UNCHANGED <<period, stamp, remote, up, recovery, running>>

-----------------------------------------------------------------------------
(* The uploader.                                                           *)

(* Bug: what is in storage already is not uploaded again.                  *)
PickMissing(f) ==
  /\ running /\ up.step = "idle"
  /\ disk[f].kind = "final" /\ disk[f].manifest # None /\ remote[f].frames = None
  /\ disk[f].frames = disk[f].manifest
  /\ up' = [step |-> "segment", file |-> f]
  /\ UNCHANGED <<disk, remote, faults>>

(* pending: finalized files with a manifest and without a marker; one whose*)
(* checksum does not match its manifest is refused.                        *)
Pick(f) ==
  /\ running /\ up.step = "idle"
  /\ disk[f].kind = "final" /\ disk[f].manifest # None /\ ~ disk[f].marker
  /\ disk[f].frames = disk[f].manifest
  /\ up' = [step |-> "segment", file |-> f]
  /\ UNCHANGED <<disk, remote, faults>>

(* Bug: the marker is written before the manifest is uploaded.             *)
UploadSegmentOnly ==
  /\ up.step = "segment"
  /\ \/ /\ remote' = [remote EXCEPT ![up.file].frames = disk[up.file].frames]
        /\ up' = [up EXCEPT !.step = "marker"]
        /\ UNCHANGED faults
     \/ Fails /\ up' = NoUp /\ UNCHANGED remote
  /\ UNCHANGED disk

UploadSegment ==
  /\ up.step = "segment"
  /\ \/ /\ remote' = [remote EXCEPT ![up.file].frames = disk[up.file].frames]
        /\ up' = [up EXCEPT !.step = "manifest"]
        /\ UNCHANGED faults
     \/ Fails /\ up' = NoUp /\ UNCHANGED remote
  /\ UNCHANGED disk

UploadManifest ==
  /\ up.step = "manifest"
  /\ \/ /\ remote' = [remote EXCEPT ![up.file].manifest = TRUE]
        /\ up' = [up EXCEPT !.step = "marker"]
        /\ UNCHANGED faults
     \/ Fails /\ up' = NoUp /\ UNCHANGED remote
  /\ UNCHANGED disk

Mark ==
  /\ up.step = "marker"
  /\ \/ disk' = [disk EXCEPT ![up.file].marker = TRUE] /\ UNCHANGED faults
     \/ Fails /\ UNCHANGED disk
  /\ up' = NoUp
  /\ UNCHANGED remote

(* enforce_retention: an uploaded file that is old is removed; its manifest*)
(* and marker follow, and are not looked at without it.                    *)
Retire(f) ==
  /\ running /\ up.step = "idle"
  /\ disk[f].kind = "final" /\ disk[f].marker
  /\ hour[f] < period
  /\ disk' = [disk EXCEPT ![f].kind = "gone"]
  /\ UNCHANGED <<up, remote, faults>>

UploaderStep ==
  /\ running
  /\ UploadSegment \/ UploadManifest \/ Mark \/ \E f \in Names : Pick(f) \/ Retire(f)
  /\ UNCHANGED <<period, stamp, memory, hour, recovery, running, written>>

-----------------------------------------------------------------------------
(* Crash and recovery.                                                     *)

(* The process dies: what is in memory is gone, a frame that is being      *)
(* written may be torn or whole.                                           *)
Crash ==
  /\ faults.crashes < MaxCrashes
  /\ faults' = [faults EXCEPT !.crashes = @ + 1]
  /\ \/ UNCHANGED disk
     \/ /\ job.step = "write" /\ fh = "open"
        /\ \E frame \in {TORN, job.rec} :
             disk' = [disk EXCEPT ![cur].frames = Append(@, frame)]
  /\ queue' = <<>> /\ fh' = "none" /\ cur' = None /\ hash' = <<>> /\ job' = Idle
  /\ up' = NoUp
  /\ recovery' = None
  /\ running' = FALSE
  /\ UNCHANGED <<period, stamp, hour, remote, written>>

Partial == {f \in Names : disk[f].kind = "partial"}

(* Bugs: a torn file is removed; its torn tail is left.                    *)
RecoverFileWhole ==
  /\ ~ running /\ recovery = None
  /\ \E f \in Partial :
       IF disk[f].frames = <<>> \/ In(TORN, disk[f].frames)
       THEN disk' = [disk EXCEPT ![f] = NoFile] /\ UNCHANGED recovery
       ELSE disk' = [disk EXCEPT ![f].kind = "final"] /\ recovery' = f
  /\ UNCHANGED running

RecoverFileUncut ==
  /\ ~ running /\ recovery = None
  /\ \E f \in Partial :
       IF Readable(disk[f].frames) = <<>>
       THEN disk' = [disk EXCEPT ![f] = NoFile] /\ UNCHANGED recovery
       ELSE disk' = [disk EXCEPT ![f].kind = "final"] /\ recovery' = f
  /\ UNCHANGED running

(* recover_partial: a file without a complete frame is removed, a torn tail*)
(* is cut off; then the file is renamed, then it gets its manifest.        *)
RecoverFile ==
  /\ ~ running /\ recovery = None
  /\ \E f \in Partial :
       LET frames == Readable(disk[f].frames)
       IN  IF frames = <<>>
           THEN disk' = [disk EXCEPT ![f] = NoFile] /\ UNCHANGED recovery
           ELSE /\ disk' = [disk EXCEPT ![f].frames = frames, ![f].kind = "final"]
                /\ recovery' = f
  /\ UNCHANGED running

(* The manifest is computed from what could be read.                       *)
RecoverManifest ==
  /\ ~ running /\ recovery # None
  /\ disk' = [disk EXCEPT ![recovery].manifest = Readable(disk[recovery].frames)]
  /\ recovery' = None
  /\ UNCHANGED running

Recovered ==
  /\ ~ running /\ recovery = None
  /\ Partial = {}
  /\ running' = TRUE
  /\ UNCHANGED <<disk, recovery>>

RecoveryStep ==
  /\ RecoverFile \/ RecoverManifest \/ Recovered
  /\ UNCHANGED <<period, stamp, memory, hour, remote, up, written, faults>>

-----------------------------------------------------------------------------

Next ==
  \/ append \/ NextPeriod
  \/ FlushFrame \/ FlushFinalizes \/ WriterStep
  \/ UploaderStep
  \/ Crash \/ RecoveryStep

Spec == Init /\ [][Next]_vars

(* The uploader scans again and again; a restart recovers.                 *)
FairSpec == Spec /\ WF_vars(UploaderStep) /\ WF_vars(RecoveryStep)

-----------------------------------------------------------------------------
(* Properties.                                                             *)

TypeOK ==
  /\ period \in 0..MaxPeriods
  /\ stamp \in Seq(0..MaxPeriods)
  /\ queue \in Seq(Records) /\ Len(queue) <= MaxQueue
  /\ fh \in {"none", "open", "closed"}
  /\ cur \in Names \cup {None}
  /\ hash \in Frames
  /\ job \in [step : {"idle", "close", "replace", "manifest", "sync", "open", "write"},
              rec : Records \cup {0}]
  /\ disk \in [Names -> [kind : {"none", "partial", "final", "gone"}, frames : Frames,
                         manifest : Frames \cup {None}, marker : BOOLEAN]]
  /\ hour \in [Names -> (0..MaxPeriods) \cup {None}]
  /\ remote \in [Names -> [frames : Frames \cup {None}, manifest : BOOLEAN]]
  /\ up \in [step : {"idle", "segment", "manifest", "marker"}, file : Names \cup {None}]
  /\ recovery \in Names \cup {None}
  /\ running \in BOOLEAN
  /\ written \subseteq Records

Held(f) == disk[f].kind \in {"partial", "final"}

(* "A crash can lose at most the in-memory buffer plus one partially       *)
(* written frame": a record that was written can be read, from its file or *)
(* from the copy of a file that was removed.                               *)
Durable ==
  \A r \in written : \E f \in Names :
    \/ Held(f) /\ In(r, Readable(disk[f].frames))
    \/ disk[f].kind = "gone" /\ remote[f].frames # None /\ In(r, remote[f].frames)

(* No record is recorded twice, and each is in a file of its own hour, in  *)
(* the order of arrival.                                                   *)
InOrder ==
  \A f, g \in Names : \A i \in 1..Len(disk[f].frames), j \in 1..Len(disk[g].frames) :
    LET r == disk[f].frames[i]  s == disk[g].frames[j]
    IN  (r # TORN /\ s # TORN /\ (f < g \/ (f = g /\ i < j))) => r < s

OwnHour ==
  \A f \in Names : \A i \in 1..Len(disk[f].frames) :
    disk[f].frames[i] # TORN => stamp[disk[f].frames[i]] = hour[f]

(* A manifest describes the file beside it, here and in storage; and       *)
(* "local files are deleted only when uploaded".                           *)
ManifestTrue ==
  \A f \in Names :
    /\ (Held(f) /\ disk[f].manifest # None) => disk[f].manifest = disk[f].frames
    /\ remote[f].manifest => remote[f].frames = disk[f].manifest
    /\ disk[f].kind = "gone" => remote[f].manifest /\ remote[f].frames = disk[f].frames

(* A file with a manifest is uploaded, whatever fails or crashes meanwhile.*)
Ships ==
  \A f \in Names : (disk[f].kind = "final" /\ disk[f].manifest # None) ~> disk[f].marker

(* "Atomically renamed when finalized, together with a manifest": a final  *)
(* file nobody is finishing has its manifest.                              *)
FinalHasManifest ==
  \A f \in Names : disk[f].kind = "final" =>
    disk[f].manifest # None \/ f \in {cur, recovery}

=============================================================================

--------------------------- MODULE SegmentsProofs ---------------------------
(***************************************************************************)
(* Theorems about Segments for any numbers of records, hours, files,       *)
(* failures and crashes and any cap of the backlog, when a write that fails*)
(* leaves nothing behind in the file.                                      *)
(***************************************************************************)
EXTENDS Segments, SequenceTheorems, WellFoundedInduction, TLAPS

CleanFailures == SegmentsAssumption /\ Damage \subseteq {"nothing"}

-----------------------------------------------------------------------------
(* The inductive invariant.                                                *)

FrameAt(f, i) == disk[f].frames[i]
Places(f) == 1..Len(disk[f].frames)

Increasing(q) == \A i, j \in 1..Len(q) : i < j => q[i] < q[j]

(* The records on their way to a file.                                     *)
Pending == {queue[i] : i \in 1..Len(queue)} \cup ({job.rec} \ {0})

(* Only what was received is anywhere.                                     *)
Known ==
  /\ Pending \subseteq 1..Len(stamp)
  /\ \A f \in Names : \A i \in Places(f) : FrameAt(f, i) \in 0..Len(stamp)

(* Where the writer is, what it knows of its file, and who is at work.     *)
Writer ==
  /\ fh = "none" <=> cur = None
  /\ fh # "none" => hash = disk[cur].frames
  /\ fh = "open" => disk[cur].kind = "partial"
  /\ job.step \in {"close", "replace", "manifest", "sync", "write"} => fh # "none"
  /\ job.step \in {"replace", "manifest", "sync"} => fh = "closed"
  /\ job.step = "open" => fh = "none"
  /\ job.step \in {"open", "write"} => job.rec # 0
  /\ job.step = "write" => hour[cur] = stamp[job.rec]
  /\ job.step = "manifest" => disk[cur].kind = "final" /\ disk[cur].manifest = None
  /\ ~ running => fh = "none" /\ job = Idle /\ up = NoUp
  /\ running => recovery = None
  /\ recovery # None => disk[recovery].kind = "final" /\ disk[recovery].manifest = None

(* What a file is, its manifest, marker and copy say of its frames.        *)
FileIsTrue(f) ==
  /\ disk[f].kind \in {"none", "partial"} =>
       /\ disk[f].manifest = None /\ ~ disk[f].marker
       /\ remote[f].frames = None /\ ~ remote[f].manifest
  /\ disk[f].kind = "none" => disk[f].frames = <<>>
  /\ disk[f].kind = "gone" => disk[f].marker
  /\ disk[f].manifest # None => disk[f].manifest = disk[f].frames
  /\ remote[f].frames # None => remote[f].frames = disk[f].frames /\ disk[f].manifest # None
  /\ remote[f].manifest => remote[f].frames # None
  /\ disk[f].marker => remote[f].manifest

FilesAreTrue == \A f \in Names : FileIsTrue(f)

(* The uploader works on a file that is finished.                          *)
Uploads ==
  up.step # "idle" =>
    /\ up.file \in Names
    /\ disk[up.file].kind = "final" /\ disk[up.file].manifest # None
    /\ up.step \in {"manifest", "marker"} => remote[up.file].frames # None
    /\ up.step = "marker" => remote[up.file].manifest

(* A frame is torn only at the end of a file that a crash left.            *)
TornLast ==
  \A f \in Names : \A i \in Places(f) :
    FrameAt(f, i) = TORN => i = Len(disk[f].frames) /\ disk[f].kind = "partial" /\ ~ running

(* Names are used in order, and the open file has the last one.            *)
NamesInOrder ==
  /\ \A f \in Names : disk[f].kind # "none" => hour[f] # None
  /\ \A f \in Used : \A g \in Names : g < f => g \in Used
  /\ cur # None => cur \in Used /\ \A f \in Used : f <= cur

(* What is on disk is older than what the writer has, and that than what   *)
(* is queued.                                                              *)
Sorted ==
  /\ Increasing(queue)
  /\ \A j \in 1..Len(queue) : job.rec < queue[j]
  /\ \A f \in Names : \A i \in Places(f) : \A r \in Pending : FrameAt(f, i) < r

(* What was written is in some file.                                       *)
Kept == \A r \in written : r # TORN /\ \E f \in Names : \E i \in Places(f) : FrameAt(f, i) = r

Order == Known /\ NamesInOrder /\ Sorted /\ InOrder /\ OwnHour /\ Kept
Work  == Writer /\ FilesAreTrue /\ Uploads /\ TornLast
SInv  == TypeOK /\ Order /\ Work

-----------------------------------------------------------------------------
(* Trim and Readable.                                                      *)

LEMMA TrimKeeps ==
  ASSUME SegmentsAssumption, NEW S, NEW q \in Seq(S)
  PROVE  /\ Trim(q) \in Seq(S) /\ Len(Trim(q)) <= MaxQueue
         /\ \E k \in Nat : \A i \in 1..Len(Trim(q)) :
              i + k \in 1..Len(q) /\ Trim(q)[i] = q[i + k]
<1> DEFINE k == Len(q) - MaxQueue
<1>0. Len(q) \in Nat /\ MaxQueue \in Nat \ {0} /\ \A i \in 1..Len(q) : q[i] \in S
  BY LenProperties, ElementOfSeq DEF SegmentsAssumption
<1>1. CASE Len(q) <= MaxQueue
  <2>1. Trim(q) = q
    BY <1>0, <1>1 DEF Trim
  <2> QED BY <1>0, <1>1, <2>1
<1>2. CASE Len(q) > MaxQueue
  <2>1. Trim(q) = SubSeq(q, k + 1, Len(q)) /\ k \in Nat
    BY <1>0, <1>2 DEF Trim
  <2>2. \A i \in (k + 1)..Len(q) : q[i] \in S
    BY <1>0, <2>1
  <2>3. /\ SubSeq(q, k + 1, Len(q)) \in Seq(S)
        /\ Len(SubSeq(q, k + 1, Len(q))) = IF k + 1 <= Len(q) THEN Len(q) - (k + 1) + 1 ELSE 0
        /\ \A i \in 1..(Len(q) - (k + 1) + 1) : SubSeq(q, k + 1, Len(q))[i] = q[k + 1 + i - 1]
    <3> HIDE DEF k
    <3> QED BY <1>0, <2>1, <2>2, SubSeqProperties
  <2>4. Len(Trim(q)) = MaxQueue
    BY <1>0, <1>2, <2>1, <2>3
  <2>5. \A i \in 1..Len(Trim(q)) : i + k \in 1..Len(q) /\ Trim(q)[i] = q[i + k]
    BY <1>0, <1>2, <2>1, <2>3, <2>4
  <2>6. k \in Nat
    BY <2>1
  <2>7. Trim(q) \in Seq(S) /\ Len(Trim(q)) <= MaxQueue
    BY <1>0, <2>1, <2>3, <2>4
  <2> HIDE DEF k
  <2>8. \E m \in Nat : \A i \in 1..Len(Trim(q)) : i + m \in 1..Len(q) /\ Trim(q)[i] = q[i + m]
    BY <2>5, <2>6
  <2> QED BY <2>7, <2>8
<1> QED BY <1>0, <1>1, <1>2

LEMMA TrimIncreasing ==
  ASSUME SegmentsAssumption, NEW q \in Seq(Int), Increasing(q)
  PROVE  Increasing(Trim(q))
<1>1. PICK k \in Nat : \A i \in 1..Len(Trim(q)) :
        i + k \in 1..Len(q) /\ Trim(q)[i] = q[i + k]
  BY TrimKeeps
<1> QED BY <1>1 DEF Increasing

(* When only the last frame can be torn, Readable is all the others.       *)
LEMMA ReadablePart ==
  ASSUME NEW frames \in Frames,
         \A i \in 1..Len(frames) : frames[i] = TORN => i = Len(frames)
  PROVE  /\ Readable(frames) \in Frames
         /\ Len(Readable(frames)) <= Len(frames)
         /\ \A i \in 1..Len(Readable(frames)) :
              Readable(frames)[i] = frames[i] /\ frames[i] # TORN
         /\ \A i \in 1..Len(frames) : frames[i] # TORN => i <= Len(Readable(frames))
<1> DEFINE torn == {i \in 1..Len(frames) : frames[i] = TORN}
           n == Len(frames)
<1>0. n \in Nat /\ \A i \in 1..n : frames[i] \in Records \cup {TORN}
  BY LenProperties, ElementOfSeq DEF Frames
<1>1. CASE torn = {}
  <2>1. Readable(frames) = frames
    BY <1>1 DEF Readable
  <2> QED BY <1>0, <1>1, <2>1
<1>2. CASE torn # {}
  <2>1. torn = {n} /\ n \in 1..n
    BY <1>0, <1>2
  <2>2. (CHOOSE i \in torn : \A j \in torn : i <= j) = n
    BY <1>0, <2>1
  <2>3. Readable(frames) = SubSeq(frames, 1, n - 1)
    BY <1>2, <2>2 DEF Readable
  <2>4. \A i \in 1..(n - 1) : frames[i] \in Records \cup {TORN} /\ frames[i] # TORN
    BY <1>0, <2>1
  <2>5. /\ Readable(frames) \in Frames
        /\ Len(Readable(frames)) = IF 1 <= n - 1 THEN n - 1 - 1 + 1 ELSE 0
        /\ \A i \in 1..(n - 1 - 1 + 1) : Readable(frames)[i] = frames[1 + i - 1]
    <3>1. n - 1 \in Int /\ 1 \in Int
      BY <1>0
    <3> QED BY <2>3, <2>4, <3>1, SubSeqProperties DEF Frames
  <2>6. Len(Readable(frames)) = n - 1
    <3>1. n \in Nat /\ n >= 1
      BY <1>0, <2>1
    <3>2. Len(Readable(frames)) = IF 1 <= n - 1 THEN n - 1 - 1 + 1 ELSE 0
      BY <2>5
    <3> HIDE DEF n
    <3> QED BY <3>1, <3>2
  <2>7. \A i \in 1..Len(Readable(frames)) : Readable(frames)[i] = frames[i]
    BY <1>0, <2>1, <2>5, <2>6
  <2> QED BY <1>0, <2>1, <2>4, <2>5, <2>6, <2>7
<1> QED BY <1>1, <1>2

-----------------------------------------------------------------------------
(* Types.                                                                  *)

LEMMA JobFailsQueue ==
  ASSUME SegmentsAssumption, TypeOK, JobFails
  PROVE  /\ job' = Idle
         /\ queue' \in Seq(Records) /\ Len(queue') <= MaxQueue
         /\ \A i \in 1..Len(queue') : queue'[i] \in Pending
         /\ (\A j \in 1..Len(queue) : job.rec < queue[j]) /\ Increasing(queue) => Increasing(queue')
<1>0. /\ queue \in Seq(Records) /\ Len(queue) \in Nat /\ Len(queue) <= MaxQueue
      /\ job.rec \in Records \cup {0}
      /\ \A i \in 1..Len(queue) : queue[i] \in Records
  BY LenProperties, ElementOfSeq DEF TypeOK
<1>1. CASE job.rec = 0
  <2>1. queue' = queue /\ job' = Idle
    BY <1>1 DEF JobFails
  <2> QED BY <1>0, <2>1 DEF Pending, Increasing
<1>2. CASE job.rec # 0
  <2> DEFINE q == <<job.rec>> \o queue
  <2>1. queue' = Trim(q) /\ job' = Idle
    BY <1>2 DEF JobFails
  <2>2. <<job.rec>> \in Seq(Records) /\ Len(<<job.rec>>) = 1 /\ <<job.rec>>[1] = job.rec
    BY <1>0, <1>2
  <2>3. /\ q \in Seq(Records) /\ Len(q) = Len(queue) + 1
        /\ \A i \in 1..(1 + Len(queue)) : q[i] = IF i <= 1 THEN job.rec ELSE queue[i - 1]
    BY <1>0, <2>2, ConcatProperties
  <2>4. \A i \in 1..Len(q) : q[i] \in Pending
    <3> TAKE i \in 1..Len(q)
    <3>1. i = 1 \/ i - 1 \in 1..Len(queue)
      BY <1>0, <2>3
    <3> QED BY <1>0, <1>2, <2>3, <3>1 DEF Pending
  <2>5. q \in Seq(Int)
    <3>1. Records \subseteq Int
      BY DEF Records
    <3> QED BY <2>3, <3>1, SeqMonotonic
  <2> HIDE DEF q
  <2>6. /\ Trim(q) \in Seq(Records) /\ Len(Trim(q)) <= MaxQueue
        /\ \E k \in Nat : \A i \in 1..Len(Trim(q)) : i + k \in 1..Len(q) /\ Trim(q)[i] = q[i + k]
    BY <2>3, TrimKeeps
  <2>7. \A i \in 1..Len(queue') : queue'[i] \in Pending
    BY <2>1, <2>4, <2>6
  <2>8. ASSUME \A j \in 1..Len(queue) : job.rec < queue[j], Increasing(queue)
        PROVE  Increasing(queue')
    <3>1. ASSUME NEW i \in 1..Len(q), NEW j \in 1..Len(q), i < j
          PROVE  q[i] < q[j]
      <4>1. q[j] = queue[j - 1] /\ j - 1 \in 1..Len(queue)
        BY <1>0, <2>3, <3>1
      <4>2. CASE i = 1
        BY <1>0, <2>3, <2>8, <4>1, <4>2
      <4>3. CASE i # 1
        <5>1. q[i] = queue[i - 1] /\ i - 1 \in 1..Len(queue) /\ i - 1 < j - 1
          BY <1>0, <2>3, <3>1, <4>3
        <5> QED BY <2>8, <4>1, <5>1 DEF Increasing
      <4> QED BY <4>2, <4>3
    <3>2. Increasing(q)
      BY <3>1 DEF Increasing
    <3> QED BY <2>1, <2>5, <3>2, TrimIncreasing
  <2> QED BY <2>1, <2>6, <2>7, <2>8
<1> QED BY <1>0, <1>1, <1>2

File == [kind : {"none", "partial", "final", "gone"}, frames : Frames,
         manifest : Frames \cup {None}, marker : BOOLEAN]

LEMMA FileParts ==
  ASSUME TypeOK, NEW f \in Names
  PROVE  /\ disk[f].kind \in {"none", "partial", "final", "gone"}
         /\ disk[f].frames \in Frames /\ disk[f].manifest \in Frames \cup {None}
         /\ disk[f].marker \in BOOLEAN
         /\ remote[f].frames \in Frames \cup {None} /\ remote[f].manifest \in BOOLEAN
BY DEF TypeOK

LEMMA InitTypes == SegmentsAssumption /\ Init => TypeOK
<1> SUFFICES ASSUME SegmentsAssumption, Init PROVE TypeOK
  OBVIOUS
<1>1. <<>> \in Frames /\ <<>> \in Seq(Records) /\ <<>> \in Seq(0..MaxPeriods) /\ Len(<<>>) = 0
  BY EmptySeq DEF Frames
<1>2. NoFile \in File
  BY <1>1 DEF NoFile, File
<1>3. disk \in [Names -> File]
  BY <1>2 DEF Init
<1>4. remote \in [Names -> [frames : Frames \cup {None}, manifest : BOOLEAN]]
  BY DEF Init
<1> QED BY <1>1, <1>3, <1>4 DEF Init, TypeOK, SegmentsAssumption, Idle, NoUp, File, Names

(* What a write leaves in a file is a sequence of frames.                  *)
LEMMA AppendTypes ==
  ASSUME TypeOK, NEW x \in Records \cup {TORN}, cur \in Names
  PROVE  [disk EXCEPT ![cur].frames = Append(@, x)] \in [Names -> File]
<1>1. disk[cur].frames \in Frames /\ disk[cur] \in File
  BY DEF TypeOK, File
<1>2. Append(disk[cur].frames, x) \in Frames
  BY <1>1, AppendProperties DEF Frames
<1> HIDE DEF Frames
<1>3. [disk[cur] EXCEPT !.frames = Append(disk[cur].frames, x)] \in File
  BY <1>1, <1>2 DEF File
<1> QED BY <1>3 DEF TypeOK, File

LEMMA ChangeTypes ==
  ASSUME TypeOK, NEW f \in Names
  PROVE  /\ \A k \in {"none", "partial", "final", "gone"} :
              [disk EXCEPT ![f].kind = k] \in [Names -> File]
         /\ \A m \in Frames : [disk EXCEPT ![f].manifest = m] \in [Names -> File]
         /\ [disk EXCEPT ![f].marker = TRUE] \in [Names -> File]
         /\ \A file \in File : [disk EXCEPT ![f] = file] \in [Names -> File]
         /\ \A g \in Names : disk[g] \in File
<1>1. disk \in [Names -> File]
  BY DEF TypeOK, File
<1>2. ASSUME NEW k \in {"none", "partial", "final", "gone"}
      PROVE  [disk EXCEPT ![f].kind = k] \in [Names -> File]
  <2>1. [disk[f] EXCEPT !.kind = k] \in File
    BY <1>1 DEF File
  <2> QED BY <1>1, <2>1
<1>3. ASSUME NEW m \in Frames
      PROVE  [disk EXCEPT ![f].manifest = m] \in [Names -> File]
  <2>1. [disk[f] EXCEPT !.manifest = m] \in File
    BY <1>1 DEF File
  <2> QED BY <1>1, <2>1
<1>4. [disk EXCEPT ![f].marker = TRUE] \in [Names -> File]
  <2>1. [disk[f] EXCEPT !.marker = TRUE] \in File
    BY <1>1 DEF File
  <2> QED BY <1>1, <2>1
<1> QED BY <1>1, <1>2, <1>3, <1>4

(* A new file gets the first free name.                                    *)
LEMMA FirstFree ==
  ASSUME SegmentsAssumption, TypeOK, NamesInOrder, Names \ Used # {}
  PROVE  /\ NewName \in Names \ Used
         /\ \A g \in Used : g < NewName
         /\ \A g \in Names \ Used : NewName <= g
<1> DEFINE free == Names \ Used
<1>1. free \subseteq Nat /\ Names \subseteq Nat
  BY DEF Names
<1>2. \E f \in free : \A g \in free : f <= g
  <2>1. \E f \in free : \A g \in free : ~ (<<g, f>> \in OpToRel(<, Nat))
    BY <1>1, NatLessThanWellFounded, WFMin
  <2>2. \A f, g \in Nat : <<g, f>> \notin OpToRel(<, Nat) => f <= g
    BY DEF OpToRel
  <2> QED BY <1>1, <2>1, <2>2
<1>3. NewName \in free /\ \A g \in free : NewName <= g
  BY <1>2 DEF NewName
<1>4. ASSUME NEW g \in Used PROVE g < NewName
  <2>1. g \in Names /\ NewName \in Names /\ NewName \notin Used
    BY <1>3 DEF Used
  <2>2. ~ (NewName < g)
    BY <2>1 DEF NamesInOrder
  <2> QED BY <1>1, <2>1, <2>2
<1> QED BY <1>3, <1>4

LEMMA WriterTypes ==
  ASSUME SegmentsAssumption, SInv, WriterStep
  PROVE  TypeOK'
<1> USE SegmentsAssumption
<1>0. /\ TypeOK /\ Writer /\ Known
      /\ UNCHANGED <<period, stamp, remote, up, recovery, running>>
      /\ job.rec \in Records \cup {0}
      /\ <<>> \in Frames
  BY EmptySeq DEF SInv, Order, Work, WriterStep, TypeOK, Frames
<1>7. disk \in [Names -> File] /\ (job.step \in {"replace", "manifest"} => cur \in Names)
  BY <1>0 DEF TypeOK, Writer, File
<1>1. CASE Close /\ UNCHANGED <<hour, written>>
  <2>1. /\ queue' \in Seq(Records) /\ Len(queue') <= MaxQueue
        /\ job' \in [step : {"idle", "close", "replace", "manifest", "sync", "open", "write"},
                     rec : Records \cup {0}]
    BY <1>0, <1>1, JobFailsQueue DEF Close, TypeOK, Idle
  <2> QED BY <1>0, <1>1, <2>1 DEF Close, TypeOK
<1>2. CASE Replace /\ UNCHANGED <<hour, written>>
  <2>1. /\ queue' \in Seq(Records) /\ Len(queue') <= MaxQueue
        /\ job' \in [step : {"idle", "close", "replace", "manifest", "sync", "open", "write"},
                     rec : Records \cup {0}]
    BY <1>0, <1>2, JobFailsQueue DEF Replace, TypeOK, Idle
  <2>2. disk' \in [Names -> File]
    <3>1. CASE disk' = disk
      BY <1>7, <3>1
    <3>2. CASE cur \in Names /\ disk' = [disk EXCEPT ![cur].kind = "final"]
      <4>1. [disk EXCEPT ![cur].kind = "final"] \in [Names -> File]
        BY <1>0, <3>2, ChangeTypes
      <4> QED BY <3>2, <4>1
    <3> QED BY <1>2, <1>7, <3>1, <3>2 DEF Replace
  <2> QED BY <1>0, <1>2, <2>1, <2>2 DEF Replace, TypeOK, File
<1>3. CASE WriteManifest /\ UNCHANGED <<hour, written>>
  <2>1. /\ queue' \in Seq(Records) /\ Len(queue') <= MaxQueue
        /\ job' \in [step : {"idle", "close", "replace", "manifest", "sync", "open", "write"},
                     rec : Records \cup {0}]
    <3>1. CASE JobFails
      BY <1>0, <3>1, JobFailsQueue DEF Idle
    <3>2. CASE job' = [job EXCEPT !.step = "sync"] /\ queue' = queue
      BY <1>0, <3>2 DEF TypeOK
    <3> QED BY <1>3, <3>1, <3>2 DEF WriteManifest
  <2>2. disk' \in [Names -> File]
    <3>1. CASE disk' = disk
      BY <1>7, <3>1
    <3>2. CASE cur \in Names /\ disk' = [disk EXCEPT ![cur].manifest = hash]
      <4>1. hash \in Frames
        BY <1>0 DEF TypeOK
      <4>2. [disk EXCEPT ![cur].manifest = hash] \in [Names -> File]
        BY <1>0, <3>2, <4>1, ChangeTypes
      <4> QED BY <3>2, <4>2
    <3> QED BY <1>3, <1>7, <3>1, <3>2 DEF WriteManifest
  <2> QED BY <1>0, <1>3, <2>1, <2>2 DEF WriteManifest, TypeOK, File
<1>4. CASE SyncDir /\ UNCHANGED <<hour, written>>
  <2>1. /\ queue' \in Seq(Records) /\ Len(queue') <= MaxQueue
        /\ job' \in [step : {"idle", "close", "replace", "manifest", "sync", "open", "write"},
                     rec : Records \cup {0}]
    BY <1>0, <1>4, JobFailsQueue DEF SyncDir, TypeOK, Idle
  <2> QED BY <1>0, <1>4, <2>1 DEF SyncDir, TypeOK
<1>5. CASE OpenFile /\ UNCHANGED written
  <2>1. /\ queue' \in Seq(Records) /\ Len(queue') <= MaxQueue
        /\ job' \in [step : {"idle", "close", "replace", "manifest", "sync", "open", "write"},
                     rec : Records \cup {0}]
    BY <1>0, <1>5, JobFailsQueue DEF OpenFile, TypeOK, Idle
  <2>2. [NoFile EXCEPT !.kind = "partial"] \in File
    BY <1>0 DEF NoFile, File
  <2>3. stamp[job.rec] \in 0..MaxPeriods
    <3>1. job.rec \in 1..Len(stamp)
      BY <1>0, <1>5 DEF OpenFile, Writer, Known, Pending
    <3> QED BY <1>0, <3>1, ElementOfSeq DEF TypeOK
  <2>4. /\ hour' \in [Names -> (0..MaxPeriods) \cup {None}]
        /\ hash' \in Frames /\ fh' \in {"none", "open", "closed"}
    BY <1>0, <1>5, <2>3 DEF OpenFile, TypeOK
  <2>6. disk' \in [Names -> File]
    <3>1. CASE disk' = disk
      BY <1>7, <3>1
    <3> DEFINE file == [NoFile EXCEPT !.kind = "partial"]
    <3>2. CASE NewName \in Names /\ disk' = [disk EXCEPT ![NewName] = file]
      <4> HIDE DEF file
      <4>1. file \in File
        BY <2>2 DEF file
      <4>2. [disk EXCEPT ![NewName] = file] \in [Names -> File]
        BY <1>0, <3>2, <4>1, ChangeTypes
      <4> QED BY <3>2, <4>2
    <3>3. Names \ Used # {} => NewName \in Names
      BY <1>0, FirstFree DEF SInv, Order, Work
    <3> QED BY <1>5, <3>1, <3>2, <3>3 DEF OpenFile
  <2>5. cur' \in Names \cup {None}
    BY <1>0, <1>5, FirstFree DEF OpenFile, TypeOK, SInv, Order
  <2> QED BY <1>0, <1>5, <2>1, <2>4, <2>5, <2>6 DEF TypeOK, File
<1>6. CASE WriteFrame /\ UNCHANGED hour
  <2>1. /\ queue' \in Seq(Records) /\ Len(queue') <= MaxQueue
        /\ job' \in [step : {"idle", "close", "replace", "manifest", "sync", "open", "write"},
                     rec : Records \cup {0}]
    BY <1>0, <1>6, JobFailsQueue DEF WriteFrame, TypeOK, Idle
  <2>2. job.rec \in Records /\ cur \in Names
    BY <1>0, <1>6 DEF WriteFrame, Writer, TypeOK
  <2>3. disk' \in [Names -> File]
    <3>1. CASE disk' = disk
      BY <1>0, <3>1 DEF TypeOK, File
    <3>2. CASE \E x \in Records \cup {TORN} : disk' = [disk EXCEPT ![cur].frames = Append(@, x)]
      BY <1>0, <2>2, <3>2, AppendTypes
    <3>3. ASSUME NEW d \in Damage
          PROVE  (IF d = "torn" THEN TORN ELSE job.rec) \in Records \cup {TORN}
      BY <2>2
    <3>4. disk' = disk \/ \E x \in Records \cup {TORN} : disk' = [disk EXCEPT ![cur].frames = Append(@, x)]
      BY <1>6, <2>2, <3>3 DEF WriteFrame
    <3> QED BY <3>1, <3>2, <3>4
  <2>4. hash' \in Frames
    <3>1. hash \in Frames /\ Append(hash, job.rec) \in Frames
      BY <1>0, <2>2, AppendProperties DEF TypeOK, Frames
    <3> QED BY <1>6, <3>1 DEF WriteFrame
  <2>5. written' \subseteq Records
    BY <1>0, <1>6, <2>2 DEF WriteFrame, TypeOK
  <2> QED BY <1>0, <1>6, <2>1, <2>3, <2>4, <2>5 DEF WriteFrame, TypeOK, File
<1> QED BY <1>1, <1>2, <1>3, <1>4, <1>5, <1>6 DEF WriterStep

LEMMA LoopTypes ==
  ASSUME SegmentsAssumption, SInv, append \/ NextPeriod \/ FlushFrame \/ FlushFinalizes
  PROVE  TypeOK'
<1> USE SegmentsAssumption
<1>0. TypeOK /\ Known
  BY DEF SInv, Order, Work
<1>1. CASE append
  <2>1. stamp' \in Seq(0..MaxPeriods)
    BY <1>0, <1>1, AppendProperties DEF append, TypeOK
  <2>2. Len(stamp) + 1 \in Records
    <3>1. Len(stamp) \in Nat
      BY <1>0, LenProperties DEF TypeOK
    <3> QED BY <1>1, <3>1 DEF append, Records, SegmentsAssumption
  <2>3. Append(queue, Len(stamp) + 1) \in Seq(Records)
    BY <1>0, <2>2, AppendProperties DEF TypeOK
  <2>4. queue' \in Seq(Records) /\ Len(queue') <= MaxQueue
    BY <1>1, <2>3, TrimKeeps DEF append
  <2> QED BY <1>0, <1>1, <2>1, <2>4 DEF append, TypeOK
<1>2. CASE NextPeriod
  <2>1. period' \in 0..MaxPeriods
    BY <1>0, <1>2 DEF NextPeriod, TypeOK, SegmentsAssumption
  <2> QED BY <1>0, <1>2, <2>1 DEF NextPeriod, TypeOK, memory
<1>3. CASE FlushFrame
  <2>1. /\ Head(queue) \in Records /\ Tail(queue) \in Seq(Records)
        /\ Len(Tail(queue)) = Len(queue) - 1 /\ Len(queue) \in Nat
    BY <1>0, <1>3, HeadTailProperties, LenProperties DEF TypeOK, FlushFrame
  <2>2. queue' \in Seq(Records) /\ Len(queue') <= MaxQueue
    <3>1. queue' = Tail(queue) /\ Len(queue) <= MaxQueue /\ MaxQueue \in Nat
      BY <1>0, <1>3 DEF FlushFrame, TypeOK, SegmentsAssumption
    <3> QED BY <2>1, <3>1
  <2>3. job' \in [step : {"idle", "close", "replace", "manifest", "sync", "open", "write"},
                 rec : Records \cup {0}]
    BY <1>3, <2>1 DEF FlushFrame, StepFor
  <2> QED BY <1>0, <1>3, <2>2, <2>3 DEF FlushFrame, TypeOK
<1>4. CASE FlushFinalizes
  <2>1. job' \in [step : {"idle", "close", "replace", "manifest", "sync", "open", "write"},
                 rec : Records \cup {0}]
    BY <1>4 DEF FlushFinalizes
  <2> QED BY <1>0, <1>4, <2>1 DEF FlushFinalizes, TypeOK
<1> QED BY <1>1, <1>2, <1>3, <1>4

LEMMA UploaderTypes ==
  ASSUME SegmentsAssumption, SInv, UploaderStep
  PROVE  TypeOK'
<1> USE SegmentsAssumption
<1>0. /\ TypeOK /\ Uploads /\ disk \in [Names -> File]
      /\ UNCHANGED <<period, stamp, queue, fh, cur, hash, job, hour, recovery, running, written>>
  BY DEF SInv, Work, UploaderStep, memory, TypeOK, File
<1>1. CASE UploadSegment
  <2>1. disk[up.file].frames \in Frames /\ up.file \in Names
    BY <1>0, <1>1 DEF UploadSegment, Uploads, TypeOK
  <2>2. remote' \in [Names -> [frames : Frames \cup {None}, manifest : BOOLEAN]]
    <3>0. remote[up.file] \in [frames : Frames \cup {None}, manifest : BOOLEAN]
      BY <1>0, <2>1 DEF TypeOK
    <3>1. [remote[up.file] EXCEPT !.frames = disk[up.file].frames] \in [frames : Frames \cup {None}, manifest : BOOLEAN]
      BY <2>1, <3>0
    <3>2. CASE remote' = [remote EXCEPT ![up.file].frames = disk[up.file].frames]
      BY <1>0, <2>1, <3>1, <3>2 DEF TypeOK
    <3>3. CASE remote' = remote
      BY <1>0, <3>3 DEF TypeOK
    <3> QED BY <1>1, <3>2, <3>3 DEF UploadSegment
  <2>3. up' \in [step : {"idle", "segment", "manifest", "marker"}, file : Names \cup {None}]
    BY <1>0, <1>1 DEF UploadSegment, TypeOK, NoUp
  <2> QED BY <1>0, <1>1, <2>2, <2>3 DEF UploadSegment, TypeOK
<1>2. CASE UploadManifest
  <2>1. up.file \in Names
    BY <1>0, <1>2 DEF UploadManifest, Uploads
  <2>2. remote' \in [Names -> [frames : Frames \cup {None}, manifest : BOOLEAN]]
    <3>0. remote[up.file] \in [frames : Frames \cup {None}, manifest : BOOLEAN]
      BY <1>0, <2>1 DEF TypeOK
    <3>1. [remote[up.file] EXCEPT !.manifest = TRUE] \in [frames : Frames \cup {None}, manifest : BOOLEAN]
      BY <2>1, <3>0
    <3>2. CASE remote' = [remote EXCEPT ![up.file].manifest = TRUE]
      BY <1>0, <2>1, <3>1, <3>2 DEF TypeOK
    <3>3. CASE remote' = remote
      BY <1>0, <3>3 DEF TypeOK
    <3> QED BY <1>2, <3>2, <3>3 DEF UploadManifest
  <2>3. up' \in [step : {"idle", "segment", "manifest", "marker"}, file : Names \cup {None}]
    BY <1>0, <1>2 DEF UploadManifest, TypeOK, NoUp
  <2> QED BY <1>0, <1>2, <2>2, <2>3 DEF UploadManifest, TypeOK
<1>3. CASE Mark
  <2>1. up.file \in Names
    BY <1>0, <1>3 DEF Mark, Uploads
  <2>2. [disk EXCEPT ![up.file].marker = TRUE] \in [Names -> File]
    BY <1>0, <2>1, ChangeTypes
  <2>3. disk' \in [Names -> File]
    BY <1>0, <1>3, <2>2 DEF Mark
  <2> QED BY <1>0, <1>3, <2>3 DEF Mark, TypeOK, NoUp, File
<1>4. ASSUME NEW f \in Names, Pick(f)
      PROVE  TypeOK'
  BY <1>0, <1>4 DEF Pick, TypeOK
<1>5. ASSUME NEW f \in Names, Retire(f)
      PROVE  TypeOK'
  <2>1. [disk EXCEPT ![f].kind = "gone"] \in [Names -> File]
    BY <1>0, ChangeTypes
  <2>2. disk' \in [Names -> File]
    BY <1>5, <2>1 DEF Retire
  <2> QED BY <1>0, <1>5, <2>2 DEF Retire, TypeOK, File
<1> QED BY <1>1, <1>2, <1>3, <1>4, <1>5 DEF UploaderStep

LEMMA CrashTypes ==
  ASSUME SegmentsAssumption, SInv, Crash
  PROVE  TypeOK'
<1>0. TypeOK /\ Writer /\ disk \in [Names -> File] /\ job.rec \in Records \cup {0}
  BY DEF SInv, Order, Work, TypeOK, File
<1>1. disk' \in [Names -> File]
  <2>1. CASE disk' = disk
    BY <1>0, <2>1
  <2>2. ASSUME job.step = "write" /\ fh = "open", NEW frame \in {TORN, job.rec},
               disk' = [disk EXCEPT ![cur].frames = Append(@, frame)]
        PROVE  disk' \in [Names -> File]
    <3>1. cur \in Names /\ frame \in Records \cup {TORN}
      BY <1>0, <2>2 DEF Writer, TypeOK, TORN
    <3> QED BY <1>0, <2>2, <3>1, AppendTypes
  <2> QED BY <2>1, <2>2 DEF Crash
<1>2. <<>> \in Frames /\ <<>> \in Seq(Records) /\ Len(<<>>) = 0
  BY EmptySeq DEF Frames
<1>3. /\ queue' \in Seq(Records) /\ Len(queue') <= MaxQueue
      /\ fh' = "none" /\ cur' = None /\ hash' \in Frames
      /\ job' = Idle /\ up' = NoUp /\ recovery' = None /\ running' = FALSE
      /\ UNCHANGED <<period, stamp, hour, remote, written>>
  BY <1>2 DEF Crash, SegmentsAssumption
<1> QED BY <1>0, <1>1, <1>3 DEF TypeOK, File, Idle, NoUp

LEMMA RecoveryTypes ==
  ASSUME SegmentsAssumption, SInv, RecoveryStep
  PROVE  TypeOK'
<1>0. /\ TypeOK /\ disk \in [Names -> File] /\ TornLast
      /\ UNCHANGED <<period, stamp, queue, fh, cur, hash, job, hour, remote, up, written>>
  BY DEF SInv, Order, Work, TypeOK, File, RecoveryStep, memory
<1>1. \A f \in Names : Readable(disk[f].frames) \in Frames
  <2> TAKE f \in Names
  <2>1. \A i \in 1..Len(disk[f].frames) : disk[f].frames[i] = TORN => i = Len(disk[f].frames)
    BY <1>0 DEF TornLast, FrameAt, Places
  <2> QED BY <1>0, <2>1, FileParts, ReadablePart
<1>2. disk' \in [Names -> File] /\ recovery' \in Names \cup {None}
  <2>1. CASE RecoverFile
    <3>1. PICK f \in Names :
             \/ disk' = [disk EXCEPT ![f] = NoFile] /\ recovery' = recovery
             \/ /\ disk' = [disk EXCEPT ![f].frames = Readable(disk[f].frames), ![f].kind = "final"]
                /\ recovery' = f
      BY <2>1 DEF RecoverFile, Partial
    <3>2. NoFile \in File
      BY EmptySeq DEF NoFile, File, Frames
    <3>3. CASE disk' = [disk EXCEPT ![f] = NoFile] /\ recovery' = recovery
      BY <1>0, <3>2, <3>3 DEF TypeOK
    <3>4. CASE /\ disk' = [disk EXCEPT ![f].frames = Readable(disk[f].frames), ![f].kind = "final"]
               /\ recovery' = f
      <4>1. Readable(disk[f].frames) \in Frames
        BY <1>1
      <4> DEFINE frames == Readable(disk[f].frames)
      <4> HIDE DEF frames
      <4>2. [[disk[f] EXCEPT !.frames = frames] EXCEPT !.kind = "final"] \in File
        BY <1>0, <4>1 DEF File, frames
      <4>3. disk' = [disk EXCEPT ![f] = [[disk[f] EXCEPT !.frames = frames] EXCEPT !.kind = "final"]]
        BY <1>0, <3>4 DEF File, frames
      <4> QED BY <1>0, <3>4, <4>2, <4>3
    <3> QED BY <3>1, <3>3, <3>4
  <2>2. CASE RecoverManifest
    <3>1. recovery \in Names /\ recovery' = None
      BY <1>0, <2>2 DEF RecoverManifest, TypeOK
    <3>2. [disk EXCEPT ![recovery].manifest = Readable(disk[recovery].frames)] \in [Names -> File]
      BY <1>0, <1>1, <3>1, ChangeTypes
    <3> QED BY <2>2, <3>1, <3>2 DEF RecoverManifest
  <2>3. CASE Recovered
    BY <1>0, <2>3 DEF Recovered, TypeOK
  <2> QED BY <2>1, <2>2, <2>3 DEF RecoveryStep
<1>3. running' \in BOOLEAN
  BY <1>0 DEF RecoveryStep, RecoverFile, RecoverManifest, Recovered, TypeOK
<1> QED BY <1>0, <1>2, <1>3 DEF TypeOK, File

-----------------------------------------------------------------------------
(* Records and their order.                                                *)

(* What is known of the values of frames and records.                      *)
LEMMA Numbers ==
  ASSUME SegmentsAssumption, SInv
  PROVE  /\ Len(queue) \in Nat /\ Len(stamp) \in Nat /\ job.rec \in Nat /\ job.rec <= Len(stamp)
         /\ \A i \in 1..Len(queue) : queue[i] \in Pending /\ queue[i] \in Nat \ {0}
         /\ Pending \subseteq Nat \ {0}
         /\ \A f \in Names : /\ Len(disk[f].frames) \in Nat
                             /\ \A i \in Places(f) : FrameAt(f, i) \in Nat
         /\ Names \subseteq Nat
<1>1. TypeOK /\ Known
  BY DEF SInv, Order
<1>2. Len(queue) \in Nat /\ Len(stamp) \in Nat
  BY <1>1, LenProperties DEF TypeOK
<1>3. \A f \in Names : Len(disk[f].frames) \in Nat
  BY <1>1, FileParts, LenProperties DEF Frames
<1>4. Pending \subseteq 1..Len(stamp)
  BY <1>1 DEF Known
<1>5. job.rec \in Records \cup {0}
  BY <1>1 DEF TypeOK
<1>6. job.rec = 0 \/ job.rec \in Pending
  BY DEF Pending
<1>7. \A i \in 1..Len(queue) : queue[i] \in Pending
  BY DEF Pending
<1>8. \A f \in Names : \A i \in Places(f) : FrameAt(f, i) \in 0..Len(stamp)
  BY <1>1 DEF Known
<1>9. job.rec \in Nat /\ job.rec <= Len(stamp)
  <2>1. job.rec = 0 \/ job.rec \in 1..Len(stamp)
    BY <1>4, <1>6
  <2> QED BY <1>2, <2>1
<1>10. Pending \subseteq Nat \ {0}
  BY <1>2, <1>4
<1>11. \A f \in Names : \A i \in Places(f) : FrameAt(f, i) \in Nat
  BY <1>2, <1>8
<1>12. Names \subseteq Nat
  BY DEF Names
<1> QED BY <1>2, <1>3, <1>7, <1>9, <1>10, <1>11, <1>12

(* A step that moves no frame and takes no new record keeps the order.     *)
LEMMA OrderFrame ==
  ASSUME SegmentsAssumption, SInv,
         stamp' = stamp, hour' = hour, cur' \in {cur, None}, written' = written,
         \A f \in Names : /\ disk'[f].frames = disk[f].frames
                          /\ disk'[f].kind = "none" <=> disk[f].kind = "none",
         Pending' \subseteq Pending, Increasing(queue'),
         \A j \in 1..Len(queue') : job'.rec < queue'[j]
  PROVE  Order'
<1>0. Order
  BY DEF SInv
<1>1. Known'
  BY <1>0 DEF Order, Known, FrameAt, Places
<1>2. NamesInOrder'
  <2>1. Used' = Used
    BY DEF Used
  <2> QED BY <1>0, <2>1 DEF Order, NamesInOrder
<1>3. Sorted'
  BY <1>0 DEF Order, Sorted, FrameAt, Places
<1>4. InOrder'
  BY <1>0 DEF Order, InOrder
<1>5. OwnHour'
  BY <1>0 DEF Order, OwnHour
<1>6. Kept'
  BY <1>0 DEF Order, Kept, FrameAt, Places
<1> QED BY <1>1, <1>2, <1>3, <1>4, <1>5, <1>6 DEF Order

(* The queue and the writer's record stay as they are, or the writer drops *)
(* its record, or gives it back.                                           *)
LEMMA WorkFrame ==
  ASSUME SegmentsAssumption, SInv,
         \/ JobFails
         \/ queue' = queue /\ job'.rec \in {0, job.rec}
         \/ queue' = <<>> /\ job'.rec = 0
  PROVE  /\ Pending' \subseteq Pending /\ Increasing(queue')
         /\ \A j \in 1..Len(queue') : job'.rec < queue'[j]
<1>0. TypeOK /\ Sorted /\ Pending \subseteq Nat \ {0}
  BY Numbers DEF SInv, Order
<1>1. CASE JobFails
  <2>1. /\ job' = Idle /\ \A i \in 1..Len(queue') : queue'[i] \in Pending
        /\ Increasing(queue')
    BY <1>0, <1>1, JobFailsQueue DEF Sorted
  <2>2. job'.rec = 0
    BY <2>1 DEF Idle
  <2>3. \A j \in 1..Len(queue') : job'.rec < queue'[j]
    <3> TAKE j \in 1..Len(queue')
    <3>1. queue'[j] \in Nat \ {0}
      BY <1>0, <2>1
    <3> QED BY <2>2, <3>1
  <2>4. Pending' \subseteq Pending
    <3>1. Pending' = {queue'[i] : i \in 1..Len(queue')}
      BY <2>2 DEF Pending
    <3> QED BY <2>1, <3>1
  <2> QED BY <2>1, <2>3, <2>4
<1>2. CASE queue' = queue /\ job'.rec \in {0, job.rec}
  BY <1>0, <1>2, Numbers DEF Sorted, Pending
<1>3. CASE queue' = <<>> /\ job'.rec = 0
  <2>1. 1..Len(queue') = {}
    BY <1>3
  <2> QED BY <1>3, <2>1 DEF Pending, Increasing
<1> QED BY <1>1, <1>2, <1>3

(* A record that arrives is newer than all others.                         *)
LEMMA AppendOrder ==
  ASSUME SegmentsAssumption, SInv, append
  PROVE  Order'
<1> DEFINE r == Len(stamp) + 1
           q == Append(queue, r)
<1>0. /\ TypeOK /\ Known /\ NamesInOrder /\ Sorted /\ InOrder /\ OwnHour /\ Kept
      /\ UNCHANGED <<cur, job, disk, hour, written>>
      /\ Pending \subseteq 1..Len(stamp)
  BY DEF SInv, Order, Known, append
<1>1. /\ stamp' = Append(stamp, period) /\ Len(stamp') = r /\ Len(stamp) \in Nat
      /\ \A i \in 1..Len(stamp) : stamp'[i] = stamp[i]
  BY <1>0, AppendProperties, LenProperties DEF append, TypeOK
<1>2. r \in Records
  BY <1>1 DEF append, Records, SegmentsAssumption
<1>3. /\ q \in Seq(Records) /\ Len(q) = Len(queue) + 1 /\ Len(queue) \in Nat
      /\ \A i \in 1..Len(queue) : q[i] = queue[i]
      /\ q[Len(queue) + 1] = r
  BY <1>0, <1>2, AppendProperties, LenProperties DEF TypeOK
<1>4. queue' = Trim(q)
  BY DEF append
<1> HIDE DEF q
<1>5. \A i \in 1..Len(q) : q[i] \in Pending \/ q[i] = r
  <2> TAKE i \in 1..Len(q)
  <2>1. i \in 1..Len(queue) \/ i = Len(queue) + 1
    BY <1>3
  <2> QED BY <1>3, <2>1 DEF Pending
<1>6. \A i \in 1..Len(queue) : queue[i] \in Pending /\ queue[i] \in 1..Len(stamp)
  BY <1>0 DEF Pending
<1>7. Increasing(q)
  <2> SUFFICES ASSUME NEW i \in 1..Len(q), NEW j \in 1..Len(q), i < j
               PROVE  q[i] < q[j]
    BY DEF Increasing
  <2>1. i \in 1..Len(queue) /\ q[i] = queue[i]
    BY <1>3
  <2>2. CASE j \in 1..Len(queue)
    BY <1>0, <1>3, <2>1, <2>2 DEF Sorted, Increasing
  <2>3. CASE j = Len(queue) + 1
    BY <1>1, <1>3, <1>6, <2>1, <2>3
  <2> QED BY <1>3, <2>2, <2>3
<1>8. /\ \E k \in Nat : \A i \in 1..Len(Trim(q)) : i + k \in 1..Len(q) /\ Trim(q)[i] = q[i + k]
      /\ Increasing(Trim(q))
  <2>1. q \in Seq(Int)
    <3>1. Records \subseteq Int
      BY DEF Records
    <3> QED BY <1>3, <3>1, SeqMonotonic
  <2> QED BY <1>7, <2>1, TrimKeeps, TrimIncreasing
<1>9. \A i \in 1..Len(queue') : queue'[i] \in Pending \/ queue'[i] = r
  BY <1>4, <1>5, <1>8
<1>10. \A p \in Pending' : p \in Pending \/ p = r
  BY <1>0, <1>9 DEF Pending
<1>11. Known'
  <2>1. Pending' \subseteq 1..Len(stamp')
    <3> SUFFICES ASSUME NEW p \in Pending' PROVE p \in 1..Len(stamp')
      OBVIOUS
    <3>1. p \in 1..Len(stamp) \/ p = r
      BY <1>0, <1>10
    <3>2. Len(stamp) \in Nat /\ Len(stamp') = Len(stamp) + 1
      BY <1>1
    <3> QED BY <3>1, <3>2
  <2>2. ASSUME NEW f \in Names, NEW i \in Places(f)'
        PROVE  FrameAt(f, i)' \in 0..Len(stamp')
    <3>1. FrameAt(f, i)' = FrameAt(f, i) /\ i \in Places(f)
      BY <1>0, <2>2 DEF FrameAt, Places
    <3> QED BY <1>0, <1>1, <3>1 DEF Known
  <2> QED BY <2>1, <2>2 DEF Known
<1>12. NamesInOrder'
  BY <1>0 DEF NamesInOrder, Used
<1>13. Sorted'
  <2>1. \A j \in 1..Len(queue') : job'.rec < queue'[j]
    <3>1. ASSUME NEW j \in 1..Len(queue') PROVE job.rec < queue'[j]
      <4>1. PICK i \in 1..Len(q) : queue'[j] = q[i]
        BY <1>4, <1>8
      <4>2. CASE i \in 1..Len(queue)
        BY <1>0, <1>3, <4>1, <4>2 DEF Sorted
      <4>3. CASE i = Len(queue) + 1
        BY <1>1, <1>3, <4>1, <4>3, Numbers
      <4> QED BY <1>3, <4>2, <4>3
    <3> QED BY <1>0, <3>1
  <2>2. ASSUME NEW f \in Names, NEW i \in Places(f)', NEW p \in Pending'
        PROVE  FrameAt(f, i)' < p
    <3>1. FrameAt(f, i)' = FrameAt(f, i) /\ i \in Places(f)
      BY <1>0, <2>2 DEF FrameAt, Places
    <3>2. FrameAt(f, i) \in 0..Len(stamp)
      BY <1>0, <3>1 DEF Known
    <3>3. CASE p \in Pending
      BY <1>0, <3>1, <3>3 DEF Sorted
    <3>4. CASE p = r
      BY <1>1, <3>1, <3>2, <3>4
    <3> QED BY <1>10, <2>2, <3>3, <3>4
  <2> QED BY <1>4, <1>8, <2>1, <2>2 DEF Sorted
<1>14. InOrder' /\ Kept'
  BY <1>0 DEF InOrder, Kept, FrameAt, Places
<1>15. OwnHour'
  <2>1. ASSUME NEW f \in Names, NEW i \in 1..Len(disk[f].frames), disk[f].frames[i] # TORN
        PROVE  stamp'[disk[f].frames[i]] = hour[f]
    <3>1. disk[f].frames[i] \in 1..Len(stamp)
      BY <1>0, <1>1, <2>1 DEF Known, FrameAt, Places, TORN
    <3> QED BY <1>0, <1>1, <2>1, <3>1 DEF OwnHour
  <2> QED BY <1>0, <2>1 DEF OwnHour
<1> QED BY <1>11, <1>12, <1>13, <1>14, <1>15 DEF Order

(* The writer takes the oldest of the queue.                               *)
LEMMA FlushOrder ==
  ASSUME SegmentsAssumption, SInv, FlushFrame
  PROVE  Order'
<1>0. /\ queue \in Seq(Records) /\ queue # <<>> /\ Sorted
      /\ UNCHANGED <<stamp, hour, cur, written, disk>>
  BY DEF SInv, Order, TypeOK, FlushFrame
<1>1. /\ queue' = Tail(queue) /\ job'.rec = Head(queue) /\ Head(queue) = queue[1]
      /\ Len(queue') = Len(queue) - 1 /\ Len(queue) \in Nat \ {0}
      /\ \A i \in 1..Len(queue') : queue'[i] = queue[i + 1]
  BY <1>0, HeadTailProperties, LenProperties, EmptySeq DEF FlushFrame
<1>2. \A i \in 1..Len(queue') : i + 1 \in 1..Len(queue)
  BY <1>1
<1>3. Pending' \subseteq Pending
  BY <1>1, <1>2 DEF Pending
<1>4. Increasing(queue') /\ \A j \in 1..Len(queue') : job'.rec < queue'[j]
  BY <1>0, <1>1, <1>2 DEF Sorted, Increasing
<1> QED BY <1>0, <1>3, <1>4, OrderFrame

(* A new file is empty and comes after all others.                         *)
LEMMA OpenOrder ==
  ASSUME SegmentsAssumption, SInv, Names \ Used # {},
         disk' = [disk EXCEPT ![NewName] = [NoFile EXCEPT !.kind = "partial"]],
         hour' = [hour EXCEPT ![NewName] = stamp[job.rec]],
         cur' = NewName, job.rec # 0, job' = [job EXCEPT !.step = "write"],
         queue' = queue, stamp' = stamp, written' = written
  PROVE  Order'
<1>0. /\ TypeOK /\ Known /\ NamesInOrder /\ Sorted /\ InOrder /\ OwnHour /\ Kept /\ FilesAreTrue
      /\ NewName \in Names /\ NewName \notin Used /\ \A g \in Used : g < NewName
      /\ Names \subseteq Nat
  BY FirstFree, Numbers DEF SInv, Order, Work
<1>1. /\ disk' = [f \in Names |-> IF f = NewName THEN [NoFile EXCEPT !.kind = "partial"] ELSE disk[f]]
      /\ \A f \in Names : f # NewName => hour'[f] = hour[f]
      /\ job'.rec = job.rec
  BY <1>0 DEF TypeOK
<1>2. \A f \in Names : disk'[f].frames = disk[f].frames
  <2>1. disk[NewName].frames = <<>>
    BY <1>0 DEF Used, FilesAreTrue, FileIsTrue
  <2> QED BY <1>0, <1>1, <2>1 DEF NoFile
<1>3. Pending' = Pending
  BY <1>1 DEF Pending
<1>4. Known' /\ Sorted' /\ InOrder' /\ Kept'
  <2>1. Known'
    BY <1>0, <1>2, <1>3 DEF Known, FrameAt, Places
  <2>2. Sorted'
    BY <1>0, <1>1, <1>2, <1>3 DEF Sorted, FrameAt, Places
  <2>3. InOrder'
    BY <1>0, <1>2 DEF InOrder
  <2>4. Kept'
    BY <1>0, <1>2 DEF Kept, FrameAt, Places
  <2> QED BY <2>1, <2>2, <2>3, <2>4
<1>5. NamesInOrder'
  <2>1. Used' = Used \cup {NewName}
    BY <1>0, <1>1 DEF Used, NoFile
  <2>2. ASSUME NEW f \in Used', NEW g \in Names, g < f
        PROVE  g \in Used'
    <3>1. CASE f \in Used
      BY <1>0, <2>1, <2>2, <3>1 DEF NamesInOrder
    <3>2. CASE f = NewName
      <4>1. ~ (NewName <= g)
        BY <1>0, <2>2, <3>2
      <4>2. g \in Used
        <5>1. SUFFICES ASSUME g \in Names \ Used PROVE FALSE
          BY <2>2
        <5>2. NewName <= g
          BY <1>0, <5>1, FirstFree
        <5> QED BY <4>1, <5>2
      <4> QED BY <2>1, <4>2
    <3> QED BY <2>1, <2>2, <3>1, <3>2
  <2>3. cur' \in Used' /\ \A f \in Used' : f <= cur'
    BY <1>0, <2>1 DEF Used
  <2>4. \A f \in Names : disk'[f].kind # "none" => hour'[f] # None
    <3>1. stamp[job.rec] # None
      <4>1. job.rec \in 1..Len(stamp)
        BY <1>0 DEF Known, Pending
      <4>2. stamp[job.rec] \in 0..MaxPeriods
        BY <1>0, <4>1, ElementOfSeq DEF TypeOK
      <4> QED BY <4>2 DEF SegmentsAssumption
    <3>2. hour'[NewName] = stamp[job.rec]
      BY <1>0 DEF TypeOK
    <3> QED BY <1>0, <1>1, <3>1, <3>2 DEF NamesInOrder
  <2> QED BY <2>2, <2>3, <2>4 DEF NamesInOrder
<1>6. OwnHour'
  <2> SUFFICES ASSUME NEW f \in Names, NEW i \in 1..Len(disk[f].frames), disk[f].frames[i] # TORN
               PROVE  stamp[disk[f].frames[i]] = hour'[f]
    BY <1>2 DEF OwnHour
  <2>1. f # NewName
    <3>1. disk[NewName].frames = <<>>
      BY <1>0 DEF Used, FilesAreTrue, FileIsTrue
    <3> QED BY <3>1
  <2> QED BY <1>0, <1>1, <2>1 DEF OwnHour
<1> QED BY <1>4, <1>5, <1>6 DEF Order

(* A frame that is added, whole or torn, is the last of the last file.     *)
LEMMA AddOrder ==
  ASSUME SegmentsAssumption, SInv, NEW x \in {TORN, job.rec},
         job.rec # 0, cur \in Names, hour[cur] = stamp[job.rec],
         disk' = [disk EXCEPT ![cur].frames = Append(@, x)],
         cur' \in {cur, None}, queue' \in {queue, <<>>}, job' = Idle,
         stamp' = stamp, hour' = hour,
         written' = written \/ (x = job.rec /\ written' = written \cup {job.rec})
  PROVE  Order'
<1> DEFINE n == Len(disk[cur].frames) + 1
<1>0. /\ TypeOK /\ Known /\ NamesInOrder /\ Sorted /\ InOrder /\ OwnHour /\ Kept /\ FilesAreTrue
      /\ Names \subseteq Nat /\ x \in Nat /\ TORN = 0
      /\ cur # None /\ n \in Nat /\ n = Len(disk[cur].frames) + 1 /\ Len(disk[cur].frames) \in Nat
      /\ disk[cur].frames \in Frames /\ x \in Records \cup {TORN}
  <2>1. cur # None
    BY DEF SegmentsAssumption, Names
  <2>2. job.rec \in Records
    BY DEF SInv, TypeOK
  <2> QED BY <2>1, <2>2, Numbers, FileParts DEF SInv, Order, Work, TORN
<1>1. /\ \A f \in Names \ {cur} : disk'[f] = disk[f]
      /\ disk'[cur].frames = Append(disk[cur].frames, x) /\ disk'[cur].kind = disk[cur].kind
  BY <1>0 DEF TypeOK
<1>2. /\ Len(disk'[cur].frames) = n /\ disk'[cur].frames[n] = x
      /\ \A i \in 1..Len(disk[cur].frames) : disk'[cur].frames[i] = disk[cur].frames[i]
  BY <1>0, <1>1, AppendProperties DEF Frames
<1> HIDE DEF n
(* Every frame is an old one or the new one.                               *)
<1>3. \A f \in Names : \A i \in 1..Len(disk'[f].frames) :
        \/ i \in 1..Len(disk[f].frames) /\ disk'[f].frames[i] = disk[f].frames[i]
        \/ f = cur /\ i = n /\ disk'[f].frames[i] = x
  BY <1>0, <1>1, <1>2
<1>4. \A f \in Names : \A i \in 1..Len(disk[f].frames) :
        i \in 1..Len(disk'[f].frames) /\ disk'[f].frames[i] = disk[f].frames[i]
  BY <1>0, <1>1, <1>2
<1>5. /\ Pending' \subseteq Pending /\ Increasing(queue')
      /\ \A j \in 1..Len(queue') : job'.rec < queue'[j]
  BY WorkFrame DEF Idle
<1>6. \A p \in Pending' : job.rec < p
  <2>1. Pending' = {queue'[i] : i \in 1..Len(queue')}
    BY DEF Pending, Idle
  <2>2. \A i \in 1..Len(queue') : job.rec < queue'[i]
    BY <1>0 DEF Sorted
  <2> QED BY <2>1, <2>2
<1>7. job.rec \in Pending /\ job.rec \in 1..Len(stamp) /\ Pending \subseteq Nat \ {0}
      /\ \A f \in Names : \A i \in 1..Len(disk[f].frames) : disk[f].frames[i] < job.rec
  <2>1. job.rec \in Pending
    BY DEF Pending
  <2> QED BY <1>0, <2>1, Numbers DEF Known, Sorted, FrameAt, Places
<1>8. Known'
  <2>1. Pending' \subseteq 1..Len(stamp')
    BY <1>0, <1>5 DEF Known
  <2>2. ASSUME NEW f \in Names, NEW i \in 1..Len(disk'[f].frames)
        PROVE  disk'[f].frames[i] \in 0..Len(stamp)
    <3>1. x \in 0..Len(stamp)
      BY <1>0, <1>7
    <3> QED BY <1>0, <1>3, <2>2, <3>1 DEF Known, FrameAt, Places
  <2> QED BY <2>1, <2>2 DEF Known, FrameAt, Places
<1>9. NamesInOrder'
  <2>1. Used' = Used
    BY <1>0, <1>1 DEF Used
  <2>2. \A f \in Names : disk'[f].kind # "none" => hour'[f] # None
    BY <1>0, <1>1 DEF NamesInOrder
  <2> QED BY <1>0, <2>1, <2>2 DEF NamesInOrder
<1>10. Sorted'
  <2>1. ASSUME NEW f \in Names, NEW i \in 1..Len(disk'[f].frames), NEW p \in Pending'
        PROVE  disk'[f].frames[i] < p
    <3>1. CASE disk'[f].frames[i] = x
      BY <1>0, <1>5, <1>6, <1>7, <3>1
    <3>2. CASE i \in 1..Len(disk[f].frames) /\ disk'[f].frames[i] = disk[f].frames[i]
      BY <1>0, <1>5, <3>2 DEF Sorted, FrameAt, Places
    <3> QED BY <1>3, <3>1, <3>2
  <2> QED BY <1>5, <2>1 DEF Sorted, FrameAt, Places
<1>11. InOrder'
  <2> SUFFICES ASSUME NEW f \in Names, NEW g \in Names,
                      NEW i \in 1..Len(disk'[f].frames), NEW j \in 1..Len(disk'[g].frames),
                      disk'[f].frames[i] # TORN, disk'[g].frames[j] # TORN,
                      f < g \/ (f = g /\ i < j)
               PROVE  disk'[f].frames[i] < disk'[g].frames[j]
    BY DEF InOrder
  <2>1. CASE f = cur /\ i = n /\ disk'[f].frames[i] = x
    <3>1. CASE g = cur
      BY <1>0, <1>2, <2>1, <3>1
    <3>2. CASE g # cur
      <4>1. j \in 1..Len(disk[g].frames)
        BY <1>3, <3>2
      <4>2. disk[g].frames # <<>>
        BY <4>1
      <4>3. g \in Used
        BY <1>0, <4>2 DEF Used, FilesAreTrue, FileIsTrue
      <4>4. g <= cur
        BY <1>0, <4>3 DEF NamesInOrder
      <4> QED BY <1>0, <2>1, <3>2, <4>4
    <3> QED BY <3>1, <3>2
  <2>2. CASE i \in 1..Len(disk[f].frames) /\ disk'[f].frames[i] = disk[f].frames[i]
    <3>1. CASE disk'[g].frames[j] = x
      BY <1>0, <1>7, <2>2, <3>1
    <3>2. CASE j \in 1..Len(disk[g].frames) /\ disk'[g].frames[j] = disk[g].frames[j]
      BY <1>0, <2>2, <3>2 DEF InOrder
    <3> QED BY <1>3, <3>1, <3>2
  <2> QED BY <1>3, <2>1, <2>2
<1>12. OwnHour'
  <2> SUFFICES ASSUME NEW f \in Names, NEW i \in 1..Len(disk'[f].frames), disk'[f].frames[i] # TORN
               PROVE  stamp[disk'[f].frames[i]] = hour[f]
    BY DEF OwnHour
  <2> QED BY <1>0, <1>3 DEF OwnHour
<1>13. Kept'
  <2> SUFFICES ASSUME NEW r \in written'
               PROVE  r # TORN /\ \E f \in Names : \E i \in 1..Len(disk'[f].frames) : disk'[f].frames[i] = r
    BY DEF Kept, FrameAt, Places
  <2>1. CASE r \in written
    <3>1. r # TORN
      BY <1>0, <2>1 DEF Kept
    <3>2. PICK f \in Names : \E i \in 1..Len(disk[f].frames) : disk[f].frames[i] = r
      BY <1>0, <2>1 DEF Kept, FrameAt, Places
    <3> QED BY <1>4, <3>1, <3>2
  <2>2. CASE x = job.rec /\ r = job.rec
    <3>1. n \in 1..Len(disk'[cur].frames)
      BY <1>0, <1>2
    <3> QED BY <1>0, <1>2, <2>2, <3>1
  <2> QED BY <2>1, <2>2
<1> QED BY <1>8, <1>9, <1>10, <1>11, <1>12, <1>13 DEF Order

(* Recovery removes what is torn and nothing else.                         *)
LEMMA RecoverOrder ==
  ASSUME SegmentsAssumption, SInv, RecoverFile,
         UNCHANGED <<stamp, hour, cur, queue, job, written>>
  PROVE  Order'
<1>0. /\ TypeOK /\ Known /\ NamesInOrder /\ Sorted /\ InOrder /\ OwnHour /\ Kept /\ FilesAreTrue
      /\ TornLast /\ Writer
  BY DEF SInv, Order, Work
<1>1. PICK f \in Names :
         /\ disk[f].kind = "partial"
         /\ \/ disk' = [disk EXCEPT ![f] = NoFile] /\ Readable(disk[f].frames) = <<>>
            \/ disk' = [disk EXCEPT ![f].frames = Readable(disk[f].frames), ![f].kind = "final"]
  BY DEF RecoverFile, Partial
<1>2. /\ \A g \in Names \ {f} : disk'[g] = disk[g]
      /\ disk'[f].frames = Readable(disk[f].frames)
  BY <1>0, <1>1 DEF TypeOK, NoFile
<1>3. /\ Len(Readable(disk[f].frames)) <= Len(disk[f].frames)
      /\ Len(Readable(disk[f].frames)) \in Nat /\ Len(disk[f].frames) \in Nat
      /\ \A i \in 1..Len(Readable(disk[f].frames)) :
           Readable(disk[f].frames)[i] = disk[f].frames[i] /\ disk[f].frames[i] # TORN
      /\ \A i \in 1..Len(disk[f].frames) :
           disk[f].frames[i] # TORN => i <= Len(Readable(disk[f].frames))
  <2>1. disk[f].frames \in Frames
    BY <1>0, FileParts
  <2>2. \A i \in 1..Len(disk[f].frames) : disk[f].frames[i] = TORN => i = Len(disk[f].frames)
    BY <1>0 DEF TornLast, FrameAt, Places
  <2>3. Readable(disk[f].frames) \in Frames
    BY <2>1, <2>2, ReadablePart
  <2>4. Len(Readable(disk[f].frames)) \in Nat /\ Len(disk[f].frames) \in Nat
    BY <2>1, <2>3, LenProperties DEF Frames
  <2> QED BY <2>1, <2>2, <2>4, ReadablePart
<1>4. \A g \in Names : \A i \in 1..Len(disk'[g].frames) :
        i \in 1..Len(disk[g].frames) /\ disk'[g].frames[i] = disk[g].frames[i]
  BY <1>2, <1>3
<1>5. \A g \in Names : \A i \in 1..Len(disk[g].frames) : disk[g].frames[i] # TORN =>
        i \in 1..Len(disk'[g].frames) /\ disk'[g].frames[i] = disk[g].frames[i]
  BY <1>2, <1>3
<1>6. Pending' = Pending
  BY DEF Pending
<1>7. Known'
  BY <1>0, <1>4, <1>6 DEF Known, FrameAt, Places
<1>8. Sorted'
  BY <1>0, <1>4, <1>6 DEF Sorted, FrameAt, Places
<1>9. InOrder'
  <2> SUFFICES ASSUME NEW g \in Names, NEW h \in Names,
                      NEW i \in 1..Len(disk'[g].frames), NEW j \in 1..Len(disk'[h].frames),
                      disk'[g].frames[i] # TORN, disk'[h].frames[j] # TORN,
                      g < h \/ (g = h /\ i < j)
               PROVE  disk'[g].frames[i] < disk'[h].frames[j]
    BY DEF InOrder
  <2>1. i \in 1..Len(disk[g].frames) /\ disk'[g].frames[i] = disk[g].frames[i]
    BY <1>4
  <2>2. j \in 1..Len(disk[h].frames) /\ disk'[h].frames[j] = disk[h].frames[j]
    BY <1>4
  <2> QED BY <1>0, <2>1, <2>2 DEF InOrder
<1>10. OwnHour'
  BY <1>0, <1>4 DEF OwnHour
<1>11. Kept'
  <2> SUFFICES ASSUME NEW r \in written
               PROVE  r # TORN /\ \E g \in Names : \E i \in 1..Len(disk'[g].frames) : disk'[g].frames[i] = r
    BY DEF Kept, FrameAt, Places
  <2>1. r # TORN
    BY <1>0 DEF Kept
  <2>2. PICK g \in Names : \E i \in 1..Len(disk[g].frames) : disk[g].frames[i] = r
    BY <1>0 DEF Kept, FrameAt, Places
  <2> QED BY <1>5, <2>1, <2>2
<1>12. NamesInOrder'
  <2>1. hour[f] # None
    BY <1>0, <1>1 DEF NamesInOrder
  <2>2. Used' = Used
    BY <1>1, <1>2, <2>1 DEF Used
  <2>3. \A g \in Names : disk'[g].kind # "none" => hour[g] # None
    BY <1>0, <1>2, <2>1 DEF NamesInOrder
  <2> QED BY <1>0, <2>2, <2>3 DEF NamesInOrder
<1> QED BY <1>7, <1>8, <1>9, <1>10, <1>11, <1>12 DEF Order

(* All that the writer does.                                               *)
LEMMA WriterOrder ==
  ASSUME CleanFailures, SInv, WriterStep
  PROVE  Order'
<1>0. /\ SegmentsAssumption /\ TypeOK /\ Writer /\ FilesAreTrue
      /\ UNCHANGED <<stamp, hour, written>> \/ OpenFile \/ WriteFrame
      /\ stamp' = stamp
  BY DEF CleanFailures, SInv, Work, WriterStep
<1>1. CASE (Close \/ Replace \/ WriteManifest \/ SyncDir) /\ UNCHANGED <<hour, written>>
  <2>1. cur' \in {cur, None}
    BY <1>1 DEF Close, Replace, WriteManifest, SyncDir
  <2>2. \A f \in Names : /\ disk'[f].frames = disk[f].frames
                         /\ disk'[f].kind = "none" <=> disk[f].kind = "none"
    <3>1. CASE disk' = disk
      BY <3>1
    <3>2. CASE disk[cur].kind = "partial" /\ disk' = [disk EXCEPT ![cur].kind = "final"]
      BY <1>0, <3>2 DEF TypeOK
    <3>3. CASE disk' = [disk EXCEPT ![cur].manifest = hash]
      BY <1>0, <3>3 DEF TypeOK
    <3> QED BY <1>1, <3>1, <3>2, <3>3 DEF Close, Replace, WriteManifest, SyncDir
  <2>3. JobFails \/ (queue' = queue /\ job'.rec \in {0, job.rec})
    BY <1>0, <1>1 DEF Close, Replace, WriteManifest, SyncDir, TypeOK, Idle
  <2> QED BY <1>0, <1>1, <2>1, <2>2, <2>3, WorkFrame, OrderFrame
<1>2. CASE OpenFile /\ UNCHANGED written
  <2>1. CASE JobFails /\ UNCHANGED <<disk, hour, cur, fh, hash>>
    BY <1>0, <1>2, <2>1, WorkFrame, OrderFrame
  <2>2. CASE ~ (JobFails /\ UNCHANGED <<disk, hour, cur, fh, hash>>)
    BY <1>0, <1>2, <2>2, OpenOrder DEF OpenFile, Writer
  <2> QED BY <2>1, <2>2
<1>3. CASE WriteFrame /\ UNCHANGED hour
  <2>1. CASE JobFails /\ UNCHANGED <<disk, written>>
    BY <1>0, <1>3, <2>1, WorkFrame, OrderFrame DEF WriteFrame
  <2>2. CASE ~ (JobFails /\ UNCHANGED <<disk, written>>)
    <3>1. /\ disk' = [disk EXCEPT ![cur].frames = Append(@, job.rec)]
          /\ written' = written \cup {job.rec} /\ job' = Idle /\ queue' = queue /\ cur' = cur
      BY <1>3, <2>2 DEF WriteFrame, CleanFailures
    <3>2. job.rec # 0 /\ cur \in Names /\ hour[cur] = stamp[job.rec]
      BY <1>0, <1>3 DEF WriteFrame, Writer, TypeOK
    <3> QED BY <1>0, <1>3, <3>1, <3>2, AddOrder
  <2> QED BY <2>1, <2>2
<1> QED BY <1>1, <1>2, <1>3 DEF WriterStep

LEMMA OrderStep ==
  ASSUME CleanFailures, SInv, [Next]_vars
  PROVE  Order'
<1>0. SegmentsAssumption /\ TypeOK /\ Writer /\ Uploads
  BY DEF CleanFailures, SInv, Work
<1>1. CASE append
  BY <1>0, <1>1, AppendOrder
<1>2. CASE NextPeriod \/ UNCHANGED vars
  <2>1. UNCHANGED <<stamp, queue, cur, job, disk, hour, written>>
    BY <1>2 DEF NextPeriod, vars, memory
  <2> QED BY <1>0, <2>1, WorkFrame, OrderFrame
<1>3. CASE FlushFrame
  BY <1>0, <1>3, FlushOrder
<1>4. CASE FlushFinalizes
  <2>1. UNCHANGED <<stamp, queue, cur, disk, hour, written>> /\ job'.rec = 0
    BY <1>4 DEF FlushFinalizes
  <2> QED BY <1>0, <2>1, WorkFrame, OrderFrame
<1>5. CASE WriterStep
  BY <1>5, WriterOrder
<1>6. CASE UploaderStep
  <2>1. UNCHANGED <<stamp, queue, cur, job, hour, written>>
    BY <1>6 DEF UploaderStep, memory
  <2>2. \A f \in Names : /\ disk'[f].frames = disk[f].frames
                         /\ disk'[f].kind = "none" <=> disk[f].kind = "none"
    <3>1. CASE disk' = disk
      BY <3>1
    <3>2. CASE disk' = [disk EXCEPT ![up.file].marker = TRUE]
      BY <1>0, <3>2 DEF TypeOK
    <3>3. ASSUME NEW f \in Names, Retire(f)
          PROVE  \A g \in Names : /\ disk'[g].frames = disk[g].frames
                                  /\ disk'[g].kind = "none" <=> disk[g].kind = "none"
      BY <1>0, <3>3 DEF Retire, TypeOK
    <3>4. disk' = disk \/ disk' = [disk EXCEPT ![up.file].marker = TRUE] \/ \E f \in Names : Retire(f)
      BY <1>6 DEF UploaderStep, UploadSegment, UploadManifest, Mark, Pick
    <3> QED BY <3>1, <3>2, <3>3, <3>4
  <2> QED BY <1>0, <2>1, <2>2, WorkFrame, OrderFrame
<1>7. CASE Crash
  <2>1. /\ UNCHANGED <<stamp, hour, written>> /\ queue' = <<>> /\ cur' = None
        /\ job' = Idle /\ job'.rec = 0
    BY <1>7 DEF Crash, Idle
  <2>2. CASE disk' = disk
    BY <1>0, <2>1, <2>2, WorkFrame, OrderFrame
  <2>3. CASE disk' # disk
    <3>1. PICK frame \in {TORN, job.rec} :
             job.step = "write" /\ fh = "open" /\ disk' = [disk EXCEPT ![cur].frames = Append(@, frame)]
      BY <1>7, <2>3 DEF Crash
    <3>2. job.rec # 0 /\ cur \in Names /\ hour[cur] = stamp[job.rec]
      BY <1>0, <3>1 DEF Writer, TypeOK
    <3> QED BY <1>0, <2>1, <3>1, <3>2, AddOrder
  <2> QED BY <2>2, <2>3
<1>8. CASE RecoveryStep
  <2>1. UNCHANGED <<stamp, queue, cur, job, hour, written>>
    BY <1>8 DEF RecoveryStep, memory
  <2>2. CASE RecoverFile
    BY <1>0, <2>1, <2>2, RecoverOrder
  <2>3. CASE RecoverManifest
    <3>1. disk' = [disk EXCEPT ![recovery].manifest = Readable(disk[recovery].frames)]
      BY <2>3 DEF RecoverManifest
    <3>2. \A f \in Names : /\ disk'[f].frames = disk[f].frames
                           /\ disk'[f].kind = "none" <=> disk[f].kind = "none"
      BY <1>0, <3>1 DEF TypeOK
    <3> QED BY <1>0, <2>1, <3>2, WorkFrame, OrderFrame
  <2>4. CASE Recovered
    BY <1>0, <2>1, <2>4, WorkFrame, OrderFrame DEF Recovered
  <2> QED BY <1>8, <2>2, <2>3, <2>4 DEF RecoveryStep
<1> QED BY <1>1, <1>2, <1>3, <1>4, <1>5, <1>6, <1>7, <1>8 DEF Next

-----------------------------------------------------------------------------
(* The writer, the files and the uploader.                                 *)

LEMMA LoopWork ==
  ASSUME SegmentsAssumption, SInv, append \/ NextPeriod \/ FlushFrame \/ FlushFinalizes \/ UNCHANGED vars
  PROVE  Work'
<1>0. TypeOK /\ Known /\ Writer /\ FilesAreTrue /\ Uploads /\ TornLast
  BY DEF SInv, Order, Work
<1>1. UNCHANGED <<fh, cur, hash, disk, hour, remote, up, recovery, running>>
  BY DEF append, NextPeriod, FlushFrame, FlushFinalizes, vars, memory
<1>2. FilesAreTrue' /\ Uploads' /\ TornLast'
  BY <1>0, <1>1 DEF FilesAreTrue, FileIsTrue, Uploads, TornLast, FrameAt, Places
<1>3. Writer'
  <2>1. CASE NextPeriod \/ UNCHANGED vars
    BY <1>0, <1>1, <2>1 DEF NextPeriod, vars, memory, Writer
  <2>2. CASE append
    <3>1. \A i \in 1..Len(stamp) : stamp'[i] = stamp[i]
      BY <1>0, <2>2, AppendProperties DEF append, TypeOK
    <3>2. job.rec # 0 => stamp'[job.rec] = stamp[job.rec]
      BY <1>0, <3>1 DEF Known, Pending
    <3>3. job' = job /\ (job.step = "write" => hour[cur] = stamp'[job.rec])
      BY <1>0, <2>2, <3>2 DEF append, Writer
    <3> QED BY <1>0, <1>1, <3>3 DEF Writer
  <2>3. CASE FlushFrame
    <3>1. Head(queue) # 0
      <4>1. Head(queue) \in Records
        BY <1>0, <2>3, HeadTailProperties DEF FlushFrame, TypeOK
      <4> QED BY <4>1 DEF Records
    <3>2. job'.rec = Head(queue) /\ job'.step = StepFor(Head(queue)) /\ running /\ stamp' = stamp
      BY <2>3 DEF FlushFrame
    <3> QED BY <1>0, <1>1, <3>1, <3>2 DEF Writer, StepFor
  <2>4. CASE FlushFinalizes
    BY <1>0, <1>1, <2>4 DEF FlushFinalizes, Writer
  <2> QED BY <2>1, <2>2, <2>3, <2>4
<1> QED BY <1>2, <1>3 DEF Work

LEMMA CloseWork ==
  ASSUME SegmentsAssumption, SInv, WriterStep, Close, UNCHANGED <<hour, written>>
  PROVE  Work'
<1>0. /\ TypeOK /\ Writer /\ FilesAreTrue /\ Uploads /\ TornLast /\ running
      /\ UNCHANGED <<stamp, cur, hash, disk, hour, remote, up, recovery, running>>
  BY DEF SInv, Work, WriterStep, Close
<1>1. FilesAreTrue' /\ Uploads' /\ TornLast'
  BY <1>0 DEF FilesAreTrue, FileIsTrue, Uploads, TornLast, FrameAt, Places
<1>2. Writer'
  BY <1>0 DEF Close, JobFails, Idle, Writer, TypeOK
<1> QED BY <1>1, <1>2 DEF Work

LEMMA ReplaceWork ==
  ASSUME SegmentsAssumption, SInv, WriterStep, Replace, UNCHANGED <<hour, written>>
  PROVE  Work'
<1>0. /\ TypeOK /\ Writer /\ FilesAreTrue /\ Uploads /\ TornLast /\ running
      /\ UNCHANGED <<stamp, fh, cur, hash, hour, remote, up, recovery, running>>
      /\ job.step = "replace" /\ fh = "closed" /\ cur \in Names /\ recovery = None
  BY DEF SInv, Work, WriterStep, Replace, Writer, TypeOK
<1>1. CASE disk' = disk
  <2>1. FilesAreTrue' /\ Uploads' /\ TornLast'
    BY <1>0, <1>1 DEF FilesAreTrue, FileIsTrue, Uploads, TornLast, FrameAt, Places
  <2>2. JobFails
    <3>1. disk[cur].kind = "partial" => disk' # [disk EXCEPT ![cur].kind = "final"]
      BY <1>0, <1>1 DEF TypeOK
    <3> QED BY <3>1 DEF Replace
  <2>3. Writer'
    BY <1>0, <1>1, <2>2 DEF JobFails, Idle, Writer
  <2> QED BY <2>1, <2>3 DEF Work
<1>2. CASE /\ disk[cur].kind = "partial" /\ disk' = [disk EXCEPT ![cur].kind = "final"]
           /\ job' = [job EXCEPT !.step = "manifest"]
  <2>0. /\ \A f \in Names \ {cur} : disk'[f] = disk[f]
        /\ disk'[cur] = [disk[cur] EXCEPT !.kind = "final"]
        /\ disk'[cur].kind = "final" /\ disk'[cur].frames = disk[cur].frames
        /\ disk'[cur].manifest = disk[cur].manifest /\ disk'[cur].marker = disk[cur].marker
    BY <1>0, <1>2 DEF TypeOK
  <2>1. FilesAreTrue'
    BY <1>0, <1>2, <2>0 DEF FilesAreTrue, FileIsTrue
  <2>2. Uploads'
    BY <1>0, <1>2, <2>0 DEF Uploads
  <2>3. TornLast'
    BY <1>0, <1>2, <2>0 DEF TornLast, FrameAt, Places
  <2>4. Writer'
    <3>1. disk'[cur].kind = "final" /\ disk'[cur].manifest = None
      BY <1>0, <1>2, <2>0 DEF FilesAreTrue, FileIsTrue
    <3>2. job'.step = "manifest" /\ job'.rec = job.rec
      BY <1>0, <1>2 DEF TypeOK
    <3> QED BY <1>0, <2>0, <3>1, <3>2 DEF Writer
  <2> QED BY <2>1, <2>2, <2>3, <2>4 DEF Work
<1> QED BY <1>1, <1>2 DEF Replace

LEMMA ManifestWork ==
  ASSUME SegmentsAssumption, SInv, WriterStep, WriteManifest, UNCHANGED <<hour, written>>
  PROVE  Work'
<1>0. /\ TypeOK /\ Writer /\ FilesAreTrue /\ Uploads /\ TornLast /\ running
      /\ UNCHANGED <<stamp, fh, cur, hash, hour, remote, up, recovery, running>>
      /\ job.step = "manifest" /\ fh = "closed" /\ cur \in Names /\ recovery = None
      /\ disk[cur].kind = "final" /\ disk[cur].manifest = None /\ hash = disk[cur].frames
  BY DEF SInv, Work, WriterStep, WriteManifest, Writer, TypeOK
<1>1. CASE JobFails /\ disk' = disk
  <2>1. FilesAreTrue' /\ Uploads' /\ TornLast'
    BY <1>0, <1>1 DEF FilesAreTrue, FileIsTrue, Uploads, TornLast, FrameAt, Places
  <2>2. Writer'
    BY <1>0, <1>1 DEF JobFails, Idle, Writer
  <2> QED BY <2>1, <2>2 DEF Work
<1>2. CASE disk' = [disk EXCEPT ![cur].manifest = hash] /\ job' = [job EXCEPT !.step = "sync"]
  <2>0. /\ \A f \in Names \ {cur} : disk'[f] = disk[f]
        /\ disk'[cur].kind = "final" /\ disk'[cur].frames = disk[cur].frames
        /\ disk'[cur].manifest = disk[cur].frames /\ disk'[cur].marker = disk[cur].marker
        /\ disk[cur].frames \in Frames
    BY <1>0, <1>2, FileParts DEF TypeOK
  <2>1. FilesAreTrue'
    <3>1. ~ disk[cur].marker /\ remote[cur].frames = None /\ ~ remote[cur].manifest
      BY <1>0 DEF FilesAreTrue, FileIsTrue
    <3> QED BY <1>0, <2>0, <3>1 DEF FilesAreTrue, FileIsTrue
  <2>2. Uploads'
    BY <1>0, <1>2, <2>0 DEF Uploads
  <2>3. TornLast'
    BY <1>0, <1>2, <2>0 DEF TornLast, FrameAt, Places
  <2>4. Writer'
    <3>1. job'.step = "sync" /\ job'.rec = job.rec
      BY <1>0, <1>2 DEF TypeOK
    <3> QED BY <1>0, <2>0, <3>1 DEF Writer
  <2> QED BY <2>1, <2>2, <2>3, <2>4 DEF Work
<1> QED BY <1>1, <1>2 DEF WriteManifest

LEMMA SyncWork ==
  ASSUME SegmentsAssumption, SInv, WriterStep, SyncDir, UNCHANGED <<hour, written>>
  PROVE  Work'
<1>0. /\ TypeOK /\ Writer /\ FilesAreTrue /\ Uploads /\ TornLast /\ running
      /\ UNCHANGED <<stamp, disk, hour, remote, up, recovery, running>>
  BY DEF SInv, Work, WriterStep, SyncDir
<1>1. FilesAreTrue' /\ Uploads' /\ TornLast'
  BY <1>0 DEF FilesAreTrue, FileIsTrue, Uploads, TornLast, FrameAt, Places
<1>2. Writer'
  BY <1>0 DEF SyncDir, JobFails, Idle, Writer, TypeOK
<1> QED BY <1>1, <1>2 DEF Work

LEMMA OpenWork ==
  ASSUME SegmentsAssumption, SInv, WriterStep, OpenFile, UNCHANGED written
  PROVE  Work'
<1>0. /\ TypeOK /\ Writer /\ FilesAreTrue /\ Uploads /\ TornLast /\ running
      /\ UNCHANGED <<stamp, remote, up, recovery, running>>
      /\ job.step = "open" /\ fh = "none" /\ job.rec # 0 /\ recovery = None
      /\ Names \ Used # {}
      /\ NewName \in Names /\ NewName \notin Used /\ NewName # None
  <2>1. Names \ Used # {}
    BY DEF OpenFile
  <2>2. NewName \in Names \ Used
    BY <2>1, FirstFree DEF SInv, Order
  <2>3. NewName # None
    BY <2>2 DEF Names, SegmentsAssumption
  <2> QED BY <2>1, <2>2, <2>3 DEF SInv, Work, WriterStep, OpenFile, Writer
<1>1. CASE JobFails /\ UNCHANGED <<disk, hour, cur, fh, hash>>
  <2>1. FilesAreTrue' /\ Uploads' /\ TornLast'
    BY <1>0, <1>1 DEF FilesAreTrue, FileIsTrue, Uploads, TornLast, FrameAt, Places
  <2>2. Writer'
    BY <1>0, <1>1 DEF JobFails, Idle, Writer
  <2> QED BY <2>1, <2>2 DEF Work
<1>2. CASE /\ disk' = [disk EXCEPT ![NewName] = [NoFile EXCEPT !.kind = "partial"]]
           /\ hour' = [hour EXCEPT ![NewName] = stamp[job.rec]]
           /\ cur' = NewName /\ fh' = "open" /\ hash' = <<>>
           /\ job' = [job EXCEPT !.step = "write"]
  <2>0. /\ \A f \in Names \ {NewName} : disk'[f] = disk[f]
        /\ disk'[NewName].kind = "partial" /\ disk'[NewName].frames = <<>>
        /\ disk'[NewName].manifest = None /\ ~ disk'[NewName].marker
        /\ disk[NewName].kind = "none" /\ hour'[NewName] = stamp[job.rec]
    BY <1>0, <1>2 DEF TypeOK, NoFile, Used
  <2>1. FilesAreTrue'
    BY <1>0, <2>0 DEF FilesAreTrue, FileIsTrue
  <2>2. Uploads'
    BY <1>0, <2>0 DEF Uploads
  <2>3. TornLast'
    BY <1>0, <2>0 DEF TornLast, FrameAt, Places
  <2>4. Writer'
    <3>1. job'.step = "write" /\ job'.rec = job.rec
      BY <1>0, <1>2 DEF TypeOK
    <3> QED BY <1>0, <1>2, <2>0, <3>1 DEF Writer
  <2> QED BY <2>1, <2>2, <2>3, <2>4 DEF Work
<1> QED BY <1>1, <1>2 DEF OpenFile

(* What a frame that is added to a partial file does to the files.         *)
LEMMA AddWork ==
  ASSUME SegmentsAssumption, SInv, NEW x \in {TORN, job.rec},
         cur \in Names, disk[cur].kind = "partial", running,
         disk' = [disk EXCEPT ![cur].frames = Append(@, x)],
         job.rec # 0, x = TORN => ~ running', UNCHANGED remote
  PROVE  /\ FilesAreTrue' /\ TornLast'
         /\ \A f \in Names \ {cur} : disk'[f] = disk[f]
         /\ disk'[cur].kind = "partial" /\ disk'[cur].frames = Append(disk[cur].frames, x)
<1>0. TypeOK /\ FilesAreTrue /\ TornLast /\ disk[cur].frames \in Frames
  BY FileParts DEF SInv, Work
<1>1. x \in Records \cup {TORN}
  BY <1>0 DEF TypeOK
<1>2. /\ \A f \in Names \ {cur} : disk'[f] = disk[f]
      /\ disk'[cur].kind = "partial" /\ disk'[cur].frames = Append(disk[cur].frames, x)
      /\ disk'[cur].manifest = disk[cur].manifest /\ disk'[cur].marker = disk[cur].marker
  BY <1>0 DEF TypeOK
<1>3. FilesAreTrue'
  BY <1>0, <1>2 DEF FilesAreTrue, FileIsTrue
<1>4. TornLast'
  <2>1. \A f \in Names : \A i \in 1..Len(disk[f].frames) : disk[f].frames[i] # TORN
    BY <1>0 DEF TornLast, FrameAt, Places
  <2> SUFFICES ASSUME NEW f \in Names, NEW i \in 1..Len(disk'[f].frames), disk'[f].frames[i] = TORN
               PROVE  i = Len(disk'[f].frames) /\ disk'[f].kind = "partial" /\ ~ running'
    BY DEF TornLast, FrameAt, Places
  <2>2. f = cur
    BY <1>2, <2>1
  <2>3. /\ Len(disk[cur].frames) \in Nat /\ Len(disk'[cur].frames) = Len(disk[cur].frames) + 1
        /\ \A j \in 1..Len(disk[cur].frames) : disk'[cur].frames[j] = disk[cur].frames[j]
        /\ disk'[cur].frames[Len(disk[cur].frames) + 1] = x
    BY <1>0, <1>1, <1>2, AppendProperties, LenProperties DEF Frames
  <2>4. i = Len(disk[cur].frames) + 1
    BY <2>1, <2>2, <2>3
  <2> QED BY <1>2, <2>2, <2>3, <2>4
<1> QED BY <1>2, <1>3, <1>4

LEMMA WriteWork ==
  ASSUME CleanFailures, SInv, WriterStep, WriteFrame, UNCHANGED hour
  PROVE  Work'
<1>0. /\ SegmentsAssumption /\ TypeOK /\ Writer /\ FilesAreTrue /\ Uploads /\ TornLast /\ running
      /\ UNCHANGED <<stamp, fh, cur, hour, remote, up, recovery, running>>
      /\ job.step = "write" /\ fh # "none" /\ job.rec # 0 /\ cur \in Names
  BY DEF CleanFailures, SInv, Work, WriterStep, WriteFrame, Writer, TypeOK
<1>1. CASE JobFails /\ UNCHANGED <<disk, hash>>
  <2>1. FilesAreTrue' /\ Uploads' /\ TornLast'
    BY <1>0, <1>1 DEF FilesAreTrue, FileIsTrue, Uploads, TornLast, FrameAt, Places
  <2>2. Writer'
    BY <1>0, <1>1 DEF JobFails, Idle, Writer
  <2> QED BY <2>1, <2>2 DEF Work
<1>2. CASE /\ fh = "open"
           /\ disk' = [disk EXCEPT ![cur].frames = Append(@, job.rec)]
           /\ hash' = Append(hash, job.rec) /\ job' = Idle
  <2>1. disk[cur].kind = "partial" /\ hash = disk[cur].frames
    BY <1>0, <1>2 DEF Writer
  <2>2. job.rec # TORN
    BY <1>0 DEF TORN
  <2>3. /\ FilesAreTrue' /\ TornLast'
        /\ \A f \in Names \ {cur} : disk'[f] = disk[f]
        /\ disk'[cur].kind = "partial" /\ disk'[cur].frames = Append(disk[cur].frames, job.rec)
    BY <1>0, <1>2, <2>1, <2>2, AddWork
  <2>4. Uploads'
    BY <1>0, <2>1, <2>3 DEF Uploads
  <2>5. Writer'
    BY <1>0, <1>2, <2>1, <2>3 DEF Writer, Idle
  <2> QED BY <2>3, <2>4, <2>5 DEF Work
<1> QED BY <1>1, <1>2 DEF WriteFrame, CleanFailures

LEMMA UploaderWork ==
  ASSUME SegmentsAssumption, SInv, UploaderStep
  PROVE  Work'
<1>0. /\ TypeOK /\ Writer /\ FilesAreTrue /\ Uploads /\ TornLast /\ running
      /\ UNCHANGED <<stamp, queue, fh, cur, hash, job, hour, recovery, running>>
  BY DEF SInv, Work, UploaderStep, memory
<1>1. CASE up' = NoUp /\ UNCHANGED <<disk, remote>>
  <2>1. FilesAreTrue' /\ Uploads' /\ TornLast'
    BY <1>0, <1>1 DEF FilesAreTrue, FileIsTrue, Uploads, NoUp, TornLast, FrameAt, Places
  <2>2. Writer'
    BY <1>0, <1>1 DEF Writer
  <2> QED BY <2>1, <2>2 DEF Work
<1>2. CASE /\ up.step = "segment" /\ UNCHANGED disk
           /\ remote' = [remote EXCEPT ![up.file].frames = disk[up.file].frames]
           /\ up' = [up EXCEPT !.step = "manifest"]
  <2>1. /\ up.file \in Names /\ disk[up.file].kind = "final" /\ disk[up.file].manifest # None
        /\ disk[up.file].manifest = disk[up.file].frames
    BY <1>0, <1>2 DEF Uploads, FilesAreTrue, FileIsTrue
  <2>2. /\ \A f \in Names \ {up.file} : remote'[f] = remote[f]
        /\ remote'[up.file].frames = disk[up.file].frames
        /\ remote'[up.file].manifest = remote[up.file].manifest
        /\ up'.file = up.file /\ up'.step = "manifest"
    BY <1>0, <1>2, <2>1 DEF TypeOK
  <2>3. FilesAreTrue'
    BY <1>0, <1>2, <2>1, <2>2 DEF FilesAreTrue, FileIsTrue
  <2>4. Uploads' /\ TornLast'
    BY <1>0, <1>2, <2>1, <2>2 DEF Uploads, TornLast, FrameAt, Places
  <2>5. Writer'
    BY <1>0, <1>2 DEF Writer
  <2> QED BY <2>3, <2>4, <2>5 DEF Work
<1>3. CASE /\ up.step = "manifest" /\ UNCHANGED disk
           /\ remote' = [remote EXCEPT ![up.file].manifest = TRUE]
           /\ up' = [up EXCEPT !.step = "marker"]
  <2>1. /\ up.file \in Names /\ disk[up.file].kind = "final" /\ disk[up.file].manifest # None
        /\ remote[up.file].frames # None
    BY <1>0, <1>3 DEF Uploads
  <2>2. /\ \A f \in Names \ {up.file} : remote'[f] = remote[f]
        /\ remote'[up.file].frames = remote[up.file].frames
        /\ remote'[up.file].manifest
        /\ up'.file = up.file /\ up'.step = "marker"
    BY <1>0, <1>3, <2>1 DEF TypeOK
  <2>3. FilesAreTrue'
    BY <1>0, <1>3, <2>1, <2>2 DEF FilesAreTrue, FileIsTrue
  <2>4. Uploads' /\ TornLast'
    BY <1>0, <1>3, <2>1, <2>2 DEF Uploads, TornLast, FrameAt, Places
  <2>5. Writer'
    BY <1>0, <1>3 DEF Writer
  <2> QED BY <2>3, <2>4, <2>5 DEF Work
<1>4. CASE /\ up.step = "marker" /\ UNCHANGED remote /\ up' = NoUp
           /\ disk' = [disk EXCEPT ![up.file].marker = TRUE]
  <2>1. /\ up.file \in Names /\ disk[up.file].kind = "final" /\ disk[up.file].manifest # None
        /\ remote[up.file].manifest
    BY <1>0, <1>4 DEF Uploads
  <2>2. /\ \A f \in Names \ {up.file} : disk'[f] = disk[f]
        /\ disk'[up.file].marker /\ disk'[up.file].kind = "final"
    BY <1>0, <1>4, <2>1 DEF TypeOK
  <2>3. \A f \in Names : /\ disk'[f].frames = disk[f].frames
                         /\ disk'[f].kind = disk[f].kind
                        /\ disk'[f].manifest = disk[f].manifest
    BY <1>0, <1>4, <2>1 DEF TypeOK
  <2>4. FilesAreTrue'
    BY <1>0, <1>4, <2>1, <2>2, <2>3 DEF FilesAreTrue, FileIsTrue
  <2>5. Uploads' /\ TornLast'
    BY <1>0, <1>4, <2>3 DEF Uploads, NoUp, TornLast, FrameAt, Places
  <2>6. Writer'
    BY <1>0, <1>4, <2>3 DEF Writer, TypeOK
  <2> QED BY <2>4, <2>5, <2>6 DEF Work
<1>5. ASSUME NEW f \in Names, Pick(f)
      PROVE  Work'
  <2>1. FilesAreTrue' /\ Uploads' /\ TornLast'
    BY <1>0, <1>5 DEF Pick, FilesAreTrue, FileIsTrue, Uploads, TornLast, FrameAt, Places
  <2>2. Writer'
    BY <1>0, <1>5 DEF Pick, Writer
  <2> QED BY <2>1, <2>2 DEF Work
<1>6. ASSUME NEW f \in Names, Retire(f)
      PROVE  Work'
  <2>1. /\ disk[f].kind = "final" /\ disk[f].marker /\ UNCHANGED <<up, remote>> /\ up.step = "idle"
        /\ hour[f] < period
    BY <1>6 DEF Retire
  <2>2. /\ \A g \in Names \ {f} : disk'[g] = disk[g]
        /\ disk'[f].kind = "gone"
        /\ \A g \in Names : /\ disk'[g].frames = disk[g].frames
                            /\ disk'[g].manifest = disk[g].manifest
                            /\ disk'[g].marker = disk[g].marker
    BY <1>0, <1>6 DEF Retire, TypeOK
  <2>3. FilesAreTrue'
    BY <1>0, <2>1, <2>2 DEF FilesAreTrue, FileIsTrue
  <2>4. Uploads' /\ TornLast'
    BY <1>0, <2>1, <2>2 DEF Uploads, TornLast, FrameAt, Places
  <2>5. Writer'
    <3>1. job.step = "manifest" => f # cur
      BY <1>0, <2>1 DEF Writer, FilesAreTrue, FileIsTrue
    <3> QED BY <1>0, <2>1, <2>2, <3>1 DEF Writer, TypeOK
  <2> QED BY <2>3, <2>4, <2>5 DEF Work
<1> QED BY <1>1, <1>2, <1>3, <1>4, <1>5, <1>6 DEF UploaderStep, UploadSegment, UploadManifest, Mark

LEMMA CrashWork ==
  ASSUME SegmentsAssumption, SInv, Crash
  PROVE  Work'
<1>0. /\ TypeOK /\ Writer /\ FilesAreTrue /\ Uploads /\ TornLast
      /\ UNCHANGED <<stamp, hour, remote>>
      /\ fh' = "none" /\ cur' = None /\ job' = Idle /\ up' = NoUp /\ recovery' = None /\ ~ running'
  BY DEF SInv, Work, Crash
<1>1. Writer' /\ Uploads'
  BY <1>0 DEF Writer, Uploads, Idle, NoUp
<1>2. FilesAreTrue' /\ TornLast'
  <2>1. CASE disk' = disk
    BY <1>0, <2>1 DEF FilesAreTrue, FileIsTrue, TornLast, FrameAt, Places
  <2>2. CASE disk' # disk
    <3>1. PICK frame \in {TORN, job.rec} :
             job.step = "write" /\ fh = "open" /\ disk' = [disk EXCEPT ![cur].frames = Append(@, frame)]
      BY <2>2 DEF Crash
    <3>2. job.rec # 0 /\ cur \in Names /\ disk[cur].kind = "partial" /\ running
      BY <1>0, <3>1 DEF Writer, TypeOK, Idle
    <3> QED BY <1>0, <3>1, <3>2, AddWork
  <2> QED BY <2>1, <2>2
<1> QED BY <1>1, <1>2 DEF Work

LEMMA RecoveryWork ==
  ASSUME SegmentsAssumption, SInv, RecoveryStep
  PROVE  Work'
<1>0. /\ TypeOK /\ Writer /\ FilesAreTrue /\ Uploads /\ TornLast
      /\ UNCHANGED <<stamp, queue, fh, cur, hash, job, hour, remote, up>> /\ ~ running
      /\ fh = "none" /\ job = Idle /\ up = NoUp /\ cur = None
  BY DEF SInv, Work, RecoveryStep, memory, RecoverFile, RecoverManifest, Recovered, Writer
<1>1. Uploads'
  BY <1>0 DEF Uploads, NoUp
<1>2. CASE RecoverFile
  <2>1. PICK f \in Names :
           /\ disk[f].kind = "partial"
           /\ \/ disk' = [disk EXCEPT ![f] = NoFile] /\ recovery' = recovery
              \/ /\ disk' = [disk EXCEPT ![f].frames = Readable(disk[f].frames), ![f].kind = "final"]
                 /\ recovery' = f
    BY <1>2 DEF RecoverFile, Partial
  <2>2. /\ \A g \in Names \ {f} : disk'[g] = disk[g]
        /\ \/ disk'[f] = NoFile /\ recovery' = recovery
           \/ /\ disk'[f].kind = "final" /\ disk'[f].frames = Readable(disk[f].frames)
              /\ disk'[f].manifest = disk[f].manifest /\ disk'[f].marker = disk[f].marker
              /\ recovery' = f
        /\ recovery = None /\ running' = running
    BY <1>0, <1>2, <2>1 DEF TypeOK, RecoverFile
  <2>3. disk[f].manifest = None /\ ~ disk[f].marker /\ remote[f].frames = None /\ ~ remote[f].manifest
    BY <1>0, <2>1 DEF FilesAreTrue, FileIsTrue
  <2>4. FilesAreTrue'
    BY <1>0, <2>2, <2>3 DEF FilesAreTrue, FileIsTrue, NoFile
  <2>5. TornLast'
    <3>1. \A i \in 1..Len(disk[f].frames) : disk[f].frames[i] = TORN => i = Len(disk[f].frames)
      BY <1>0 DEF TornLast, FrameAt, Places
    <3>2. /\ Len(Readable(disk[f].frames)) <= Len(disk[f].frames)
          /\ \A i \in 1..Len(Readable(disk[f].frames)) : Readable(disk[f].frames)[i] # TORN
      BY <1>0, <3>1, FileParts, ReadablePart
    <3>3. \A i \in 1..Len(disk'[f].frames) : disk'[f].frames[i] # TORN
      BY <2>2, <3>2 DEF NoFile
    <3> QED BY <1>0, <2>2, <3>3 DEF TornLast, FrameAt, Places
  <2>6. Writer'
    BY <1>0, <2>2, <2>3 DEF Writer, Idle
  <2> QED BY <1>1, <2>4, <2>5, <2>6 DEF Work
<1>3. CASE RecoverManifest
  <2>1. /\ recovery \in Names /\ disk[recovery].kind = "final" /\ disk[recovery].manifest = None
        /\ recovery' = None /\ running' = running
    BY <1>0, <1>3 DEF RecoverManifest, Writer, TypeOK
  <2>2. Readable(disk[recovery].frames) = disk[recovery].frames
    <3>1. \A i \in 1..Len(disk[recovery].frames) : disk[recovery].frames[i] # TORN
      BY <1>0, <2>1 DEF TornLast, FrameAt, Places
    <3>2. {i \in 1..Len(disk[recovery].frames) : disk[recovery].frames[i] = TORN} = {}
      BY <3>1
    <3> QED BY <3>2 DEF Readable
  <2>3. /\ \A f \in Names \ {recovery} : disk'[f] = disk[f]
        /\ disk'[recovery].kind = "final" /\ disk'[recovery].frames = disk[recovery].frames
        /\ disk'[recovery].manifest = disk[recovery].frames
        /\ disk'[recovery].marker = disk[recovery].marker
    BY <1>0, <1>3, <2>1, <2>2 DEF RecoverManifest, TypeOK
  <2>4. ~ disk[recovery].marker /\ remote[recovery].frames = None /\ ~ remote[recovery].manifest
    BY <1>0, <2>1 DEF FilesAreTrue, FileIsTrue
  <2>5. FilesAreTrue'
    BY <1>0, <2>1, <2>3, <2>4 DEF FilesAreTrue, FileIsTrue
  <2>6. TornLast'
    BY <1>0, <2>1, <2>3 DEF TornLast, FrameAt, Places
  <2>7. Writer'
    BY <1>0, <2>1 DEF Writer, Idle
  <2> QED BY <1>1, <2>5, <2>6, <2>7 DEF Work
<1>4. CASE Recovered
  <2>1. /\ disk' = disk /\ recovery' = None /\ recovery = None
        /\ \A f \in Names : disk[f].kind # "partial"
    BY <1>4 DEF Recovered, Partial
  <2>2. FilesAreTrue' /\ TornLast'
    BY <1>0, <2>1 DEF FilesAreTrue, FileIsTrue, TornLast, FrameAt, Places
  <2>3. Writer'
    BY <1>0, <2>1 DEF Writer, Idle
  <2> QED BY <1>1, <2>2, <2>3 DEF Work
<1> QED BY <1>2, <1>3, <1>4 DEF RecoveryStep

-----------------------------------------------------------------------------
(* The theorems.                                                           *)

LEMMA Initially == SegmentsAssumption /\ Init => SInv
<1> SUFFICES ASSUME SegmentsAssumption, Init PROVE SInv
  OBVIOUS
<1>1. TypeOK
  BY InitTypes
<1>2. /\ queue = <<>> /\ job = Idle /\ cur = None /\ written = {} /\ stamp = <<>>
      /\ Len(queue) = 0 /\ Len(stamp) = 0
      /\ \A f \in Names : disk[f] = NoFile /\ hour[f] = None /\ remote[f].frames = None /\ ~ remote[f].manifest
  BY EmptySeq DEF Init
<1>3. \A f \in Names : Places(f) = {} /\ 1..Len(disk[f].frames) = {}
  BY <1>2, EmptySeq DEF Places, NoFile
<1>4. Used = {}
  BY <1>2 DEF Used, NoFile
<1>5. Pending = {}
  BY <1>2 DEF Pending, Idle
<1>6. Order
  BY <1>2, <1>3, <1>4, <1>5 DEF Order, Known, NamesInOrder, Sorted, InOrder, OwnHour, Kept, Increasing, NoFile
<1>7. Work
  BY <1>2, <1>3 DEF Init, Work, Writer, FilesAreTrue, FileIsTrue, Uploads, TornLast, Idle, NoUp, NoFile
<1> QED BY <1>1, <1>6, <1>7 DEF SInv

LEMMA Step == CleanFailures /\ SInv /\ [Next]_vars => SInv'
<1> SUFFICES ASSUME CleanFailures, SInv, [Next]_vars PROVE SInv'
  OBVIOUS
<1>1. SegmentsAssumption
  BY DEF CleanFailures
<1>2. Order'
  BY OrderStep
<1>3. CASE append \/ NextPeriod \/ FlushFrame \/ FlushFinalizes
  BY <1>1, <1>2, <1>3, LoopTypes, LoopWork DEF SInv
<1>4. CASE WriterStep
  <2>1. Work'
    BY <1>1, <1>4, CloseWork, ReplaceWork, ManifestWork, SyncWork, OpenWork, WriteWork DEF WriterStep
  <2> QED BY <1>1, <1>2, <1>4, <2>1, WriterTypes DEF SInv
<1>5. CASE UploaderStep
  BY <1>1, <1>2, <1>5, UploaderTypes, UploaderWork DEF SInv
<1>6. CASE Crash
  BY <1>1, <1>2, <1>6, CrashTypes, CrashWork DEF SInv
<1>7. CASE RecoveryStep
  BY <1>1, <1>2, <1>7, RecoveryTypes, RecoveryWork DEF SInv
<1>8. CASE UNCHANGED vars
  <2>1. TypeOK'
    BY <1>8 DEF SInv, TypeOK, vars, memory
  <2> QED BY <1>1, <1>2, <1>8, <2>1, LoopWork DEF SInv
<1> QED BY <1>3, <1>4, <1>5, <1>6, <1>7, <1>8 DEF Next

LEMMA Always == ASSUME CleanFailures PROVE Spec => []SInv
<1>1. Init => SInv
  BY Initially DEF CleanFailures
<1>2. SInv /\ [Next]_vars => SInv'
  BY Step
<1> QED BY <1>1, <1>2, PTL DEF Spec

(* The invariant says what the properties say.                             *)
LEMMA InvDurable == SegmentsAssumption /\ SInv => Durable
<1> SUFFICES ASSUME SegmentsAssumption, SInv, NEW r \in written
             PROVE  \E f \in Names :
                      \/ Held(f) /\ In(r, Readable(disk[f].frames))
                      \/ disk[f].kind = "gone" /\ remote[f].frames # None /\ In(r, remote[f].frames)
  BY DEF Durable
<1>0. TypeOK /\ Kept /\ TornLast /\ FilesAreTrue
  BY DEF SInv, Order, Work
<1>1. PICK f \in Names : r # TORN /\ \E i \in 1..Len(disk[f].frames) : disk[f].frames[i] = r
  BY <1>0 DEF Kept, FrameAt, Places
<1>2. PICK i \in 1..Len(disk[f].frames) : disk[f].frames[i] = r
  BY <1>1
<1>3. disk[f].kind # "none"
  BY <1>0, <1>2 DEF FilesAreTrue, FileIsTrue
<1>4. CASE disk[f].kind = "gone"
  BY <1>0, <1>2, <1>4 DEF FilesAreTrue, FileIsTrue, In
<1>5. CASE Held(f)
  <2>1. disk[f].frames \in Frames
    BY <1>0, FileParts
  <2>2. \A j \in 1..Len(disk[f].frames) : disk[f].frames[j] = TORN => j = Len(disk[f].frames)
    BY <1>0 DEF TornLast, FrameAt, Places
  <2>3. /\ Readable(disk[f].frames) \in Frames /\ i <= Len(Readable(disk[f].frames))
        /\ \A j \in 1..Len(Readable(disk[f].frames)) : Readable(disk[f].frames)[j] = disk[f].frames[j]
    BY <1>1, <1>2, <2>1, <2>2, ReadablePart
  <2>4. i \in 1..Len(Readable(disk[f].frames))
    BY <2>1, <2>3, LenProperties DEF Frames
  <2> QED BY <1>2, <1>5, <2>3, <2>4 DEF In
<1> QED BY <1>0, <1>3, <1>4, <1>5, FileParts DEF Held

LEMMA InvManifest == SInv => ManifestTrue
BY FileParts DEF SInv, Work, FilesAreTrue, FileIsTrue, ManifestTrue, Held

(* segment.SegmentWriter and uploader.Uploader: what each variable holds,  *)
(* the cap of the backlog among it.                                        *)
THEOREM TypeCorrect == ASSUME CleanFailures PROVE Spec => []TypeOK
<1>1. SInv => TypeOK
  BY DEF SInv
<1> QED BY <1>1, Always, PTL

(* A record whose write was reported as done can be read ever after, from  *)
(* its file or, when that was removed, from storage (flush, recover_partial*)
(* and enforce_retention).                                                 *)
THEOREM DurableHolds == ASSUME CleanFailures PROVE Spec => []Durable
<1>1. SInv => Durable
  BY InvDurable DEF CleanFailures
<1> QED BY <1>1, Always, PTL

(* Nothing is recorded twice or out of order, retries, crashes and the     *)
(* trimmed backlog included (_trim_queue, the frame that is put back).     *)
THEOREM InOrderHolds == ASSUME CleanFailures PROVE Spec => []InOrder
<1>1. SInv => InOrder
  BY DEF SInv, Order
<1> QED BY <1>1, Always, PTL

(* Every record is in a file of the hour it was received in (rotation).    *)
THEOREM OwnHourHolds == ASSUME CleanFailures PROVE Spec => []OwnHour
<1>1. SInv => OwnHour
  BY DEF SInv, Order
<1> QED BY <1>1, Always, PTL

(* A manifest describes the file beside it, here and in storage, and a     *)
(* file is removed only when storage has it and its manifest (_finalize,   *)
(* recover_partial, upload_pending, enforce_retention).                    *)
THEOREM ManifestTrueHolds == ASSUME CleanFailures PROVE Spec => []ManifestTrue
<1>1. SInv => ManifestTrue
  BY InvManifest
<1> QED BY <1>1, Always, PTL

=============================================================================

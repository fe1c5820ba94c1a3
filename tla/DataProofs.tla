----------------------------- MODULE DataProofs -----------------------------
(***************************************************************************)
(* What DataParts says of its parts, for every value of their constants.   *)
(* Each part's module states its inductive invariant, in named pieces; here*)
(* every step of the part is shown to keep them.                           *)
(***************************************************************************)
EXTENDS DataParts, Sequences, TLAPS

-----------------------------------------------------------------------------
(* The dead-man switch.                                                    *)

LEMMA SwitchConstants ==
  /\ Renew \in Nat /\ Countdown \in Nat /\ DrillCountdown \in Nat /\ SwitchEnd \in Nat
  /\ Delay \in Nat /\ Delay > 0
  /\ Accounts \subseteq Switch!Bounds
  /\ Renew + 3 * Delay < Countdown
BY SwitchAssumption DEF Switch!DeadManAssumption, Switch!Bounds

LEMMA SwitchInit == ASSUME Switch!Init PROVE Switch!SwitchInv
<1> USE SwitchConstants DEF Switch!Init, Switch!NoAsk, Switch!NoDrill, Switch!Hold
<1>1. Switch!TypeOK
  BY DEF Switch!TypeOK, Switch!Times, Switch!Asks, Switch!Drills
<1>2. Switch!Past /\ Switch!LoopInTime /\ Switch!DrillInTime /\ Switch!DeadIsStill
  BY DEF Switch!Past, Switch!LoopInTime, Switch!DrillInTime, Switch!DeadIsStill
<1>3. Switch!AskIsAsked /\ Switch!DrillIsExcused /\ Switch!Remembered /\ Switch!Renewed
  BY DEF Switch!AskIsAsked, Switch!DrillIsExcused, Switch!Remembered, Switch!Renewed
<1>4. Switch!EntryIsKnown /\ Switch!CoveredSoon /\ Switch!LeftCovered /\ Switch!NothingIsCut
  BY DEF Switch!EntryIsKnown, Switch!CoveredSoon, Switch!LeftCovered, Switch!CoverTime,
    Switch!NothingIsCut
<1>5. QED
  BY <1>1, <1>2, <1>3, <1>4 DEF Switch!SwitchInv

(* One step keeps each piece of the invariant.                             *)
LEMMA SwitchStep == ASSUME Switch!SwitchInv, Switch!Next PROVE Switch!SwitchInv'
<1> USE SwitchConstants DEF Switch!SwitchInv, Switch!TypeOK, Switch!Times, Switch!memory,
    Switch!account, Switch!history, Switch!Next, Switch!PlaceEntry, Switch!CancelEntry,
    Switch!EntryFills, Switch!Told, Switch!PlaceExit, Switch!PositionCloses, Switch!Pass,
    Switch!Due, Switch!Needed, Switch!Idle, Switch!Execute, Switch!Answer, Switch!RequestFails,
    Switch!Crash, Switch!Restart, Switch!DrillPlaces, Switch!DrillArms, Switch!DrillEnds,
    Switch!DrillFails, Switch!Expire, Switch!Expired, Switch!Tick, Switch!NoAsk, Switch!NoDrill,
    Switch!Hold, Switch!Past, Switch!LoopInTime, Switch!DrillInTime, Switch!DeadIsStill
<1>1. Switch!TypeOK'
  <2>1. Switch!Times' BY DEF Switch!Drills
  <2>2. v5' \in Switch!Asks
    <3> USE DEF Switch!Asks
    <3>1. CASE v5' = v5 BY <3>1
    <3>2. CASE v5' = Switch!NoAsk BY <3>2
    <3>3. CASE v5' = [what |-> "arm", done |-> FALSE] BY <3>3
    <3>4. CASE v5' = [what |-> "off", done |-> FALSE] BY <3>4
    <3>5. CASE v5' = [v5 EXCEPT !.done = TRUE] BY <3>5
    <3>6. QED BY <3>1, <3>2, <3>3, <3>4, <3>5
  <2>3. v6' \in Switch!Drills BY DEF Switch!Drills
  <2>4. v14' \in Switch!Bounds BY DEF Switch!Fault, Switch!Spend, Switch!Bounds
  <2>5. v8' \subseteq {"entry", "exit", "drill"} OBVIOUS
  <2>6. QED BY ONLY <2>1, <2>2, <2>3, <2>4, <2>5 DEF Switch!TypeOK
<1> USE DEF Switch!Asks, Switch!Drills
<1>2. Switch!Past' BY <1>1
<1>3. Switch!LoopInTime' BY <1>1
<1>4. Switch!DrillInTime' BY <1>1
<1>5. Switch!DeadIsStill' BY <1>1
<1>6. Switch!AskIsAsked' BY DEF Switch!AskIsAsked
<1>7. Switch!DrillIsExcused'
  <2>1. CASE Switch!Execute
    BY ONLY <2>1, Switch!DrillIsExcused DEF Switch!Execute, Switch!Hold, Switch!DrillIsExcused
  <2>2. CASE UNCHANGED <<v6, v13>>
    BY ONLY <2>2, Switch!DrillIsExcused DEF Switch!DrillIsExcused
  <2>3. CASE v6' = Switch!NoDrill \/ v6'.at = "placed" \/ v13'
    BY ONLY <2>3 DEF Switch!NoDrill, Switch!DrillIsExcused
  <2>4. QED
    BY <2>1, <2>2, <2>3
<1> USE DEF Switch!AskIsAsked, Switch!DrillIsExcused
<1>8. Switch!Remembered' BY DEF Switch!Remembered
<1>9. Switch!Renewed' BY <1>1 DEF Switch!Remembered, Switch!Renewed
<1>10. Switch!NothingIsCut' BY DEF Switch!Renewed, Switch!NothingIsCut
<1>11. Switch!EntryIsKnown'
  <2> USE DEF Switch!EntryIsKnown
  <2>1. CASE Switch!Restart BY ONLY <2>1 DEF Switch!Restart, Switch!account, Switch!EntryIsKnown
  <2>2. CASE v7' = v7 /\ ((v8' \subseteq v8 \cup {"drill", "exit"} /\ v2' = v2) \/ v2' # 0)
    BY ONLY <2>2, Switch!EntryIsKnown DEF Switch!EntryIsKnown
  <2>3. CASE Switch!PlaceEntry BY ONLY <2>3 DEF Switch!PlaceEntry, Switch!EntryIsKnown
  <2>4. CASE "entry" \notin v8' BY <2>4
  <2>5. QED BY <2>1, <2>2, <2>3, <2>4
<1> USE DEF Switch!EntryIsKnown, Switch!CoveredSoon, Switch!Covered, Switch!CoverTime
<1>12. Switch!CoveredSoon' BY <1>1, <1>2
<1>13. Switch!LeftCovered' BY <1>1, <1>2 DEF Switch!LeftCovered
<1>14. QED
  BY ONLY <1>1, <1>2, <1>3, <1>4, <1>5, <1>6, <1>7, <1>8, <1>9, <1>10, <1>11, <1>12, <1>13
    DEF Switch!SwitchInv

LEMMA SwitchMeans ==
  ASSUME Switch!SwitchInv
  PROVE  Switch!AbandonedEntriesEnd /\ Switch!EntriesAreCovered /\ Switch!NothingIsCut
<1> USE SwitchConstants DEF Switch!SwitchInv, Switch!TypeOK, Switch!Times, Switch!Past,
    Switch!CoverTime, Switch!Hold
<1>1. Switch!AbandonedEntriesEnd
  BY DEF Switch!AbandonedEntriesEnd, Switch!LeftCovered
<1>2. Switch!EntriesAreCovered
  BY DEF Switch!EntriesAreCovered, Switch!CoveredSoon, Switch!Covered, Switch!LoopInTime,
    Switch!DrillInTime, Switch!DrillTime, Switch!Drills
<1>3. QED
  BY <1>1, <1>2

-----------------------------------------------------------------------------
(* The archive imports.                                                    *)

LEMMA VisionInit == ASSUME Vision!Init PROVE Vision!VisionInv
BY ArchiveAssumption DEF Vision!Init, Vision!VisionInv, Vision!Idle, Vision!NoFile, Vision!Damaged

LEMMA VisionStep == ASSUME Vision!VisionInv, Vision!Next PROVE Vision!VisionInv'
<1> USE ArchiveAssumption DEF Vision!VisionInv, Vision!NoFile, Vision!Damaged, Vision!Idle
<1>1. CASE Vision!Publish
  BY <1>1 DEF Vision!Publish
<1>2. CASE Vision!Start
  BY <1>2 DEF Vision!Start
<1>3. CASE Vision!Die
  BY <1>3 DEF Vision!Die
<1>4. CASE Vision!FetchStep
  <2> UNCHANGED <<v1, v2, v7>>
    BY <1>4 DEF Vision!FetchStep
  <2>1. CASE Vision!RequestFails /\ v4' = v4
    <3>1. CASE UNCHANGED v6 /\ v5' = [v5 EXCEPT !.step = "data", !.attempt = @ + 1]
      <4>1. v5' = [step |-> "data", attempt |-> v5.attempt + 1, data |-> v5.data]
        BY <2>1, <3>1
      <4>2. QED
        BY <2>1, <3>1, <4>1 DEF Vision!RequestFails
    <3>2. CASE Vision!Ends("error")
      BY <2>1, <3>2 DEF Vision!RequestFails, Vision!Ends
    <3>3. QED
      BY <2>1, <3>1, <3>2 DEF Vision!RequestFails, Vision!Again
  <2>2. CASE Vision!Data /\ v4' = v4
    <3>1. CASE \E end \in {"missing", "checksum_mismatch"} : Vision!Ends(end) /\ UNCHANGED v3
      BY <2>2, <3>1 DEF Vision!Ends
    <3>2. ASSUME NEW data \in {v1, Vision!Damaged}, v1 # Vision!NoFile, v2 = Vision!NoFile,
                 v5' = [v5 EXCEPT !.step = "checksum", !.data = data], UNCHANGED <<v3, v6>>
          PROVE  Vision!VisionInv'
      <4>1. v5' \in [step : {"checksum"}, attempt : Nat, data : {data}]
        BY <2>2, <3>2
      <4>2. QED
        BY <2>2, <3>2, <4>1 DEF Vision!Data
    <3>3. CASE v2 # Vision!NoFile /\ Vision!Store(v2)
      BY <2>2, <3>3 DEF Vision!Store
    <3>4. QED
      BY <2>2, <3>1, <3>2, <3>3 DEF Vision!Data
  <2>3. CASE Vision!Checksum /\ v4' = v4
    <3>1. CASE Vision!Store(v5.data) /\ v5.data = v1
      BY <2>3, <3>1 DEF Vision!Store, Vision!Checksum
    <3>2. CASE Vision!Ends("checksum_mismatch") /\ UNCHANGED v3
      BY <2>3, <3>2 DEF Vision!Ends
    <3>3. QED
      BY <2>3, <3>1, <3>2 DEF Vision!Checksum
  <2>4. CASE Vision!Convert
    BY <2>4 DEF Vision!Convert
  <2>5. QED
    BY <1>4, <2>1, <2>2, <2>3, <2>4 DEF Vision!FetchStep
<1>5. QED
  BY <1>1, <1>2, <1>3, <1>4 DEF Vision!Next

LEMMA VisionMeans == ASSUME Vision!VisionInv PROVE Vision!FetchedIsVerified
BY ArchiveAssumption DEF Vision!VisionInv, Vision!FetchedIsVerified, Vision!NoFile, Vision!Damaged

LEMMA TardisInit == ASSUME Tardis!Init PROVE Tardis!TardisInv
BY DEF Tardis!Init, Tardis!TardisInv, Tardis!TypeOK, Tardis!FileInv, Tardis!Over, Tardis!Steps

(* A step of one file leaves the others alone.                             *)
LEMMA TardisStep == ASSUME Tardis!TardisInv, Tardis!Next PROVE Tardis!TardisInv'
<1> USE ArchiveAssumption DEF Tardis!TardisInv, Tardis!TypeOK, Tardis!Steps, Tardis!disk
<1>1. CASE Tardis!StartRun
  BY <1>1 DEF Tardis!StartRun, Tardis!Waiting, Tardis!FileInv
<1>2. CASE Tardis!Die
  BY <1>2 DEF Tardis!Die, Tardis!Over, Tardis!FileInv
<1>3. CASE \E f \in Files : Tardis!Republish(f)
  BY <1>3 DEF Tardis!Republish, Tardis!FileInv
<1>4. CASE Tardis!ImportStep
  <2> PICK f \in Files :
        \/ Tardis!Begin(f) \/ Tardis!Cached(f) \/ Tardis!Downloaded(f) \/ Tardis!DownloadFails(f)
        \/ Tardis!Quota(f) \/ Tardis!Convert(f) \/ Tardis!Mirror(f) \/ Tardis!Sidecar(f)
    BY <1>4 DEF Tardis!ImportStep
  <2> UNCHANGED <<v1, v7, v8, v10, v11>>
    BY <1>4 DEF Tardis!ImportStep
  <2> USE DEF Tardis!Finish, Tardis!Over, Tardis!Again
  <2>1. \A g \in Files \ {f} :
          /\ v2'[g] = v2[g] /\ v3'[g] = v3[g] /\ v4'[g] = v4[g]
          /\ v5'[g] = v5[g] /\ v6'[g] = v6[g]
    BY DEF Tardis!Begin, Tardis!Cached, Tardis!Downloaded, Tardis!DownloadFails, Tardis!Quota,
      Tardis!Convert, Tardis!Mirror, Tardis!Sidecar
  <2>2. \A g \in Files \ {f} : Tardis!FileInv(g)'
    BY <2>1 DEF Tardis!FileInv
  <2>3. CASE Tardis!Begin(f)
    <3> USE <2>3 DEF Tardis!Begin
    <3>1. Tardis!TypeOK'
      OBVIOUS
    <3>2. Tardis!FileInv(f)'
      BY DEF Tardis!FileInv
    <3>3. QED
      BY <2>2, <3>1, <3>2
  <2>4. CASE Tardis!Cached(f)
    <3> USE <2>4 DEF Tardis!Cached
    <3>1. Tardis!TypeOK'
      <4>1. v2' \in [Files -> Nat] /\ UNCHANGED <<v1, v3, v4>>
        OBVIOUS
      <4>2. v5' \in [Files -> [step : Tardis!Steps, attempt : Nat, got : Nat]] /\ DOMAIN v6' = Files
        OBVIOUS
      <4>3. QED
        BY <4>1, <4>2
    <3>2. Tardis!FileInv(f)'
      BY DEF Tardis!FileInv
    <3>3. QED
      BY <2>2, <3>1, <3>2
  <2>5. CASE Tardis!Downloaded(f)
    <3> USE <2>5 DEF Tardis!Downloaded
    <3>1. Tardis!TypeOK'
      OBVIOUS
    <3>2. Tardis!FileInv(f)'
      BY DEF Tardis!FileInv
    <3>3. QED
      BY <2>2, <3>1, <3>2
  <2>6. CASE Tardis!DownloadFails(f)
    <3> USE <2>6 DEF Tardis!DownloadFails
    <3>1. Tardis!TypeOK'
      OBVIOUS
    <3>2. Tardis!FileInv(f)'
      BY DEF Tardis!FileInv
    <3>3. QED
      BY <2>2, <3>1, <3>2
  <2>7. CASE Tardis!Quota(f)
    <3> USE <2>7 DEF Tardis!Quota
    <3>1. Tardis!TypeOK'
      OBVIOUS
    <3>2. Tardis!FileInv(f)'
      BY DEF Tardis!FileInv
    <3>3. QED
      BY <2>2, <3>1, <3>2
  <2>8. CASE Tardis!Convert(f)
    <3> USE <2>8 DEF Tardis!Convert
    <3>1. Tardis!TypeOK'
      <4>1. v2' \in [Files -> Nat] OBVIOUS
      <4>2. v5' \in [Files -> [step : Tardis!Steps, attempt : Nat, got : Nat]]
        <5>1. CASE v5' = [v5 EXCEPT ![f].step = "mirror"] BY ONLY <5>1, Tardis!TypeOK DEF Tardis!TypeOK,
          Tardis!Steps
        <5>2. CASE Tardis!Again(f, "corrupt") BY ONLY <5>2, Tardis!TypeOK DEF Tardis!TypeOK, Tardis!Steps,
          Tardis!Again, Tardis!Finish, Tardis!Over
        <5>3. QED BY <5>1, <5>2
      <4>3. DOMAIN v6' = Files OBVIOUS
      <4>4. QED BY <4>1, <4>2, <4>3
    <3>2. Tardis!FileInv(f)'
      BY DEF Tardis!FileInv
    <3>3. QED
      BY <2>2, <3>1, <3>2
  <2>9. CASE Tardis!Mirror(f)
    <3> USE <2>9 DEF Tardis!Mirror
    <3>1. Tardis!TypeOK'
      OBVIOUS
    <3>2. Tardis!FileInv(f)'
      BY DEF Tardis!FileInv
    <3>3. QED
      BY <2>2, <3>1, <3>2
  <2>10. CASE Tardis!Sidecar(f)
    <3> USE <2>10 DEF Tardis!Sidecar
    <3>1. Tardis!TypeOK'
      OBVIOUS
    <3>2. Tardis!FileInv(f)'
      BY DEF Tardis!FileInv
    <3>3. QED
      BY <2>2, <3>1, <3>2
  <2>11. QED
    BY <2>3, <2>4, <2>5, <2>6, <2>7, <2>8, <2>9, <2>10
<1>5. QED
  BY <1>1, <1>2, <1>3, <1>4 DEF Tardis!Next

LEMMA TardisMeans == ASSUME Tardis!TardisInv PROVE Tardis!ImportedIsWhole
BY DEF Tardis!TardisInv, Tardis!FileInv, Tardis!ImportedIsWhole

LEMMA QuotaStep ==
  ASSUME Tardis!TardisInv, Tardis!QuotaIsMet, Tardis!Next PROVE Tardis!QuotaIsMet'
<1> USE DEF Tardis!TardisInv, Tardis!TypeOK, Tardis!QuotaIsMet
<1>1. CASE Tardis!StartRun
  BY <1>1 DEF Tardis!StartRun
<1>2. CASE Tardis!Die \/ \E f \in Files : Tardis!Republish(f)
  BY <1>2 DEF Tardis!Die, Tardis!Republish
<1>3. CASE Tardis!ImportStep
  <2> PICK f \in Files :
        \/ Tardis!Begin(f) \/ Tardis!Cached(f) \/ Tardis!Downloaded(f) \/ Tardis!DownloadFails(f)
        \/ Tardis!Quota(f) \/ Tardis!Convert(f) \/ Tardis!Mirror(f) \/ Tardis!Sidecar(f)
    BY <1>3 DEF Tardis!ImportStep
  <2> USE DEF Tardis!Finish, Tardis!Over, Tardis!Again
  <2>1. CASE Tardis!Begin(f) \/ Tardis!Quota(f)
    BY <2>1 DEF Tardis!Begin, Tardis!Quota
  <2>2. CASE \/ Tardis!Cached(f) \/ Tardis!Downloaded(f) \/ Tardis!DownloadFails(f)
             \/ Tardis!Convert(f) \/ Tardis!Mirror(f) \/ Tardis!Sidecar(f)
    <3>1. v9' = v9 /\ (v6' = v6 \/ \E status \in {"cached", "corrupt", "error", "missing",
                                   "unauthorized", "downloaded", "empty"} : v6' = [v6 EXCEPT ![f] = status])
      BY <2>2 DEF Tardis!Cached, Tardis!Downloaded, Tardis!DownloadFails, Tardis!Convert,
        Tardis!Mirror, Tardis!Sidecar
    <3>2. QED
      BY <3>1
  <2>3. QED
    BY <2>1, <2>2
<1>4. QED
  BY <1>1, <1>2, <1>3 DEF Tardis!Next

(* One step after the other: who begins has not met the quota, and what has*)
(* its sidecar is not at work.                                             *)
LEMMA QuotaKeeps ==
  ASSUME Tardis!TardisInv, Tardis!QuotaIsMet, Tardis!Next PROVE Tardis!QuotaHolds
<1> USE DEF Tardis!TardisInv, Tardis!TypeOK, Tardis!disk
<1>1. CASE Tardis!StartRun
  BY <1>1 DEF Tardis!StartRun, Tardis!Waiting, Tardis!QuotaHolds
<1>2. CASE Tardis!Die \/ \E f \in Files : Tardis!Republish(f)
  BY <1>2 DEF Tardis!Die, Tardis!Over, Tardis!Republish, Tardis!QuotaHolds
<1>3. CASE Tardis!ImportStep
  <2> PICK f \in Files :
        \/ Tardis!Begin(f) \/ Tardis!Cached(f) \/ Tardis!Downloaded(f) \/ Tardis!DownloadFails(f)
        \/ Tardis!Quota(f) \/ Tardis!Convert(f) \/ Tardis!Mirror(f) \/ Tardis!Sidecar(f)
    BY <1>3 DEF Tardis!ImportStep
  <2>1. CASE Tardis!Begin(f)
    BY <2>1 DEF Tardis!Begin, Tardis!Finish, Tardis!Over, Tardis!QuotaHolds, Tardis!QuotaIsMet
  <2>2. CASE \/ Tardis!Cached(f) \/ Tardis!Downloaded(f) \/ Tardis!DownloadFails(f)
             \/ Tardis!Quota(f) \/ Tardis!Convert(f) \/ Tardis!Mirror(f) \/ Tardis!Sidecar(f)
    <3>1. v5[f].step # "waiting" /\ \A g \in Files \ {f} : v5'[g] = v5[g]
      BY <2>2 DEF Tardis!Cached, Tardis!Downloaded, Tardis!DownloadFails, Tardis!Quota,
        Tardis!Convert, Tardis!Mirror, Tardis!Sidecar, Tardis!Again, Tardis!Finish
    <3>2. /\ Tardis!Mirror(f) \/ v3' = v3
          /\ Tardis!Sidecar(f) \/ v4' = v4
      BY <2>2 DEF Tardis!Cached, Tardis!Downloaded, Tardis!DownloadFails, Tardis!Quota,
        Tardis!Convert, Tardis!Mirror, Tardis!Sidecar
    <3>3. Tardis!Mirror(f) => v4[f] = 0 /\ \A g \in Files \ {f} : v3'[g] = v3[g]
      BY DEF Tardis!Mirror, Tardis!FileInv
    <3>4. Tardis!Sidecar(f) => v4[f] = 0 /\ \A g \in Files \ {f} : v4'[g] = v4[g]
      BY DEF Tardis!Sidecar, Tardis!FileInv
    <3>5. \A g \in Files : v4[g] # 0 => v4'[g] = v4[g] /\ v3'[g] = v3[g]
      BY <3>2, <3>3, <3>4
    <3>6. \A g \in Files : v5'[g].step = "download" => v5[g].step # "waiting"
      BY <3>1
    <3>7. QED
      BY <3>5, <3>6 DEF Tardis!QuotaHolds
  <2>3. QED
    BY <2>1, <2>2
<1>4. QED
  BY <1>1, <1>2, <1>3 DEF Tardis!Next

-----------------------------------------------------------------------------
(* The daily job of the lake.                                              *)

LEMMA DailyConstants ==
  /\ Venues \in Seq(Daily!VenueSet)
  /\ DOMAIN Tables = 1..Len(Tables) /\ Len(Tables) \in Nat
BY LakeAssumption DEF Daily!LakeAssumption

LEMMA DailyInit == ASSUME Daily!Init PROVE Daily!DailyInv
<1> USE DailyConstants DEF Daily!Init, Daily!NoJob
<1>1. Daily!TypeOK
  BY DEF Daily!TypeOK, Daily!Jobs, Daily!Steps
<1>2. Daily!Untouched
  BY DEF Daily!Untouched, Daily!Consistent, Daily!NoReport
<1>3. Daily!AtWork
  BY DEF Daily!AtWork
<1>4. Daily!DiesRarely
  BY DEF Daily!DiesRarely, Daily!ToCome
<1>5. QED
  BY <1>1, <1>2, <1>3, <1>4 DEF Daily!DailyInv

(* The rest of a non-empty sequence, and what is ahead in it.              *)
LEMMA RestOfVenues ==
  ASSUME NEW S, NEW s \in Seq(S), s # <<>>
  PROVE  /\ Tail(s) \in Seq(S) /\ Head(s) \in S /\ Len(s) > 0 /\ Head(s) = s[1]
         /\ \A i \in DOMAIN s :
              s[i] = Head(s) \/ (\E j \in DOMAIN Tail(s) : Tail(s)[j] = s[i])
<1>1. \A i \in DOMAIN s : i = 1 \/ (i - 1 \in DOMAIN Tail(s) /\ Tail(s)[i - 1] = s[i])
  OBVIOUS
<1>2. Head(s) = s[1] /\ Tail(s) \in Seq(S) /\ Head(s) \in S /\ Len(s) > 0
  OBVIOUS
<1>3. QED
  BY ONLY <1>1, <1>2

(* What the job in progress is after the steps that change it.             *)
LEMMA JobShapes ==
  ASSUME v9 \in Daily!Jobs
  PROVE
    /\ \A by : Daily!Begin(by) =>
         v9' = [step |-> "venue", by |-> by, left |-> Venues, at |-> 1,
                 of |-> 0, done |-> {}, problem |-> FALSE]
    /\ \A p, d : Daily!NextVenue(p, d) =>
         v9' = [step |-> "venue", by |-> v9.by, left |-> Tail(v9.left), at |-> 1,
                 of |-> v9.of, done |-> 
                   (IF d THEN v9.done \cup {Head(v9.left)} ELSE v9.done), problem |-> (v9.problem \/ p)]
    /\ v9' = [v9 EXCEPT !.step = "read"] =>
         v9' = [step |-> "read", by |-> v9.by, left |-> v9.left, at |-> v9.at,
                 of |-> v9.of, done |-> v9.done, problem |-> v9.problem]
    /\ \A n : v9' = [v9 EXCEPT !.step = "write", !.of = n] =>
         v9' = [step |-> "write", by |-> v9.by, left |-> v9.left, at |-> v9.at,
                 of |-> n, done |-> v9.done, problem |-> v9.problem]
    /\ v9' = [v9 EXCEPT !.at = @ + 1] =>
         v9' = [step |-> v9.step, by |-> v9.by, left |-> v9.left, at |-> v9.at + 1,
                 of |-> v9.of, done |-> v9.done, problem |-> v9.problem]
    /\ v9' = [v9 EXCEPT !.step = "end"] =>
         v9' = [step |-> "end", by |-> v9.by, left |-> v9.left, at |-> v9.at,
                 of |-> v9.of, done |-> v9.done, problem |-> v9.problem]
<1> USE DEF Daily!Jobs
<1>1. ASSUME NEW by, Daily!Begin(by)
      PROVE  v9' = [step |-> "venue", by |-> by, left |-> Venues, at |-> 1,
                 of |-> 0, done |-> {}, problem |-> FALSE]
  BY <1>1 DEF Daily!Begin, Daily!NoJob
<1>2. ASSUME NEW p, NEW d, Daily!NextVenue(p, d)
      PROVE  v9' = [step |-> "venue", by |-> v9.by, left |-> Tail(v9.left), at |-> 1,
                 of |-> v9.of, done |-> 
                   (IF d THEN v9.done \cup {Head(v9.left)} ELSE v9.done), problem |-> (v9.problem \/ p)]
  BY <1>2 DEF Daily!NextVenue, Daily!Venue
<1>3. ASSUME NEW n, v9' = [v9 EXCEPT !.step = "write", !.of = n]
      PROVE  v9' = [step |-> "write", by |-> v9.by, left |-> v9.left, at |-> v9.at,
                 of |-> n, done |-> v9.done, problem |-> v9.problem]
  BY <1>3
<1>4. ASSUME v9' = [v9 EXCEPT !.at = @ + 1]
      PROVE  v9' = [step |-> v9.step, by |-> v9.by, left |-> v9.left, at |-> v9.at + 1,
                 of |-> v9.of, done |-> v9.done, problem |-> v9.problem]
  BY <1>4
<1>5. QED
  BY <1>1, <1>2, <1>3, <1>4

(* A run begins with every venue ahead of it.                              *)
LEMMA BeginKeeps ==
  ASSUME Daily!TypeOK, NEW by \in {"catch_up", "schedule", "hand"}, Daily!Begin(by)
  PROVE  v9' \in Daily!Jobs /\ Daily!AtWork' /\ v9'.done = {} /\ v9'.step = "venue"
<1>1. v9' = [step |-> "venue", by |-> by, left |-> Venues, at |-> 1,
                 of |-> 0, done |-> {}, problem |-> FALSE]
  BY JobShapes DEF Daily!TypeOK
<1>2. v9' \in Daily!Jobs
  BY <1>1, DailyConstants DEF Daily!Jobs, Daily!Steps
<1>3. \A v \in Daily!VenueSet : \E i \in DOMAIN Venues : Venues[i] = v
  BY DEF Daily!VenueSet
<1>4. QED
  BY ONLY <1>1, <1>2, <1>3 DEF Daily!AtWork, Daily!Whole, Daily!Ahead, Daily!Venue

(* It leaves a venue behind, with a problem or with the venue whole.       *)
LEMMA NextVenueKeeps ==
  ASSUME Daily!TypeOK, Daily!AtWork, v9.left # <<>>, v9.step # "idle",
         NEW p \in BOOLEAN, NEW d \in BOOLEAN, Daily!NextVenue(p, d), UNCHANGED v5,
         \A v \in Daily!VenueSet : v # Head(v9.left) => v6'[v] = v6[v],
         p \/ /\ d /\ v6'[Head(v9.left)] # 0
              /\ \A i \in DOMAIN Tables : v5[Head(v9.left)][i] = v6'[Head(v9.left)]
  PROVE  v9' \in Daily!Jobs /\ Daily!AtWork' /\ v9'.step = "venue" /\ (d \/ v9'.done = v9.done)
<1>1. v9' = [step |-> "venue", by |-> v9.by, left |-> Tail(v9.left), at |-> 1,
                 of |-> v9.of, done |-> 
                   (IF d THEN v9.done \cup {Head(v9.left)} ELSE v9.done), problem |-> (v9.problem \/ p)]
  BY JobShapes DEF Daily!TypeOK
<1>2. /\ Tail(v9.left) \in Seq(Daily!VenueSet) /\ Head(v9.left) \in Daily!VenueSet
      /\ \A i \in DOMAIN v9.left :
           v9.left[i] = Head(v9.left) \/ (\E j \in DOMAIN Tail(v9.left) : Tail(v9.left)[j] = v9.left[i])
  BY RestOfVenues DEF Daily!TypeOK, Daily!Jobs
<1>3. v9' \in Daily!Jobs
  BY <1>1, <1>2 DEF Daily!TypeOK, Daily!Jobs, Daily!Steps
<1>4. ASSUME NEW v \in Daily!VenueSet, ~ v9'.problem
      PROVE  Daily!Ahead(v)' \/ (v \in v9'.done /\ Daily!Whole(v)')
  <2>1. ~ v9.problem /\ ~ p /\ d
    BY <1>1, <1>4
  <2>2. CASE v = Head(v9.left)
    BY <1>1, <2>1, <2>2 DEF Daily!Whole
  <2>3. CASE v # Head(v9.left)
    BY <1>1, <1>2, <2>1, <2>3 DEF Daily!AtWork, Daily!Whole, Daily!Ahead, Daily!Venue
  <2>4. QED
    BY <2>2, <2>3
<1>5. QED
  BY ONLY <1>1, <1>3, <1>4 DEF Daily!AtWork

(* One step keeps each piece of the invariant: around the job ...          *)
LEMMA AroundStep ==
  ASSUME Daily!DailyInv, Daily!Next, ~ Daily!RunStep PROVE Daily!DailyInv'
<1> USE DailyConstants DEF Daily!DailyInv, Daily!TypeOK, Daily!NoJob
<1>1. CASE (\E v \in Daily!VenueSet : Daily!Finalized(v))
  <2> USE <1>1 DEF Daily!Finalized
  <2>1. Daily!TypeOK'
    <3>1. (v3 \in [Daily!VenueSet -> [version : {1, 2}, partial : BOOLEAN]])'
      OBVIOUS
    <3>2. (v5 \in [Daily!VenueSet -> [DOMAIN Tables -> Nat]] /\ v6 \in [Daily!VenueSet -> Nat])'
      OBVIOUS
    <3>3. (v9 \in Daily!Jobs)'
      BY DEF Daily!Jobs, Daily!Steps
    <3>4. (v11 \in Nat /\ v13 \in Nat)'
      OBVIOUS
    <3>5. QED
      BY ONLY <3>1, <3>2, <3>3, <3>4 DEF Daily!TypeOK
  <2>2. Daily!Untouched'
    BY DEF Daily!Untouched, Daily!Consistent
  <2>3. Daily!AtWork'
    <3>1. UNCHANGED <<v5, v6, v8, v9>>
      OBVIOUS
    <3>2. QED
      BY ONLY <3>1, Daily!AtWork DEF Daily!AtWork, Daily!Whole, Daily!Ahead, Daily!Venue
  <2>4. Daily!DiesRarely'
    BY DEF Daily!DiesRarely, Daily!ToCome
  <2>5. QED
    BY ONLY <2>1, <2>2, <2>3, <2>4 DEF Daily!DailyInv
<1>2. CASE Daily!DiskChanges
  <2> USE <1>2 DEF Daily!DiskChanges
  <2>1. Daily!TypeOK'
    <3>1. (v3 \in [Daily!VenueSet -> [version : {1, 2}, partial : BOOLEAN]])'
      OBVIOUS
    <3>2. (v5 \in [Daily!VenueSet -> [DOMAIN Tables -> Nat]] /\ v6 \in [Daily!VenueSet -> Nat])'
      OBVIOUS
    <3>3. (v9 \in Daily!Jobs)'
      BY DEF Daily!Jobs, Daily!Steps
    <3>4. (v11 \in Nat /\ v13 \in Nat)'
      OBVIOUS
    <3>5. QED
      BY ONLY <3>1, <3>2, <3>3, <3>4 DEF Daily!TypeOK
  <2>2. Daily!Untouched'
    BY DEF Daily!Untouched, Daily!Consistent
  <2>3. Daily!AtWork'
    <3>1. UNCHANGED <<v5, v6, v8, v9>>
      OBVIOUS
    <3>2. QED
      BY ONLY <3>1, Daily!AtWork DEF Daily!AtWork, Daily!Whole, Daily!Ahead, Daily!Venue
  <2>4. Daily!DiesRarely'
    BY DEF Daily!DiesRarely, Daily!ToCome
  <2>5. QED
    BY ONLY <2>1, <2>2, <2>3, <2>4 DEF Daily!DailyInv
<1>3. CASE Daily!Start
  <2> USE <1>3 DEF Daily!Start, Daily!needs_catch_up
  <2>0. \/ v9' = v9
        \/ v9' \in Daily!Jobs /\ Daily!AtWork' /\ v9'.done = {} /\ v9'.step = "venue"
    BY BeginKeeps
  <2>1. Daily!TypeOK'
    <3>1. (v3 \in [Daily!VenueSet -> [version : {1, 2}, partial : BOOLEAN]])'
      OBVIOUS
    <3>2. (v5 \in [Daily!VenueSet -> [DOMAIN Tables -> Nat]] /\ v6 \in [Daily!VenueSet -> Nat])'
      OBVIOUS
    <3>3. (v9 \in Daily!Jobs)'
      BY <2>0 DEF Daily!Jobs, Daily!Steps
    <3>4. (v11 \in Nat /\ v13 \in Nat)'
      OBVIOUS
    <3>5. QED
      BY ONLY <3>1, <3>2, <3>3, <3>4 DEF Daily!TypeOK
  <2>2. Daily!Untouched'
    BY <2>0 DEF Daily!Untouched, Daily!Consistent
  <2>3. Daily!AtWork'
    <3>1. v9' = v9 => UNCHANGED <<v5, v6, v8, v9>>
      OBVIOUS
    <3>2. QED
      BY ONLY <3>1, <2>0, Daily!AtWork DEF Daily!AtWork, Daily!Whole, Daily!Ahead, Daily!Venue
  <2>4. Daily!DiesRarely'
    BY <2>0 DEF Daily!DiesRarely, Daily!ToCome
  <2>5. QED
    BY ONLY <2>1, <2>2, <2>3, <2>4 DEF Daily!DailyInv
<1>4. CASE Daily!MainSlot
  <2> USE <1>4 DEF Daily!MainSlot
  <2>0. \/ v9' = v9
        \/ v9' \in Daily!Jobs /\ Daily!AtWork' /\ v9'.done = {} /\ v9'.step = "venue"
    BY BeginKeeps
  <2>1. Daily!TypeOK'
    <3>1. (v3 \in [Daily!VenueSet -> [version : {1, 2}, partial : BOOLEAN]])'
      OBVIOUS
    <3>2. (v5 \in [Daily!VenueSet -> [DOMAIN Tables -> Nat]] /\ v6 \in [Daily!VenueSet -> Nat])'
      OBVIOUS
    <3>3. (v9 \in Daily!Jobs)'
      BY <2>0 DEF Daily!Jobs, Daily!Steps
    <3>4. (v11 \in Nat /\ v13 \in Nat)'
      OBVIOUS
    <3>5. QED
      BY ONLY <3>1, <3>2, <3>3, <3>4 DEF Daily!TypeOK
  <2>2. Daily!Untouched'
    BY <2>0 DEF Daily!Untouched, Daily!Consistent
  <2>3. Daily!AtWork'
    <3>1. v9' = v9 => UNCHANGED <<v5, v6, v8, v9>>
      OBVIOUS
    <3>2. QED
      BY ONLY <3>1, <2>0, Daily!AtWork DEF Daily!AtWork, Daily!Whole, Daily!Ahead, Daily!Venue
  <2>4. Daily!DiesRarely'
    BY <2>0 DEF Daily!DiesRarely, Daily!ToCome
  <2>5. QED
    BY ONLY <2>1, <2>2, <2>3, <2>4 DEF Daily!DailyInv
<1>5. CASE Daily!DayOver
  <2> USE <1>5 DEF Daily!DayOver
  <2>1. Daily!TypeOK'
    <3>1. (v3 \in [Daily!VenueSet -> [version : {1, 2}, partial : BOOLEAN]])'
      OBVIOUS
    <3>2. (v5 \in [Daily!VenueSet -> [DOMAIN Tables -> Nat]] /\ v6 \in [Daily!VenueSet -> Nat])'
      OBVIOUS
    <3>3. (v9 \in Daily!Jobs)'
      BY DEF Daily!Jobs, Daily!Steps
    <3>4. (v11 \in Nat /\ v13 \in Nat)'
      OBVIOUS
    <3>5. QED
      BY ONLY <3>1, <3>2, <3>3, <3>4 DEF Daily!TypeOK
  <2>2. Daily!Untouched'
    BY DEF Daily!Untouched, Daily!Consistent
  <2>3. Daily!AtWork'
    <3>1. UNCHANGED <<v5, v6, v8, v9>>
      OBVIOUS
    <3>2. QED
      BY ONLY <3>1, Daily!AtWork DEF Daily!AtWork, Daily!Whole, Daily!Ahead, Daily!Venue
  <2>4. Daily!DiesRarely'
    BY DEF Daily!DiesRarely, Daily!ToCome
  <2>5. QED
    BY ONLY <2>1, <2>2, <2>3, <2>4 DEF Daily!DailyInv
<1>6. CASE Daily!Manual
  <2> USE <1>6 DEF Daily!Manual
  <2>0. \/ v9' = v9
        \/ v9' \in Daily!Jobs /\ Daily!AtWork' /\ v9'.done = {} /\ v9'.step = "venue"
    BY BeginKeeps
  <2>1. Daily!TypeOK'
    <3>1. (v3 \in [Daily!VenueSet -> [version : {1, 2}, partial : BOOLEAN]])'
      OBVIOUS
    <3>2. (v5 \in [Daily!VenueSet -> [DOMAIN Tables -> Nat]] /\ v6 \in [Daily!VenueSet -> Nat])'
      OBVIOUS
    <3>3. (v9 \in Daily!Jobs)'
      BY <2>0 DEF Daily!Jobs, Daily!Steps
    <3>4. (v11 \in Nat /\ v13 \in Nat)'
      OBVIOUS
    <3>5. QED
      BY ONLY <3>1, <3>2, <3>3, <3>4 DEF Daily!TypeOK
  <2>2. Daily!Untouched'
    BY <2>0 DEF Daily!Untouched, Daily!Consistent
  <2>3. Daily!AtWork'
    <3>1. v9' = v9 => UNCHANGED <<v5, v6, v8, v9>>
      OBVIOUS
    <3>2. QED
      BY ONLY <3>1, <2>0, Daily!AtWork DEF Daily!AtWork, Daily!Whole, Daily!Ahead, Daily!Venue
  <2>4. Daily!DiesRarely'
    BY <2>0 DEF Daily!DiesRarely, Daily!ToCome
  <2>5. QED
    BY ONLY <2>1, <2>2, <2>3, <2>4 DEF Daily!DailyInv
<1>7. CASE Daily!Die
  <2> USE <1>7 DEF Daily!Die
  <2>1. Daily!TypeOK'
    <3>1. (v3 \in [Daily!VenueSet -> [version : {1, 2}, partial : BOOLEAN]])'
      OBVIOUS
    <3>2. (v5 \in [Daily!VenueSet -> [DOMAIN Tables -> Nat]] /\ v6 \in [Daily!VenueSet -> Nat])'
      OBVIOUS
    <3>3. (v9 \in Daily!Jobs)'
      BY DEF Daily!Jobs, Daily!Steps
    <3>4. (v11 \in Nat /\ v13 \in Nat)'
      OBVIOUS
    <3>5. QED
      BY ONLY <3>1, <3>2, <3>3, <3>4 DEF Daily!TypeOK
  <2>2. Daily!Untouched'
    BY DEF Daily!Untouched, Daily!Consistent
  <2>3. Daily!AtWork'
    BY DEF Daily!AtWork, Daily!Whole, Daily!Ahead, Daily!Venue
  <2>4. Daily!DiesRarely'
    BY DEF Daily!DiesRarely, Daily!ToCome
  <2>5. QED
    BY ONLY <2>1, <2>2, <2>3, <2>4 DEF Daily!DailyInv
<1>8. QED
  BY <1>1, <1>2, <1>3, <1>4, <1>5, <1>6, <1>7 DEF Daily!Next

(* An exception ends the run and is told.                                  *)
LEMMA RaiseKeeps ==
  ASSUME Daily!DailyInv, Daily!Raise, v9.step # "idle",
         UNCHANGED <<v1, v2, v3, v4, v11, v12, v13>>
  PROVE  Daily!DailyInv'
<1> USE DailyConstants DEF Daily!DailyInv, Daily!TypeOK, Daily!NoJob, Daily!Raise
<1>1. Daily!TypeOK'
  BY DEF Daily!Jobs, Daily!Steps
<1>2. Daily!Untouched'
  BY DEF Daily!Untouched
<1>3. Daily!AtWork'
  BY DEF Daily!AtWork
<1>4. Daily!DiesRarely'
  BY DEF Daily!DiesRarely, Daily!ToCome
<1>5. QED
  BY ONLY <1>1, <1>2, <1>3, <1>4 DEF Daily!DailyInv

(* ... and in it.                                                          *)
LEMMA RunStepKeeps ==
  ASSUME Daily!DailyInv, Daily!RunStep PROVE Daily!DailyInv'
<1> USE DEF Daily!DailyInv
<1>0. /\ UNCHANGED <<v1, v2, v3, v4, v11, v12, v13>>
      /\ v11 \in Nat /\ v13 \in Nat
      /\ v3 \in [Daily!VenueSet -> [version : {1, 2}, partial : BOOLEAN]]
      /\ v5 \in [Daily!VenueSet -> [DOMAIN Tables -> Nat]] /\ v6 \in [Daily!VenueSet -> Nat]
      /\ v9 \in Daily!Jobs
  BY DEF Daily!RunStep, Daily!TypeOK
<1>00. v9.left # <<>> => Head(v9.left) \in Daily!VenueSet
  BY RestOfVenues, <1>0 DEF Daily!Jobs
(* Of the job this says that it stays as it should.                        *)
<1> DEFINE JobKept == v9' \in Daily!Jobs /\ Daily!AtWork'
<1>a. ASSUME JobKept, v7', v9.step # "idle",
             v5' \in [Daily!VenueSet -> [DOMAIN Tables -> Nat]], v6' \in [Daily!VenueSet -> Nat]
      PROVE  Daily!DailyInv'
  <2>1. Daily!TypeOK'
    BY ONLY <1>0, <1>a DEF Daily!TypeOK
  <2>2. Daily!Untouched'
    BY ONLY <1>a DEF Daily!Untouched
  <2>3. Daily!DiesRarely'
    BY <1>0, <1>a DEF Daily!DiesRarely, Daily!ToCome
  <2>4. QED
    BY ONLY <1>a, <2>1, <2>2, <2>3 DEF Daily!DailyInv
<1>1. CASE Daily!BeginVenue
  <2>1. CASE v4
    <3>1. JobKept /\ v9'.step = "venue" /\ v9'.done = v9.done
      BY <1>0, <1>1, <2>1, NextVenueKeeps DEF Daily!BeginVenue
    <3>2. v9.step = "venue" /\ UNCHANGED <<v5, v6, v7, v8, v10>>
      BY <1>1, <2>1 DEF Daily!BeginVenue
    <3>3. Daily!TypeOK'
      BY ONLY <1>0, <3>1, <3>2 DEF Daily!TypeOK
    <3>4. Daily!Untouched'
      BY ONLY Daily!Untouched, <3>1, <3>2 DEF Daily!Untouched, Daily!Consistent
    <3>5. Daily!DiesRarely'
      BY <1>0, <3>1, <3>2 DEF Daily!DiesRarely, Daily!ToCome
    <3>6. QED
      BY ONLY <3>1, <3>3, <3>4, <3>5 DEF Daily!DailyInv
  <2>2. CASE ~ v4
    <3>0. v9.step = "venue" /\ v7' /\ UNCHANGED <<v5, v6>>
      BY <1>1, <2>2 DEF Daily!BeginVenue
    <3>1. v9' = [step |-> "read", by |-> v9.by, left |-> v9.left, at |-> v9.at,
                 of |-> v9.of, done |-> v9.done, problem |-> v9.problem]
      BY <1>0, <1>1, <2>2, JobShapes DEF Daily!BeginVenue
    <3>2. v9' \in Daily!Jobs
      BY <1>0, <3>1 DEF Daily!Jobs, Daily!Steps
    <3>3. Daily!AtWork'
      BY <1>0, <1>1, <2>2, <3>1 DEF Daily!BeginVenue, Daily!AtWork, Daily!Whole, Daily!Ahead, Daily!Venue
    <3>4. QED
      BY ONLY <1>0, <1>a, <3>0, <3>2, <3>3
  <2>3. QED
    BY <2>1, <2>2
<1>2. CASE Daily!Read
  <2>0. v7 /\ v9.left # <<>> /\ v9.step # "idle"
    BY <1>2 DEF Daily!Read, Daily!Untouched, Daily!AtWork
  <2>1. CASE Daily!NextVenue(TRUE, TRUE) /\ UNCHANGED <<v5, v6, v7, v8, v10>>
    <3>1. JobKept
      BY <1>0, <1>2, <2>0, <2>1, NextVenueKeeps DEF Daily!Read
    <3>2. QED
      BY ONLY <1>0, <1>a, <2>0, <2>1, <3>1
  <2>2. CASE Daily!NextVenue(TRUE, FALSE) /\ UNCHANGED <<v5, v6, v7, v8, v10>>
    <3>1. JobKept
      BY <1>0, <1>2, <2>0, <2>2, NextVenueKeeps DEF Daily!Read
    <3>2. QED
      BY ONLY <1>0, <1>a, <2>0, <2>2, <3>1
  <2>3. CASE /\ v9' = [v9 EXCEPT !.step = "write", !.of = v3[Daily!Venue].version]
             /\ UNCHANGED <<v5, v6, v7, v8, v10>>
    <3>1. PICK n \in {1, 2} : v9' = [v9 EXCEPT !.step = "write", !.of = n]
      BY <1>0, <1>00, <2>0, <2>3 DEF Daily!Venue
    <3>2. v9' = [step |-> "write", by |-> v9.by, left |-> v9.left, at |-> v9.at,
                 of |-> n, done |-> v9.done, problem |-> v9.problem]
      BY <1>0, <3>1, JobShapes
    <3>3. v9' \in Daily!Jobs
      BY <1>0, <3>2 DEF Daily!Jobs, Daily!Steps
    <3>4. Daily!AtWork'
      <4>1. v9.step = "read" /\ v9.at = 1 /\ n \in Nat /\ n # 0
        BY <1>2 DEF Daily!Read, Daily!AtWork
      <4>2. \A v \in Daily!VenueSet :
              /\ ~ v9.problem => Daily!Ahead(v) \/ (v \in v9.done /\ Daily!Whole(v))
              /\ Daily!Ahead(v) <=> Daily!Ahead(v)'
              /\ Daily!Whole(v) <=> Daily!Whole(v)'
        BY <2>3, <3>2, <4>1 DEF Daily!AtWork, Daily!Ahead, Daily!Whole
      <4>3. QED
        BY ONLY <2>0, <3>2, <4>1, <4>2, DailyConstants DEF Daily!AtWork
    <3>5. QED
      BY ONLY <1>0, <1>a, <2>0, <2>3, <3>3, <3>4
  <2>4. CASE Daily!Raise
    BY <1>0, <1>2, <2>4, RaiseKeeps DEF Daily!Read
  <2>5. QED
    BY <1>2, <2>1, <2>2, <2>3, <2>4 DEF Daily!Read
<1>3. CASE Daily!WriteTable
  <2>0. v7 /\ v9.left # <<>> /\ v9.step # "idle"
    BY <1>3 DEF Daily!WriteTable, Daily!Untouched, Daily!AtWork
  <2>1. CASE /\ v5' = [v5 EXCEPT ![Daily!Venue][v9.at] = v9.of]
             /\ v9' = [v9 EXCEPT !.at = @ + 1]
             /\ UNCHANGED <<v6, v7, v8, v10>>
    <3>1. v9' = [step |-> v9.step, by |-> v9.by, left |-> v9.left, at |-> v9.at + 1,
                 of |-> v9.of, done |-> v9.done, problem |-> v9.problem]
      BY <1>0, <2>1, JobShapes
    <3>2. v9' \in Daily!Jobs
      BY <1>0, <3>1 DEF Daily!Jobs, Daily!Steps
    <3>22. v9.of \in Nat
      BY <1>0 DEF Daily!Jobs
    <3>23. v5' \in [Daily!VenueSet -> [DOMAIN Tables -> Nat]]
      BY <1>0, <2>1, <3>22
    <3>3. Daily!AtWork'
      BY <1>0, <1>00, <1>3, <2>0, <2>1, <3>1, DailyConstants DEF Daily!WriteTable, Daily!Jobs,
        Daily!AtWork, Daily!Whole, Daily!Ahead, Daily!Venue
    <3>4. QED
      BY ONLY <1>0, <1>a, <2>0, <2>1, <3>2, <3>23, <3>3
  <2>2. CASE Daily!NextVenue(TRUE, FALSE) /\ UNCHANGED <<v5, v6, v7, v8, v10>>
    <3>1. JobKept
      BY <1>0, <1>3, <2>0, <2>2, NextVenueKeeps DEF Daily!WriteTable
    <3>2. QED
      BY ONLY <1>0, <1>a, <2>0, <2>2, <3>1
  <2>3. CASE Daily!Raise
    BY <1>0, <1>3, <2>3, RaiseKeeps DEF Daily!WriteTable
  <2>4. QED
    BY <1>3, <2>1, <2>2, <2>3 DEF Daily!WriteTable
<1>4. CASE Daily!WriteManifest
  <2>0. v7 /\ v9.left # <<>> /\ v9.step # "idle"
    BY <1>4 DEF Daily!WriteManifest, Daily!Untouched, Daily!AtWork
  <2>1. CASE /\ v6' = [v6 EXCEPT ![Daily!Venue] = v9.of]
             /\ Daily!NextVenue(FALSE, TRUE)
             /\ UNCHANGED <<v5, v7, v8, v10>>
    <3>1. v6' \in [Daily!VenueSet -> Nat]
      BY <1>0, <2>1 DEF Daily!Jobs
    <3>2. /\ \A v \in Daily!VenueSet : v # Head(v9.left) => v6'[v] = v6[v]
          /\ v6'[Head(v9.left)] = v9.of
      BY <1>0, <1>00, <2>0, <2>1 DEF Daily!Venue
    <3>3. v9.of # 0 /\ \A i \in DOMAIN Tables : v5[Head(v9.left)][i] = v9.of
      BY <1>0, <1>4, <2>0, DailyConstants DEF Daily!WriteManifest, Daily!AtWork, Daily!Venue, Daily!Jobs
    <3>4. JobKept
      BY <1>0, <1>4, <2>0, <2>1, <3>2, <3>3, NextVenueKeeps DEF Daily!WriteManifest
    <3>5. QED
      BY ONLY <1>0, <1>a, <2>0, <2>1, <3>1, <3>4
  <2>2. CASE Daily!Raise
    BY <1>0, <1>4, <2>2, RaiseKeeps DEF Daily!WriteManifest
  <2>3. QED
    BY <1>4, <2>1, <2>2 DEF Daily!WriteManifest
<1>5. CASE Daily!WriteReport
  <2>1. CASE /\ v9' = [v9 EXCEPT !.step = "end"]
             /\ v8' = IF v9.done = {} THEN v8
                      ELSE [v \in {w \in v9.done : v6[w] # 0} |-> v6[v]]
             /\ UNCHANGED <<v5, v6, v7, v10>>
    <3>1. v9' = [step |-> "end", by |-> v9.by, left |-> v9.left, at |-> v9.at,
                 of |-> v9.of, done |-> v9.done, problem |-> v9.problem]
      BY <1>0, <2>1, JobShapes
    <3>2. v9' \in Daily!Jobs
      BY <1>0, <3>1 DEF Daily!Jobs, Daily!Steps
    <3>3. Daily!AtWork'
      <4>1. ASSUME ~ v9.problem, NEW v \in Daily!VenueSet
            PROVE  v \in v9.done /\ Daily!Whole(v)
        BY <1>5, <4>1 DEF Daily!WriteReport, Daily!AtWork, Daily!Ahead
      <4>2. ASSUME ~ v9.problem, NEW v \in Daily!VenueSet
            PROVE  v \in DOMAIN v8' /\ v8'[v] = v6[v]
        BY <2>1, <4>1, <4>2 DEF Daily!Whole
      <4>3. QED
        BY ONLY <1>5, <2>1, <3>1, <4>1, <4>2 DEF Daily!WriteReport, Daily!AtWork, Daily!Whole, Daily!Ahead,
          Daily!Venue
    <3>4. Daily!TypeOK'
      BY <1>0, <2>1, <3>2 DEF Daily!TypeOK
    <3>5. Daily!Untouched'
      BY <1>0, <2>1, <3>1 DEF Daily!Untouched, Daily!Consistent
    <3>6. Daily!DiesRarely'
      BY <1>0, <1>5, <2>1, <3>1 DEF Daily!WriteReport, Daily!DiesRarely, Daily!ToCome
    <3>7. QED
      BY ONLY <3>3, <3>4, <3>5, <3>6 DEF Daily!DailyInv
  <2>2. CASE Daily!Raise
    BY <1>0, <1>5, <2>2, RaiseKeeps DEF Daily!WriteReport
  <2>3. QED
    BY <1>5, <2>1, <2>2 DEF Daily!WriteReport
<1>6. CASE Daily!EndRun
  <2> USE <1>6 DEF Daily!EndRun, Daily!NoJob
  <2>1. Daily!TypeOK'
    BY <1>0 DEF Daily!TypeOK, Daily!Jobs, Daily!Steps
  <2>2. Daily!Untouched'
    <3>1. ASSUME ~ v9.problem, NEW v \in Daily!VenueSet
          PROVE  Daily!Consistent(v)'
      BY <1>0, <3>1 DEF Daily!AtWork, Daily!Consistent, Daily!Ahead, Daily!Whole
    <3>2. v10' = v9.problem /\ v9.problem \in BOOLEAN
      BY <1>0 DEF Daily!Jobs
    <3>3. QED
      BY <3>1, <3>2 DEF Daily!Untouched
  <2>3. Daily!AtWork'
    BY DEF Daily!AtWork
  <2>4. Daily!DiesRarely'
    BY <1>0 DEF Daily!DiesRarely, Daily!ToCome
  <2>5. QED
    BY ONLY <2>1, <2>2, <2>3, <2>4 DEF Daily!DailyInv
<1>7. QED
  BY <1>1, <1>2, <1>3, <1>4, <1>5, <1>6 DEF Daily!RunStep

LEMMA DailyStep == ASSUME Daily!DailyInv, Daily!Next PROVE Daily!DailyInv'
BY AroundStep, RunStepKeeps

LEMMA DailyMeans ==
  ASSUME Daily!DailyInv PROVE Daily!NoSilentMixture /\ Daily!NoCrashLoop
BY DEF Daily!DailyInv, Daily!NoSilentMixture, Daily!NoCrashLoop, Daily!Untouched, Daily!TypeOK,
  Daily!DiesRarely, Daily!ToCome

-----------------------------------------------------------------------------
(* The checks against the archive.                                         *)

LEMMA ChecksConstants ==
  /\ RetryDays \in Nat /\ ChecksDays \in Nat /\ ChecksRetryDays \in Nat /\ LastDay \in Nat
  /\ ChecksRetryDays <= RetryDays
BY LakeAssumption DEF Checks!ChecksAssumption

(* A day has failed if one of its results has; else it waits as long as    *)
(* one of its trades does.                                                 *)
LEMMA DayStatus ==
  ASSUME NEW t \in [TradeSymbols -> Checks!Outcomes \cup Checks!PENDING],
         NEW b \in [BookSymbols -> {"ok", "failed", "no_data", "error"}]
  PROVE  /\ Checks!day_status(t, b) \in {"failed", "waiting", "no_data", "ok"}
         /\ Checks!day_status(t, b) = "failed" <=>
              \/ \E s \in TradeSymbols : t[s] = "failed"
              \/ \E s \in BookSymbols : b[s] = "failed"
         /\ Checks!day_status(t, b) \in {"no_data", "ok"} =>
              \A s \in TradeSymbols : t[s] \notin Checks!PENDING
<1> DEFINE states == {t[s] : s \in TradeSymbols} \cup {b[s] : s \in BookSymbols}
<1>1. Checks!day_status(t, b) =
        (CASE "failed" \in states -> "failed"
           [] "failed" \notin states /\ states \cap Checks!PENDING # {} -> "waiting"
           [] OTHER -> IF states \subseteq {"no_data"} THEN "no_data" ELSE "ok")
  BY DEF Checks!day_status
<1>2. CASE "failed" \in states
  <2>1. Checks!day_status(t, b) = "failed"
    BY <1>1, <1>2
  <2>2. QED
    BY <1>2, <2>1
<1>3. CASE "failed" \notin states /\ states \cap Checks!PENDING # {}
  <2>1. Checks!day_status(t, b) = "waiting"
    BY <1>1, <1>3
  <2>2. QED
    BY <1>3, <2>1
<1>4. CASE "failed" \notin states /\ states \cap Checks!PENDING = {}
  <2>1. Checks!day_status(t, b) \in {"no_data", "ok"}
    BY <1>1, <1>4
  <2>2. \A s \in TradeSymbols : t[s] \in states
    OBVIOUS
  <2>3. QED
    BY <1>4, <2>1, <2>2
<1>5. QED
  BY <1>2, <1>3, <1>4

LEMMA ChecksInit == ASSUME Checks!Init PROVE Checks!ChecksInv
BY ChecksConstants DEF Checks!Init, Checks!ChecksInv

(* A day that waits no more, or has failed, stays so when it is tried.     *)
LEMMA TriedOnce ==
  ASSUME Checks!ChecksInv, NEW d \in Checks!Days, Checks!RunChecks(d),
         v8' = v8 \/ /\ v8' = v8 \cup {d} /\ ~ v4 /\ Checks!Archived(d)
                     /\ "error" \notin Checks!Range(v5'[d].trades)
  PROVE  /\ DOMAIN v5' = Checks!Days
         /\ \A e \in Checks!Days : e = d \/ v5'[e] = v5[e]
         /\ Checks!Documented(d)'
         /\ d \in v8' /\ v5'[d].status # "failed" => ~ Checks!Waiting(d)'
<1>1. PICK trades \in [TradeSymbols -> Checks!Outcomes \cup Checks!PENDING],
           book \in [BookSymbols -> {"ok", "failed", "no_data", "error"}] :
        /\ \A s \in TradeSymbols :
             trades[s] \in IF s \in Checks!Todo(d) THEN Checks!Tried(d, s)
                           ELSE {Checks!StatusOf(v5[d].trades, s)}
        /\ \A s \in BookSymbols :
             s \in Checks!BookTodo(d) \/ book[s] = Checks!StatusOf(v5[d].book, s)
        /\ v5' = [v5 EXCEPT ![d] = [trades |-> trades, book |-> book,
                                    status |-> Checks!day_status(trades, book)]]
  BY DEF Checks!RunChecks
<1>2. /\ DOMAIN v5' = Checks!Days
      /\ \A e \in Checks!Days : e = d \/ v5'[e] = v5[e]
      /\ v5'[d] = [trades |-> trades, book |-> book, status |-> Checks!day_status(trades, book)]
  BY <1>1 DEF Checks!ChecksInv
<1>3. Checks!Documented(d)'
  BY <1>2, DayStatus DEF Checks!Documented, Checks!Results
<1>4. ASSUME d \in v8', v5'[d].status # "failed", NEW s \in TradeSymbols
      PROVE  trades[s] \notin Checks!PENDING
  <2>1. CASE d \in v8
    <3>1. Checks!Documented(d) /\ (v5[d].status # "failed" => ~ Checks!Waiting(d))
      BY <2>1 DEF Checks!ChecksInv
    <3>2. /\ v5[d].trades \in [TradeSymbols -> Checks!Outcomes \cup Checks!PENDING]
          /\ v5[d].book \in [BookSymbols -> {"ok", "failed", "no_data", "error"}]
          /\ v5[d].status = Checks!day_status(v5[d].trades, v5[d].book)
      BY <3>1 DEF Checks!Documented, Checks!Results
    <3>3. \A r \in TradeSymbols : v5[d].trades[r] = "failed" => trades[r] = "failed"
      BY <1>1, <3>2 DEF Checks!Todo, Checks!StatusOf, Checks!PENDING
    <3>4. \A r \in BookSymbols : v5[d].book[r] = "failed" => book[r] = "failed"
      BY <1>1, <3>2 DEF Checks!BookTodo, Checks!StatusOf
    <3>5. v5[d].status # "failed"
      BY <1>2, <1>4, <3>2, <3>3, <3>4, DayStatus
    <3>6. v5[d].trades[s] \in Checks!Outcomes \ Checks!PENDING
      BY <3>1, <3>2, <3>5 DEF Checks!Waiting
    <3>7. QED
      BY <1>1, <3>2, <3>6 DEF Checks!Todo, Checks!StatusOf, Checks!Outcomes, Checks!PENDING
  <2>2. CASE d \notin v8
    <3>1. ~ v4 /\ <<d, s>> \in v3 /\ trades[s] # "error"
      BY <1>2, <1>4, <2>2 DEF Checks!Archived, Checks!Range
    <3>2. CASE s \in Checks!Todo(d)
      BY <1>1, <3>1, <3>2 DEF Checks!Tried, Checks!Outcomes, Checks!PENDING
    <3>3. CASE s \notin Checks!Todo(d)
      BY <1>1, <3>3 DEF Checks!Todo
    <3>4. QED
      BY <3>2, <3>3
  <2>3. QED
    BY <2>1, <2>2
<1>5. QED
  BY <1>2, <1>3, <1>4 DEF Checks!Waiting

(* One step keeps each piece of the invariant.                             *)
LEMMA ChecksStep == ASSUME Checks!ChecksInv, Checks!Next PROVE Checks!ChecksInv'
<1> USE ChecksConstants
<1>1. CASE Checks!RunPending
  <2>1. ASSUME NEW d \in v8' PROVE d \in Checks!Days /\ Checks!Documented(d)
                                   /\ (v5[d].status # "failed" => ~ Checks!Waiting(d))
    <3>1. CASE d \in v8
      BY <3>1 DEF Checks!ChecksInv
    <3>2. CASE d \notin v8
      <4>1. d \in v2 /\ v1 - d \in 1..RetryDays /\ ~ Checks!Pending(d)
        BY <1>1, <2>1, <3>2 DEF Checks!RunPending
      <4>2. d \in Checks!Days /\ Checks!Documented(d) /\ v5[d].status # "waiting"
        BY <4>1 DEF Checks!Pending, Checks!ChecksInv
      <4>3. /\ v5[d].trades \in [TradeSymbols -> Checks!Outcomes \cup Checks!PENDING]
            /\ v5[d].book \in [BookSymbols -> {"ok", "failed", "no_data", "error"}]
            /\ v5[d].status = Checks!day_status(v5[d].trades, v5[d].book)
        BY <4>2 DEF Checks!Documented, Checks!Results
      <4>4. v5[d].status # "failed" => \A s \in TradeSymbols : v5[d].trades[s] \notin Checks!PENDING
        BY <4>2, <4>3, DayStatus
      <4>5. QED
        BY <4>2, <4>3, <4>4 DEF Checks!Waiting
    <3>3. QED
      BY <3>1, <3>2
  <2>2. v1' = v1 /\ v2' = v2 /\ v5' = v5 /\ v7' \subseteq Checks!Days
    BY <1>1 DEF Checks!RunPending
  <2>3. QED
    BY <2>1, <2>2 DEF Checks!ChecksInv, Checks!Documented, Checks!Waiting
<1>2. CASE Checks!CheckDay
  <2>1. PICK d \in v7 :
          \/ /\ Checks!RunChecks(d)
             /\ v7' = v7 \ {d}
             /\ v8' = IF ~ v4 /\ Checks!Archived(d) /\ "error" \notin Checks!Range(v5'[d].trades)
                      THEN v8 \cup {d} ELSE v8
          \/ v7' = {} /\ v5' = v5 /\ v8' = v8
    BY <1>2 DEF Checks!CheckDay
  <2>2. d \in Checks!Days /\ v1' = v1 /\ v2' = v2
    BY <1>2 DEF Checks!CheckDay, Checks!ChecksInv
  <2>3. CASE Checks!RunChecks(d) /\ v7' = v7 \ {d}
    <3>1. v8' = v8 \/ /\ v8' = v8 \cup {d} /\ ~ v4 /\ Checks!Archived(d)
                      /\ "error" \notin Checks!Range(v5'[d].trades)
      BY <2>1, <2>3
    <3>2. /\ DOMAIN v5' = Checks!Days
          /\ \A e \in Checks!Days : e = d \/ v5'[e] = v5[e]
          /\ Checks!Documented(d)'
          /\ d \in v8' /\ v5'[d].status # "failed" => ~ Checks!Waiting(d)'
      BY ONLY Checks!ChecksInv, <2>2, <2>3, <3>1, TriedOnce
    <3>3. \A e \in Checks!Days : e # d =>
            /\ Checks!Documented(e)' <=> Checks!Documented(e)
            /\ Checks!Waiting(e)' <=> Checks!Waiting(e)
      BY <3>2 DEF Checks!Documented, Checks!Waiting
    <3>4. QED
      BY <2>2, <2>3, <3>1, <3>2, <3>3 DEF Checks!ChecksInv
  <2>4. CASE v7' = {} /\ v5' = v5 /\ v8' = v8
    BY <2>2, <2>4 DEF Checks!ChecksInv, Checks!Documented, Checks!Waiting
  <2>5. QED
    BY <2>1, <2>3, <2>4
<1>3. ASSUME UNCHANGED <<v2, v5, v7, v8>>, v1' \in Nat
      PROVE  Checks!ChecksInv'
  BY ONLY <1>3, Checks!ChecksInv DEF Checks!ChecksInv, Checks!Documented, Checks!Waiting
<1>4. CASE Checks!Publish
  BY <1>3, <1>4 DEF Checks!Publish, Checks!ChecksInv
<1>5. CASE Checks!DiskChanges
  BY <1>3, <1>5 DEF Checks!DiskChanges, Checks!ChecksInv
<1>6. CASE Checks!Midnight
  BY <1>3, <1>6 DEF Checks!Midnight, Checks!ChecksInv
<1>7. QED
  BY <1>1, <1>2, <1>4, <1>5, <1>6 DEF Checks!Next

LEMMA ChecksMean ==
  ASSUME Checks!ChecksInv PROVE Checks!RetriedUnlessFailed /\ Checks!UnverifiedIsTold
<1>1. Checks!RetriedUnlessFailed
  BY DEF Checks!ChecksInv, Checks!RetriedUnlessFailed
<1>2. ASSUME NEW d \in Checks!Days, v1 - d \in (RetryDays + 1)..ChecksDays, v5[d] # Checks!NoDoc,
             Checks!Waiting(d)
      PROVE  Checks!checks_issues(d) # {}
  <2>1. Checks!Documented(d) /\ v1 \in Nat /\ d \in Nat
    BY <1>2 DEF Checks!ChecksInv, Checks!Days
  <2>2. v5[d].status \in {"failed", "waiting"}
    BY <1>2, <2>1, DayStatus DEF Checks!Documented, Checks!Results, Checks!Waiting
  <2>3. CASE v5[d].status = "failed"
    BY <1>2, <2>1, <2>3, ChecksConstants DEF Checks!checks_issues
  <2>4. CASE v5[d].status = "waiting"
    BY <1>2, <2>1, <2>4, ChecksConstants DEF Checks!checks_issues
  <2>5. QED
    BY <2>2, <2>3, <2>4
<1>3. QED
  BY <1>1, <1>2 DEF Checks!UnverifiedIsTold

-----------------------------------------------------------------------------
(* The paper broker.                                                       *)

LEMMA PaperConstants ==
  /\ MaxPrice \in Nat /\ PaperEnd \in Nat /\ MakerFee \in Int /\ TakerFee \in Int
  /\ Lots \subseteq Nat \ {0} /\ FundingEvery \in Nat /\ FundingEvery > 0
BY PaperAssumption DEF Paper!PaperAssumption

LEMMA SmallerOfTwo ==
  ASSUME NEW a \in Int, NEW b \in Int
  PROVE  Paper!Min({a, b}) = IF a <= b THEN a ELSE b
BY DEF Paper!Min

LEMMA AbsoluteValue ==
  ASSUME NEW n \in Int
  PROVE  /\ Paper!Absolute(n) \in Nat
         /\ n >= 0 => Paper!Absolute(n) = n
         /\ n <= 0 => Paper!Absolute(n) = -n
BY DEF Paper!Absolute

(* A first fill makes the entry price; ...                                 *)
LEMMA EntryFills ==
  ASSUME NEW s, s.pos = 0, s.entry \in Int, s.balance \in Int, s.cash \in Int, s.balance = s.cash,
         NEW side \in {1, -1}, NEW qty \in Nat, qty > 0, NEW px \in Int, NEW fee \in Int
  PROVE  LET t == Paper!Filled(s, side, qty, px, fee)
         IN  /\ t.pos = side * qty /\ {t.pos, t.entry, t.balance, t.cash} \subseteq Int
             /\ t.balance = t.cash + t.pos * t.entry
<1> DEFINE t == Paper!Filled(s, side, qty, px, fee)
<1>1. Paper!Absolute(s.pos) = 0
  BY AbsoluteValue
<1>2. s.pos + side * qty = side * qty /\ ~ (s.pos * (side * qty) < 0)
  OBVIOUS
<1>3. (s.entry * 0 + px * qty) \div (0 + qty) = px
  OBVIOUS
<1>4. t.pos = side * qty /\ t.entry = px /\ t.balance = s.balance + 0 - qty * fee
      /\ t.cash = s.cash - (side * qty) * px - qty * fee
  BY <1>1, <1>2, <1>3 DEF Paper!Filled
<1>5. t.balance = t.cash + t.pos * t.entry
  BY <1>4
<1>6. QED
  BY <1>4, <1>5

(* ... one that reduces books the profit, and does not turn the position.  *)
LEMMA ProfitAddsUp ==
  ASSUME NEW pos \in Int, NEW entry \in Int, NEW cash \in Int, NEW n \in Int, NEW px \in Int,
         NEW paid \in Int
  PROVE  cash + pos * entry + (-n) * (px - entry) - paid = cash - n * px - paid + (pos + n) * entry
<1>1. (-n) * (px - entry) = n * entry - n * px
  OBVIOUS
<1>2. (pos + n) * entry = pos * entry + n * entry
  OBVIOUS
<1>3. n * px \in Int /\ n * entry \in Int /\ pos * entry \in Int /\ (pos + n) * entry \in Int
      /\ (-n) * (px - entry) \in Int
  OBVIOUS
<1>4. QED
  BY <1>1, <1>2, <1>3

LEMMA ReductionFills ==
  ASSUME NEW s, s.pos \in Int, s.entry \in Int, s.balance \in Int, s.cash \in Int,
         s.balance = s.cash + s.pos * s.entry,
         NEW side \in {1, -1}, s.pos * side < 0,
         NEW qty \in Nat, qty > 0, qty <= Paper!Absolute(s.pos), NEW px \in Int, NEW fee \in Int
  PROVE  LET t == Paper!Filled(s, side, qty, px, fee)
         IN  /\ t.pos * side <= 0 /\ {t.pos, t.entry, t.balance, t.cash} \subseteq Int
             /\ qty = Paper!Absolute(s.pos) => t.pos = 0
             /\ t.balance = t.cash + t.pos * t.entry
<1> DEFINE t == Paper!Filled(s, side, qty, px, fee)
           n == side * qty
           new == s.pos + n
<1>1. Paper!Min({qty, Paper!Absolute(s.pos)}) = qty
  BY SmallerOfTwo, AbsoluteValue
<1>2. /\ n \in Int /\ new \in Int /\ s.pos * n < 0 /\ new * side <= 0
      /\ qty = Paper!Absolute(s.pos) => new = 0
      /\ (s.pos > 0 /\ new >= 0 /\ side = -1) \/ (s.pos < 0 /\ new <= 0 /\ side = 1)
  <2>1. CASE side = 1
    <3>1. s.pos < 0 /\ Paper!Absolute(s.pos) = -s.pos /\ n = qty
      BY <2>1, AbsoluteValue
    <3>2. QED
      BY <2>1, <3>1
  <2>2. CASE side = -1
    <3>1. s.pos > 0 /\ Paper!Absolute(s.pos) = s.pos /\ n = -qty
      BY <2>2, AbsoluteValue
    <3>2. QED
      BY <2>2, <3>1
  <2>3. QED
    BY <2>1, <2>2
<1>3. ~ (new * s.pos < 0)
  BY <1>2
<1>4. Paper!Realized(s, qty, px) = (-n) * (px - s.entry)
  <2> DEFINE d == px - s.entry
  <2>1. d \in Int
    OBVIOUS
  <2>2. CASE side = 1
    <3>1. n = qty /\ Paper!Realized(s, qty, px) = (qty * d) * (-1)
      BY <1>2, <2>2 DEF Paper!Realized
    <3>2. QED
      BY ONLY <2>1, <3>1, qty \in Nat
  <2>3. CASE side = -1
    <3>1. n = -qty /\ Paper!Realized(s, qty, px) = (qty * d) * 1
      BY <1>2, <2>3 DEF Paper!Realized
    <3>2. QED
      BY ONLY <2>1, <3>1, qty \in Nat
  <2>4. QED
    BY <2>2, <2>3
<1>5. /\ t.pos = new
      /\ t.entry = (IF new = 0 THEN 0 ELSE s.entry)
      /\ t.balance = s.balance + Paper!Realized(s, qty, px) - qty * fee
      /\ t.cash = s.cash - n * px - qty * fee
  BY <1>1, <1>2, <1>3 DEF Paper!Filled
<1>6. t.pos * t.entry = new * s.entry
  <2>1. CASE new = 0
    BY ONLY <1>5, <2>1, s.entry \in Int
  <2>2. CASE new # 0
    BY ONLY <1>5, <2>2
  <2>3. QED
    BY <2>1, <2>2
<1>7. qty * fee \in Int /\ n * px \in Int /\ (-n) * (px - s.entry) \in Int
  BY <1>2
<1> HIDE DEF n, new
<1>8. s.cash + s.pos * s.entry + (-n) * (px - s.entry) - qty * fee
        = s.cash - n * px - qty * fee + (s.pos + n) * s.entry
  BY <1>2, <1>7, ProfitAddsUp
<1>9. t.balance = t.cash + t.pos * t.entry
  BY <1>4, <1>5, <1>6, <1>8 DEF new
<1>10. QED
  BY <1>2, <1>4, <1>5, <1>7, <1>9

LEMMA PaperInit == ASSUME Paper!Init PROVE Paper!PaperInv
BY PaperConstants DEF Paper!Init, Paper!PaperInv, Paper!TypeOK, Paper!OfTheTrade, Paper!HeldByTrade,
  Paper!CashAddsUp, Paper!PaidBefore

LEMMA AccountIs ==
  ASSUME Paper!TypeOK, Paper!CashAddsUp
  PROVE  LET s == Paper!Account
         IN  /\ s.pos = v5 /\ s.entry = v6 /\ s.balance = v9 /\ s.cash = v10
             /\ s.pos \in Int /\ s.entry \in Int /\ s.balance \in Int /\ s.cash \in Int
             /\ s.balance = s.cash + s.pos * s.entry
BY DEF Paper!Account, Paper!TypeOK, Paper!CashAddsUp

LEMMA NoOneFills ==
  ASSUME Paper!PaperInv, UNCHANGED <<v4, v5, v6, v9, v10, v11, v12>>, v1' \in Nat, v2' \in Int,
         v7' \subseteq Paper!Orders, v8' = v8,
         v13' \in [n : Nat, side : {1, -1}, state : {"none", "entry", "open", "exit"}]
  PROVE  Paper!TypeOK' /\ Paper!CashAddsUp' /\ Paper!PaidBefore'
BY DEF Paper!PaperInv, Paper!TypeOK, Paper!CashAddsUp, Paper!PaidBefore

LEMMA PaperTick == ASSUME Paper!PaperInv, Paper!Tick PROVE Paper!PaperInv'
<1>1. /\ UNCHANGED <<v4, v5, v6, v7, v8, v9, v10, v11, v12, v13>>
      /\ v1' \in Nat /\ v2' = v2
  BY DEF Paper!Tick, Paper!PaperInv, Paper!TypeOK
<1>2. QED
  BY ONLY <1>1, Paper!PaperInv DEF Paper!PaperInv, Paper!TypeOK, Paper!OfTheTrade,
    Paper!HeldByTrade, Paper!CashAddsUp, Paper!PaidBefore, Paper!Id

(* The calls of the bot that leave the account alone.                      *)
LEMMA PaperEnter ==
  ASSUME Paper!PaperInv, NEW side \in {1, -1}, NEW qty \in Lots, Paper!Enter(side, qty)
  PROVE  Paper!PaperInv'
<1> USE PaperConstants DEF Paper!PaperInv
<1> DEFINE n == v13.n + 1
           o == [id |-> <<n, "entry">>, role |-> "entry", side |-> side,
                 price |-> Paper!Touch(-side, v2), qty |-> qty, reduce |-> FALSE]
<1>1. /\ v13.n \in Nat /\ v13.state = "none" /\ v2 \in Int /\ v7 = {}
  BY DEF Paper!Enter, Paper!TypeOK, Paper!OfTheTrade
<1>2. /\ v13' = [n |-> n, side |-> side, state |-> "entry"]
      /\ v7' = {o} /\ UNCHANGED <<v1, v2, v3, v4, v5, v6, v8, v9, v10, v11, v12>>
  BY <1>1 DEF Paper!Enter, Paper!Rests, Paper!Quiet
<1>3. o \in Paper!Orders
  BY <1>1 DEF Paper!Orders, Paper!Roles, Paper!Touch
<1>4. Paper!TypeOK' /\ Paper!CashAddsUp' /\ Paper!PaidBefore'
  <2>1. v13' \in [n : Nat, side : {1, -1}, state : {"none", "entry", "open", "exit"}]
    BY <1>1, <1>2
  <2>2. v1' \in Nat /\ v2' \in Int /\ v7' \subseteq Paper!Orders
    BY <1>1, <1>2, <1>3 DEF Paper!TypeOK
  <2>3. QED
    BY <1>2, <2>1, <2>2, NoOneFills
<1>5. <<n, "entry">> \notin v8
  BY <1>1 DEF Paper!OfTheTrade
<1>6. Paper!OfTheTrade'
  BY <1>1, <1>2, <1>5 DEF Paper!OfTheTrade, Paper!Id, Paper!TypeOK
<1>7. Paper!HeldByTrade'
  BY <1>1, <1>2, <1>5 DEF Paper!HeldByTrade, Paper!Id
<1>8. QED
  BY ONLY <1>4, <1>6, <1>7 DEF Paper!PaperInv

LEMMA PaperEnds ==
  ASSUME Paper!PaperInv, Paper!GiveUp \/ Paper!Finish PROVE Paper!PaperInv'
<1> USE DEF Paper!PaperInv
<1>1. /\ v7' = {} /\ v13' = [n |-> v13.n, side |-> v13.side, state |-> "none"] /\ v5 = 0
      /\ UNCHANGED <<v1, v2, v3, v4, v5, v6, v8, v9, v10, v11, v12>>
  <2>1. CASE Paper!GiveUp
    BY <2>1 DEF Paper!GiveUp, Paper!Cancel, Paper!OfTheTrade, Paper!HeldByTrade, Paper!TypeOK,
      Paper!Orders, Paper!Quiet
  <2>2. CASE Paper!Finish
    BY <2>2 DEF Paper!Finish, Paper!Cancel, Paper!OfTheTrade, Paper!TypeOK, Paper!Orders,
      Paper!Roles, Paper!Quiet
  <2>3. QED
    BY <2>1, <2>2
<1>2. Paper!TypeOK' /\ Paper!CashAddsUp' /\ Paper!PaidBefore'
  BY <1>1, NoOneFills DEF Paper!TypeOK
<1>3. Paper!OfTheTrade'
  BY <1>1 DEF Paper!OfTheTrade
<1>4. Paper!HeldByTrade'
  BY <1>1 DEF Paper!HeldByTrade, Paper!TypeOK
<1>5. QED
  BY ONLY <1>2, <1>3, <1>4 DEF Paper!PaperInv

LEMMA PaperExit ==
  ASSUME Paper!PaperInv, Paper!Exit PROVE Paper!PaperInv'
<1> USE DEF Paper!PaperInv
<1> DEFINE o == [id |-> Paper!Id("exit"), role |-> "exit", side |-> -v13.side,
                 price |-> Paper!Touch(v13.side, v2), qty |-> Paper!Absolute(v5), reduce |-> TRUE]
<1>1. /\ v13.n \in Nat /\ v13.side \in {1, -1} /\ v13.state = "open" /\ v2 \in Int
      /\ Paper!Absolute(v5) \in Nat
  BY AbsoluteValue DEF Paper!Exit, Paper!TypeOK
<1>2. /\ v13' = [n |-> v13.n, side |-> v13.side, state |-> "exit"]
      /\ UNCHANGED <<v1, v2, v3, v4, v5, v6, v8, v9, v10, v11, v12>>
  BY DEF Paper!Exit, Paper!Quiet, Paper!TypeOK
<1>3. o \in Paper!Orders
  BY <1>1 DEF Paper!Orders, Paper!Roles, Paper!Touch, Paper!Id
<1>4. v7' \subseteq v7 \cup {o}
  BY <1>1 DEF Paper!Exit, Paper!Cancel
<1>5. Paper!TypeOK' /\ Paper!CashAddsUp' /\ Paper!PaidBefore'
  BY <1>1, <1>2, <1>3, <1>4, NoOneFills DEF Paper!TypeOK
<1>6. Paper!OfTheTrade'
  BY <1>1, <1>2, <1>4 DEF Paper!OfTheTrade, Paper!Id
<1>7. Paper!HeldByTrade'
  BY <1>1, <1>2 DEF Paper!HeldByTrade
<1>8. QED
  BY ONLY <1>5, <1>6, <1>7 DEF Paper!PaperInv

(* The account after a fill t.                                             *)
LEMMA Booked ==
  ASSUME NEW t, Paper!Becomes(t), {t.pos, t.entry, t.balance, t.cash} \subseteq Int,
         t.balance = t.cash + t.pos * t.entry
  PROVE  /\ {v5, v6, v9, v10}' \subseteq Int /\ Paper!CashAddsUp' /\ v5' = t.pos
BY DEF Paper!Becomes, Paper!CashAddsUp

LEMMA PaperTrade ==
  ASSUME Paper!PaperInv, NEW price \in Paper!Prices, Paper!PublicTrade(price)
  PROVE  Paper!PaperInv'
<1> USE PaperConstants DEF Paper!PaperInv
<1>1. PICK o \in v7 :
        /\ Paper!Through(o, price) /\ v7' = v7 \ {o}
        /\ LET qty == Paper!Reducible(o, v5)
           IN  IF qty = 0 THEN UNCHANGED <<v5, v6, v9, v10, v8>>
               ELSE /\ Paper!Becomes(Paper!Filled(Paper!Account, o.side, qty, o.price, MakerFee))
                    /\ v8' = v8 \cup {o.id}
        /\ UNCHANGED <<v1, v2, v3, v4, v11, v12, v13>>
  BY DEF Paper!PublicTrade
<1> DEFINE qty == Paper!Reducible(o, v5)
           t == Paper!Filled(Paper!Account, o.side, qty, o.price, MakerFee)
<1>2. /\ o \in Paper!Orders /\ o.qty \in Nat /\ o.side \in {1, -1} /\ o.price \in Int
      /\ o.id = Paper!Id(o.role) /\ o.role \in Paper!Roles /\ v13.n \in Nat
      /\ v13.side \in {1, -1} /\ v5 \in Int /\ v6 \in Int /\ v9 \in Int /\ v10 \in Int
      /\ v8 \subseteq (Nat \X Paper!Roles) /\ v7 \subseteq Paper!Orders
  BY DEF Paper!TypeOK, Paper!OfTheTrade, Paper!Orders
<1>3. CASE qty = 0
  <2>1. /\ UNCHANGED <<v1, v2, v3, v4, v5, v6, v8, v9, v10, v11, v12, v13>> /\ v7' \subseteq v7
    BY <1>1, <1>3
  <2>2. Paper!TypeOK' /\ Paper!CashAddsUp' /\ Paper!PaidBefore'
    BY <2>1, NoOneFills DEF Paper!TypeOK
  <2>3. Paper!OfTheTrade' /\ Paper!HeldByTrade'
    BY ONLY <2>1, Paper!OfTheTrade, Paper!HeldByTrade DEF Paper!OfTheTrade, Paper!HeldByTrade,
      Paper!Id
  <2>4. QED
    BY ONLY <2>2, <2>3 DEF Paper!PaperInv
<1>4. CASE qty # 0
  <2>1. /\ Paper!Becomes(t) /\ v8' = v8 \cup {o.id} /\ v7' \subseteq v7
        /\ UNCHANGED <<v1, v2, v3, v4, v11, v12, v13>>
    BY <1>1, <1>4
  <2>2. /\ {t.pos, t.entry, t.balance, t.cash} \subseteq Int /\ t.balance = t.cash + t.pos * t.entry
        /\ o.role = "entry" => t.pos = v13.side * o.qty /\ o.qty > 0
        /\ o.role # "entry" => t.pos * v13.side >= 0 /\ v13.state \notin {"none", "entry"}
    <3>1. CASE o.role = "entry"
      <4>1. ~ o.reduce /\ o.side = v13.side /\ o.qty > 0 /\ v13.state = "entry" /\ o.id \notin v8
        BY <3>1 DEF Paper!OfTheTrade
      <4>2. v5 = 0 /\ qty = o.qty
        BY <1>2, <3>1, <4>1 DEF Paper!HeldByTrade, Paper!Reducible
      <4>3. v9 = v10
        BY <1>2, <4>2 DEF Paper!CashAddsUp
      <4>4. /\ t.pos = o.side * qty /\ {t.pos, t.entry, t.balance, t.cash} \subseteq Int
            /\ t.balance = t.cash + t.pos * t.entry
        <5> DEFINE s == Paper!Account
        <5>1. s.pos = 0 /\ s.entry \in Int /\ s.balance \in Int /\ s.cash \in Int /\ s.balance = s.cash
          BY <1>2, <4>2, <4>3 DEF Paper!Account
        <5> HIDE DEF s
        <5>2. QED
          BY <1>2, <4>1, <4>2, <5>1, EntryFills DEF s
      <4>5. QED
        BY <3>1, <4>1, <4>2, <4>4
    <3>2. CASE o.role # "entry"
      <4>1. o.reduce /\ o.side = -v13.side /\ v13.state \notin {"none", "entry"}
        BY <3>2 DEF Paper!OfTheTrade
      <4>2. /\ v5 * o.side < 0 /\ qty \in Nat /\ qty > 0 /\ qty <= Paper!Absolute(v5)
        BY <1>2, <1>4, <4>1, SmallerOfTwo, AbsoluteValue DEF Paper!Reducible
      <4>3. /\ t.pos * o.side <= 0 /\ {t.pos, t.entry, t.balance, t.cash} \subseteq Int
            /\ t.balance = t.cash + t.pos * t.entry
        <5> HIDE DEF qty
        <5>1. QED
          BY <1>2, <4>2, AccountIs, ReductionFills
      <4>4. t.pos * v13.side >= 0
        BY <1>2, <4>1, <4>3
      <4>5. QED
        BY <3>2, <4>1, <4>3, <4>4
    <3>3. QED
      BY <3>1, <3>2
  <2> HIDE DEF t, qty
  <2>3. {v5, v6, v9, v10}' \subseteq Int /\ Paper!CashAddsUp' /\ v5' = t.pos
    BY <2>1, <2>2, Booked
  <2>4. Paper!TypeOK'
    <3>1. o.id \in Nat \X Paper!Roles
      BY <1>2 DEF Paper!Orders
    <3>2. QED
      BY <1>2, <2>1, <2>3, <3>1 DEF Paper!TypeOK
  <2>5. Paper!OfTheTrade'
    <3>1. \A i \in v8' : i[1] <= v13.n
      BY <1>2, <2>1 DEF Paper!OfTheTrade, Paper!Id
    <3>2. ASSUME NEW q \in v7', q.role = "entry" PROVE FALSE
      <4>1. v7 = {q}
        BY <2>1, <3>2 DEF Paper!OfTheTrade
      <4>2. QED
        BY <1>1, <4>1
    <3>3. QED
      BY <2>1, <3>1, <3>2 DEF Paper!OfTheTrade, Paper!Id
  <2>6. Paper!HeldByTrade'
    <3>1. CASE o.role = "entry"
      <4>1. v13.state = "entry" /\ o.id = Paper!Id("entry")
        BY <1>2, <3>1 DEF Paper!OfTheTrade
      <4>2. v5' # 0 /\ v5' * v13.side >= 0
        BY <1>2, <2>2, <2>3, <3>1
      <4>3. QED
        BY <2>1, <4>1, <4>2 DEF Paper!HeldByTrade, Paper!Id
    <3>2. CASE o.role # "entry"
      BY <2>1, <2>2, <2>3, <3>2 DEF Paper!HeldByTrade
    <3>3. QED
      BY <3>1, <3>2
  <2>7. Paper!PaidBefore'
    BY <2>1 DEF Paper!PaidBefore
  <2>8. QED
    BY ONLY <2>3, <2>4, <2>5, <2>6, <2>7 DEF Paper!PaperInv
<1>5. QED
  BY <1>3, <1>4

LEMMA PaperClose == ASSUME Paper!PaperInv, Paper!Close PROVE Paper!PaperInv'
<1> USE PaperConstants DEF Paper!PaperInv
<1> DEFINE side == -v13.side
           qty == Paper!Absolute(v5)
           px == Paper!Touch(side, v2)
           t == Paper!Filled(Paper!Account, side, qty, px, TakerFee)
<1>1. /\ v13.state = "exit" /\ v5 # 0 /\ Paper!Becomes(t) /\ v7' \subseteq v7
      /\ UNCHANGED <<v1, v2, v3, v4, v8, v11, v12, v13>>
  BY DEF Paper!Close, Paper!Quiet, Paper!Cancel
<1>2. v5 \in Int /\ v13.side \in {1, -1} /\ v5 * v13.side >= 0 /\ v2 \in Int
  BY DEF Paper!TypeOK, Paper!HeldByTrade
<1>3. /\ v5 * side < 0 /\ px \in Int /\ side \in {1, -1} /\ qty \in Nat /\ qty > 0
      /\ qty = Paper!Absolute(v5) /\ qty <= Paper!Absolute(v5)
  BY <1>1, <1>2, AbsoluteValue DEF Paper!Touch
<1> HIDE DEF side, qty, px
<1>4. /\ {t.pos, t.entry, t.balance, t.cash} \subseteq Int /\ t.pos = 0
      /\ t.balance = t.cash + t.pos * t.entry
  BY <1>3, AccountIs, ReductionFills
<1> HIDE DEF t
<1>5. {v5, v6, v9, v10}' \subseteq Int /\ Paper!CashAddsUp' /\ v5' = 0
  BY <1>1, <1>4, Booked
<1>6. Paper!TypeOK'
  BY <1>1, <1>5 DEF Paper!TypeOK
<1>7. Paper!OfTheTrade'
  <2>1. \A q \in v7' : q.role # "entry"
    BY <1>1 DEF Paper!OfTheTrade
  <2>2. QED
    BY <1>1, <2>1 DEF Paper!OfTheTrade, Paper!Id
<1>8. Paper!HeldByTrade' /\ Paper!PaidBefore'
  BY <1>1, <1>2, <1>5 DEF Paper!HeldByTrade, Paper!PaidBefore
<1>9. QED
  BY ONLY <1>5, <1>6, <1>7, <1>8 DEF Paper!PaperInv

(* A mark price that reaches the stop closes the position.                 *)
LEMMA StopsClose ==
  ASSUME Paper!PaperInv, NEW price \in Int
  PROVE  LET s == Paper!AfterStops(price)
         IN  /\ {s.pos, s.entry, s.balance, s.cash} \subseteq Int
             /\ s.balance = s.cash + s.pos * s.entry
             /\ s = [pos |-> s.pos, entry |-> s.entry, balance |-> s.balance, cash |-> s.cash]
             /\ s.pos = v5 \/ (s.pos = 0 /\ v13.state \notin {"none", "entry"})
<1> USE PaperConstants DEF Paper!PaperInv
<1> DEFINE hit == {o \in v7 : Paper!Hit(o, price) /\ v5 * o.side < 0}
<1>1. CASE hit = {}
  <2>1. Paper!AfterStops(price) = Paper!Account
    BY <1>1 DEF Paper!AfterStops
  <2>2. Paper!Account = [pos |-> v5, entry |-> v6, balance |-> v9, cash |-> v10]
    BY DEF Paper!Account
  <2>3. QED
    BY <2>1, <2>2, AccountIs
<1>2. CASE hit # {}
  <2> DEFINE o == CHOOSE h \in hit : TRUE
             side == o.side
             qty == Paper!Absolute(v5)
             px == Paper!Touch(side, price)
             t == Paper!Filled(Paper!Account, side, qty, px, TakerFee)
  <2>1. o \in hit /\ Paper!AfterStops(price) = t
    BY <1>2 DEF Paper!AfterStops
  <2>2. o \in Paper!Orders /\ o.role # "entry" /\ v13.state \notin {"none", "entry"} /\ v5 \in Int
    BY <2>1 DEF Paper!Hit, Paper!TypeOK, Paper!OfTheTrade
  <2>3. /\ v5 * side < 0 /\ px \in Int /\ side \in {1, -1} /\ qty \in Nat /\ qty > 0
        /\ qty = Paper!Absolute(v5) /\ qty <= Paper!Absolute(v5)
    BY <2>1, <2>2, AbsoluteValue DEF Paper!Orders, Paper!Touch
  <2> HIDE DEF side, qty, px, o
  <2>4. /\ {t.pos, t.entry, t.balance, t.cash} \subseteq Int /\ t.pos = 0
        /\ t.balance = t.cash + t.pos * t.entry
    BY <2>3, AccountIs, ReductionFills
  <2>5. t = [pos |-> t.pos, entry |-> t.entry, balance |-> t.balance, cash |-> t.cash]
    BY DEF Paper!Filled
  <2>6. QED
    BY ONLY <2>1, <2>2, <2>4, <2>5
<1>3. QED
  BY <1>1, <1>2

(* Funding is taken from an account once per funding time.                 *)
LEMMA FundsKeep ==
  ASSUME Paper!PaperInv, NEW s, NEW nxt \in Nat, Paper!Funds(s, nxt),
         {s.pos, s.entry, s.balance, s.cash} \subseteq Int, s.balance = s.cash + s.pos * s.entry,
         s = [pos |-> s.pos, entry |-> s.entry, balance |-> s.balance, cash |-> s.cash]
  PROVE  /\ {v5, v6, v9, v10}' \subseteq Int /\ Paper!CashAddsUp' /\ v5' = s.pos
         /\ v11' \in Nat /\ v12' \in [1..PaperEnd -> Nat] /\ Paper!PaidBefore'
<1> USE PaperConstants DEF Paper!PaperInv
<1> DEFINE current == IF v11 = 0 THEN nxt ELSE v11
           passed == nxt # 0 /\ v1 >= current
           pay == IF passed THEN s.pos ELSE 0
           t == [s EXCEPT !.balance = @ - pay, !.cash = @ - pay]
<1>1. v1 \in Nat /\ v11 \in Nat /\ v12 \in [1..PaperEnd -> Nat]
  BY DEF Paper!TypeOK
<1>2. /\ Paper!Becomes(t)
      /\ v12' = (IF pay # 0 THEN [v12 EXCEPT ![current] = @ + 1] ELSE v12)
      /\ v11' = (IF passed THEN Paper!NextFunding(current, nxt) ELSE current)
  BY DEF Paper!Funds
<1>3. /\ pay \in Int /\ current \in Nat /\ (v11 = 0 \/ current = v11)
      /\ pay # 0 => passed /\ (passed => current > 0)
  BY <1>1
<1>4. t = [s EXCEPT !.balance = @ - pay, !.cash = @ - pay]
  OBVIOUS
<1> HIDE DEF t
<1>5. t = [pos |-> s.pos, entry |-> s.entry, balance |-> s.balance - pay, cash |-> s.cash - pay]
  <2> HIDE DEF pay
  <2>1. QED
    BY ONLY <1>4, s = [pos |-> s.pos, entry |-> s.entry, balance |-> s.balance, cash |-> s.cash]
<1>6. /\ t.pos = s.pos /\ {t.pos, t.entry, t.balance, t.cash} \subseteq Int
      /\ t.balance = t.cash + t.pos * t.entry
  BY <1>3, <1>5
<1>7. {v5, v6, v9, v10}' \subseteq Int /\ Paper!CashAddsUp' /\ v5' = s.pos
  BY <1>2, <1>6, Booked
<1>8. v11' \in Nat /\ (passed => v11' > current) /\ v11' >= current
  <2>1. Paper!NextFunding(current, nxt) \in Nat /\ Paper!NextFunding(current, nxt) > current
    <3> HIDE DEF current
    <3>1. QED
      BY <1>3 DEF Paper!NextFunding
  <2> HIDE DEF passed, current
  <2>2. QED
    BY <1>2, <1>3, <2>1
<1>9. v12' \in [1..PaperEnd -> Nat]
  <2>1. \A x \in 1..PaperEnd : v12[x] + 1 \in Nat
    BY <1>1
  <2>2. QED
    BY <1>1, <1>2, <2>1
<1>10. Paper!PaidBefore'
  <2>1. ASSUME NEW x \in 1..PaperEnd, v12'[x] # 0
        PROVE  v12'[x] = 1 /\ x < v11'
    <3>1. CASE pay # 0 /\ x = current
      <4>1. v12[x] = 0
        BY <1>1, <1>3, <3>1 DEF Paper!PaidBefore
      <4>2. QED
        BY <1>1, <1>2, <1>3, <1>8, <3>1, <4>1
    <3>2. CASE ~ (pay # 0 /\ x = current)
      <4>1. v12'[x] = v12[x]
        BY <1>1, <1>2, <3>2
      <4>2. v12[x] = 1 /\ x < v11
        BY <1>1, <2>1, <4>1 DEF Paper!PaidBefore
      <4>3. QED
        BY <1>1, <1>3, <1>8, <4>1, <4>2
    <3>3. QED
      BY <3>1, <3>2
  <2>2. DOMAIN v12' = 1..PaperEnd
    BY <1>9
  <2>3. QED
    BY <2>1, <2>2 DEF Paper!PaidBefore
<1>11. QED
  BY ONLY <1>7, <1>8, <1>9, <1>10

LEMMA PaperProtect ==
  ASSUME Paper!PaperInv, NEW stop \in Paper!Prices, NEW target \in Paper!Prices,
         Paper!Protect(stop, target)
  PROVE  Paper!PaperInv'
<1> USE PaperConstants DEF Paper!PaperInv
<1> DEFINE side == -v13.side
           o == [id |-> Paper!Id("stop"), role |-> "stop", side |-> side, price |-> stop, qty |-> 0,
                 reduce |-> TRUE]
           g == [id |-> Paper!Id("target"), role |-> "target", side |-> side, price |-> target,
                 qty |-> Paper!Absolute(v5), reduce |-> TRUE]
           qty == Paper!Absolute(v5)
           px == Paper!Touch(side, v2)
           t == Paper!Filled(Paper!Account, side, qty, px, TakerFee)
<1>1. /\ v13.n \in Nat /\ v13.side \in {1, -1} /\ v13.state = "entry" /\ v2 \in Int /\ v5 \in Int
      /\ v5 # 0 /\ v5 * v13.side >= 0 /\ v7 \subseteq Paper!Orders
      /\ v8 \subseteq (Nat \X Paper!Roles) /\ stop \in Int /\ target \in Int
  <2>1. /\ v13.n \in Nat /\ v13.side \in {1, -1} /\ v2 \in Int /\ v5 \in Int
        /\ v7 \subseteq Paper!Orders /\ v8 \subseteq (Nat \X Paper!Roles)
    BY DEF Paper!TypeOK
  <2>2. v13.state = "entry" /\ v5 # 0 /\ v5 * v13.side >= 0
    BY DEF Paper!Protect, Paper!HeldByTrade
  <2>3. stop \in Int /\ target \in Int
    BY DEF Paper!Prices
  <2>4. QED
    BY ONLY <2>1, <2>2, <2>3
<1>2. /\ v5 * side < 0 /\ px \in Int /\ side \in {1, -1} /\ qty \in Nat /\ qty > 0
      /\ qty = Paper!Absolute(v5) /\ qty <= Paper!Absolute(v5)
  BY <1>1, AbsoluteValue DEF Paper!Touch
<1>3. v7 = {}
  BY <1>1 DEF Paper!Protect, Paper!OfTheTrade, Paper!Id
<1>4. /\ v13' = [n |-> v13.n, side |-> v13.side, state |-> "open"]
      /\ UNCHANGED <<v1, v2, v3, v4>> /\ v1 \in Nat /\ v4 \in Nat
  BY DEF Paper!Protect, Paper!TypeOK
<1>5. CASE Paper!Hit(o, v2)
  <2>1. Paper!Funds(t, v4) /\ v8' = v8 \cup {Paper!Id("stop")} /\ v7' = {}
    BY <1>3, <1>5 DEF Paper!Protect
  <2>2. /\ {t.pos, t.entry, t.balance, t.cash} \subseteq Int /\ t.pos = 0
        /\ t.balance = t.cash + t.pos * t.entry
        /\ t = [pos |-> t.pos, entry |-> t.entry, balance |-> t.balance, cash |-> t.cash]
    <3> HIDE DEF side, qty, px
    <3>1. t = [pos |-> t.pos, entry |-> t.entry, balance |-> t.balance, cash |-> t.cash]
      BY DEF Paper!Filled
    <3>2. QED
      BY <1>2, <3>1, AccountIs, ReductionFills
  <2> HIDE DEF t
  <2>3. /\ {v5, v6, v9, v10}' \subseteq Int /\ Paper!CashAddsUp' /\ v5' = 0
        /\ v11' \in Nat /\ v12' \in [1..PaperEnd -> Nat] /\ Paper!PaidBefore'
    BY <1>4, <2>1, <2>2, FundsKeep
  <2>8. v8' \subseteq (Nat \X Paper!Roles)
    BY <1>1, <2>1 DEF Paper!Id, Paper!Roles
  <2>9. v13' \in [n : Nat, side : {1, -1}, state : {"none", "entry", "open", "exit"}]
    BY <1>1, <1>4
  <2>4. Paper!TypeOK'
    BY <1>1, <1>4, <2>1, <2>3, <2>8, <2>9 DEF Paper!TypeOK
  <2>5. Paper!OfTheTrade'
    BY <1>1, <1>4, <2>1 DEF Paper!OfTheTrade, Paper!Id
  <2>6. Paper!HeldByTrade'
    BY <1>1, <1>4, <2>3 DEF Paper!HeldByTrade
  <2>7. QED
    BY ONLY <2>3, <2>4, <2>5, <2>6 DEF Paper!PaperInv
<1>6. CASE ~ Paper!Hit(o, v2)
  <2>1. v7' \subseteq {o, g} /\ v8' = v8 /\ Paper!Funds(Paper!Account, v4)
    BY <1>3, <1>6 DEF Paper!Protect
  <2> DEFINE s == Paper!Account
  <2>a. /\ s.pos = v5 /\ {s.pos, s.entry, s.balance, s.cash} \subseteq Int
        /\ s.balance = s.cash + s.pos * s.entry
        /\ s = [pos |-> s.pos, entry |-> s.entry, balance |-> s.balance, cash |-> s.cash]
    <3>1. s = [pos |-> v5, entry |-> v6, balance |-> v9, cash |-> v10]
      BY DEF Paper!Account
    <3>2. QED
      BY <3>1, AccountIs
  <2> HIDE DEF s
  <2>b. /\ {v5, v6, v9, v10}' \subseteq Int /\ Paper!CashAddsUp' /\ v5' = v5
        /\ v11' \in Nat /\ v12' \in [1..PaperEnd -> Nat] /\ Paper!PaidBefore'
    BY <1>4, <2>1, <2>a, FundsKeep DEF s
  <2>2. {o, g} \subseteq Paper!Orders
    BY <1>1, <1>2 DEF Paper!Orders, Paper!Roles, Paper!Id
  <2>3. Paper!TypeOK'
    BY <1>1, <1>4, <2>1, <2>2, <2>b DEF Paper!TypeOK
  <2>4. Paper!OfTheTrade'
    BY <1>1, <1>4, <2>1 DEF Paper!OfTheTrade, Paper!Id
  <2>5. Paper!HeldByTrade'
    BY <1>1, <1>4, <2>1, <2>b DEF Paper!HeldByTrade
  <2>6. QED
    BY ONLY <2>3, <2>4, <2>5, <2>b DEF Paper!PaperInv
<1>7. QED
  BY <1>5, <1>6

LEMMA PaperMark ==
  ASSUME Paper!PaperInv, NEW price \in Paper!Prices, NEW nxt \in Paper!NextFundingTimes,
         Paper!Mark(price, nxt)
  PROVE  Paper!PaperInv'
<1> USE PaperConstants DEF Paper!PaperInv
<1> DEFINE s == Paper!AfterStops(price)
<1>1. /\ price \in Int /\ nxt \in Nat /\ v1 \in Nat
      /\ v7 \subseteq Paper!Orders
      /\ v8 \subseteq (Nat \X Paper!Roles) /\ v13.side \in {1, -1} /\ v13.n \in Nat
      /\ v13 \in [n : Nat, side : {1, -1}, state : {"none", "entry", "open", "exit"}]
  BY DEF Paper!TypeOK, Paper!Prices, Paper!NextFundingTimes
<1>2. /\ v1' = v1 /\ v2' = price /\ v4' = nxt /\ v13' = v13 /\ Paper!Funds(s, nxt)
      /\ v8' = v8 \cup {o.id : o \in {h \in v7 : Paper!Hit(h, price)}} /\ v7' \subseteq v7
  BY DEF Paper!Mark
<1>3. /\ {s.pos, s.entry, s.balance, s.cash} \subseteq Int
      /\ s.balance = s.cash + s.pos * s.entry
      /\ s = [pos |-> s.pos, entry |-> s.entry, balance |-> s.balance, cash |-> s.cash]
      /\ s.pos = v5 \/ (s.pos = 0 /\ v13.state \notin {"none", "entry"})
  BY <1>1, StopsClose
<1> HIDE DEF s
<1>7. /\ {v5, v6, v9, v10}' \subseteq Int /\ Paper!CashAddsUp' /\ v5' = s.pos
      /\ v11' \in Nat /\ v12' \in [1..PaperEnd -> Nat] /\ Paper!PaidBefore'
  BY <1>1, <1>2, <1>3, FundsKeep
<1>8. \A o \in v7 : Paper!Hit(o, price) => o.id \in Nat \X Paper!Roles /\ o.id = Paper!Id("stop")
                                            /\ v13.state # "entry"
  <2>1. ASSUME NEW o \in v7, Paper!Hit(o, price)
        PROVE  o.id = Paper!Id("stop") /\ v13.state # "entry"
    BY <2>1 DEF Paper!OfTheTrade, Paper!Hit
  <2>2. Paper!Id("stop") \in Nat \X Paper!Roles
    BY <1>1 DEF Paper!Id, Paper!Roles
  <2>3. QED
    BY <2>1, <2>2
<1>10. Paper!TypeOK'
  <2>1. v8' \subseteq (Nat \X Paper!Roles)
    BY <1>1, <1>2, <1>8
  <2>2. QED
    BY <1>1, <1>2, <1>7, <2>1 DEF Paper!TypeOK
<1>11. Paper!OfTheTrade'
  <2>1. \A i \in v8' : i[1] <= v13.n
    BY <1>1, <1>2, <1>8 DEF Paper!OfTheTrade, Paper!Id
  <2>2. ASSUME NEW o \in v7', o.role = "entry"
        PROVE  o.id \notin v8' /\ v7' = {o}
    BY <1>2, <1>8, <2>2 DEF Paper!OfTheTrade
  <2>3. QED
    BY <1>2, <2>1, <2>2 DEF Paper!OfTheTrade, Paper!Id
<1>12. Paper!HeldByTrade'
  <2>1. v13.state = "entry" => v8' = v8
    BY <1>2, <1>8
  <2>2. QED
    <3>1. CASE s.pos = v5
      BY <1>2, <1>7, <2>1, <3>1 DEF Paper!HeldByTrade, Paper!Id
    <3>2. CASE s.pos = 0 /\ v13.state \notin {"none", "entry"}
      BY <1>1, <1>2, <1>7, <3>2 DEF Paper!HeldByTrade
    <3>3. QED
      BY <1>3, <3>1, <3>2
<1>14. QED
  BY ONLY <1>7, <1>10, <1>11, <1>12 DEF Paper!PaperInv

LEMMA PaperStep == ASSUME Paper!PaperInv, Paper!Next PROVE Paper!PaperInv'
BY PaperTick, PaperEnter, PaperEnds, PaperExit, PaperTrade, PaperClose, PaperProtect, PaperMark
DEF Paper!Next

LEMMA PaperMeans ==
  ASSUME Paper!PaperInv PROVE Paper!NeverFlips /\ Paper!CashAddsUp /\ Paper!FundingOnce
<1>1. Paper!NeverFlips /\ Paper!CashAddsUp
  BY DEF Paper!PaperInv, Paper!NeverFlips, Paper!HeldByTrade
<1>2. Paper!FundingOnce
  BY DEF Paper!PaperInv, Paper!FundingOnce, Paper!PaidBefore
<1>3. QED
  BY <1>1, <1>2

-----------------------------------------------------------------------------
(* Research.                                                               *)

(* What is left of a program after its first phase.                        *)
LEMMA RestOfProgram ==
  ASSUME NEW left \in Seq(Research!Phases), left # <<>>
  PROVE  /\ Head(left) = left[1] /\ 1 \in DOMAIN left
         /\ Tail(left) \in Seq(Research!Phases) /\ Len(Tail(left)) = Len(left) - 1
         /\ DOMAIN left = 1..Len(left) /\ DOMAIN Tail(left) = 1..Len(Tail(left))
         /\ \A i \in DOMAIN Tail(left) : i + 1 \in DOMAIN left /\ Tail(left)[i] = left[i + 1]
OBVIOUS

LEMMA RestInOrder ==
  ASSUME NEW left \in Seq(Research!Phases), left # <<>>
  PROVE  /\ Research!LooksLast(left) => Research!LooksLast(Tail(left))
         /\ Research!RecordsFirst(left) => Research!RecordsFirst(Tail(left))
<1> DEFINE rest == Tail(left)
           n == Len(left)
<1>1. /\ DOMAIN rest = 1..(n - 1) /\ Len(rest) = n - 1 /\ n \in Nat /\ DOMAIN left = 1..n
      /\ \A i \in 1..(n - 1) : rest[i] = left[i + 1]
  BY RestOfProgram
<1> HIDE DEF rest, n
<1>2. Len(left) = n /\ Tail(left) = rest
  BY DEF rest, n
<1>3. ASSUME Research!LooksLast(left) PROVE Research!LooksLast(rest)
  <2>1. ASSUME NEW i \in 1..(n - 1)
        PROVE  /\ rest[i] = "look"  => /\ i = n - 1 /\ (i > 1 => rest[i - 1] = "open")
                                      /\ (i > 2 => rest[i - 2] = "gates")
               /\ rest[i] = "open"  => i = n - 1 - 1
               /\ rest[i] = "gates" => i = n - 1 - 2
    <3> DEFINE j == i + 1
    <3>1. /\ j \in DOMAIN left /\ j - 1 = i /\ j - 2 = i - 1 /\ rest[i] = left[j]
          /\ i > 1 => i - 1 \in 1..(n - 1) /\ i - 1 + 1 = i
          /\ i > 2 => i - 2 \in 1..(n - 1) /\ i - 2 + 1 = i - 1
      BY <1>1
    <3>2. /\ i > 1 => rest[i - 1] = left[i]
          /\ i > 2 => rest[i - 2] = left[i - 1]
      BY <1>1, <3>1
    <3>3. j > 1 /\ (i > 1 => j > 2) /\ (j = n => i = n - 1) /\ (j = n - 1 => i = n - 1 - 1)
          /\ (j = n - 2 => i = n - 1 - 2)
      BY <1>1
    <3> HIDE DEF j
    <3>4. /\ left[j] = "look"  => /\ j = n /\ (j > 1 => left[j - 1] = "open")
                                 /\ (j > 2 => left[j - 2] = "gates")
          /\ left[j] = "open"  => j = n - 1
          /\ left[j] = "gates" => j = n - 2
      BY ONLY <1>2, <1>3, <3>1 DEF Research!LooksLast
    <3>5. QED
      BY <3>1, <3>2, <3>3, <3>4
  <2>2. QED
    BY <1>1, <2>1 DEF Research!LooksLast
<1>4. ASSUME Research!RecordsFirst(left) PROVE Research!RecordsFirst(rest)
  BY <1>1, <1>4 DEF Research!RecordsFirst
<1>5. QED
  BY <1>2, <1>3, <1>4

(* The runners: all of them in one order.                                  *)
LEMMA TrendFinalInOrder ==
  LET left == <<"simulate", "git_state", "prior", "record">> \o <<"gates", "open", "look">>
  IN  /\ left \in Seq(Research!Phases) /\ Research!LooksLast(left) /\ Research!RecordsFirst(left)
      /\ \A i \in DOMAIN left : left[i] = "look" => i > 2
      /\ 4 \in DOMAIN left /\ left[4] = "record"
<1> DEFINE left == <<"simulate", "git_state", "prior", "record">> \o <<"gates", "open", "look">>
<1>1. /\ left \in Seq(Research!Phases) /\ Len(left) = 7 /\ DOMAIN left = 1..7
      /\ left[1] = "simulate"
      /\ left[2] = "git_state"
      /\ left[3] = "prior"
      /\ left[4] = "record"
      /\ left[5] = "gates"
      /\ left[6] = "open"
      /\ left[7] = "look"
  BY DEF Research!Phases
<1> HIDE DEF left
<1>2. \A i \in DOMAIN left : i = 1 \/ i = 2 \/ i = 3 \/ i = 4 \/ i = 5 \/ i = 6 \/ i = 7
  BY <1>1
<1>3. QED
  BY <1>1, <1>2 DEF Research!LooksLast, Research!RecordsFirst, left

LEMMA TrendInOrder ==
  LET left == <<"simulate", "git_state", "prior", "record">> \o <<>>
  IN  /\ left \in Seq(Research!Phases) /\ Research!LooksLast(left) /\ Research!RecordsFirst(left)
      /\ \A i \in DOMAIN left : left[i] = "look" => FALSE
      /\ 4 \in DOMAIN left /\ left[4] = "record"
<1> DEFINE left == <<"simulate", "git_state", "prior", "record">> \o <<>>
<1>1. /\ left \in Seq(Research!Phases) /\ Len(left) = 4 /\ DOMAIN left = 1..4
      /\ left[1] = "simulate"
      /\ left[2] = "git_state"
      /\ left[3] = "prior"
      /\ left[4] = "record"
  BY DEF Research!Phases
<1> HIDE DEF left
<1>2. \A i \in DOMAIN left : i = 1 \/ i = 2 \/ i = 3 \/ i = 4
  BY <1>1
<1>3. QED
  BY <1>1, <1>2 DEF Research!LooksLast, Research!RecordsFirst, left

LEMMA CrowdingFinalInOrder ==
  LET left == <<"simulate", "git_state", "record">> \o <<"gates", "open", "look">>
  IN  /\ left \in Seq(Research!Phases) /\ Research!LooksLast(left) /\ Research!RecordsFirst(left)
      /\ \A i \in DOMAIN left : left[i] = "look" => i > 2
      /\ 3 \in DOMAIN left /\ left[3] = "record"
<1> DEFINE left == <<"simulate", "git_state", "record">> \o <<"gates", "open", "look">>
<1>1. /\ left \in Seq(Research!Phases) /\ Len(left) = 6 /\ DOMAIN left = 1..6
      /\ left[1] = "simulate"
      /\ left[2] = "git_state"
      /\ left[3] = "record"
      /\ left[4] = "gates"
      /\ left[5] = "open"
      /\ left[6] = "look"
  BY DEF Research!Phases
<1> HIDE DEF left
<1>2. \A i \in DOMAIN left : i = 1 \/ i = 2 \/ i = 3 \/ i = 4 \/ i = 5 \/ i = 6
  BY <1>1
<1>3. QED
  BY <1>1, <1>2 DEF Research!LooksLast, Research!RecordsFirst, left

LEMMA CrowdingInOrder ==
  LET left == <<"simulate", "git_state", "record">> \o <<>>
  IN  /\ left \in Seq(Research!Phases) /\ Research!LooksLast(left) /\ Research!RecordsFirst(left)
      /\ \A i \in DOMAIN left : left[i] = "look" => FALSE
      /\ 3 \in DOMAIN left /\ left[3] = "record"
<1> DEFINE left == <<"simulate", "git_state", "record">> \o <<>>
<1>1. /\ left \in Seq(Research!Phases) /\ Len(left) = 3 /\ DOMAIN left = 1..3
      /\ left[1] = "simulate"
      /\ left[2] = "git_state"
      /\ left[3] = "record"
  BY DEF Research!Phases
<1> HIDE DEF left
<1>2. \A i \in DOMAIN left : i = 1 \/ i = 2 \/ i = 3
  BY <1>1
<1>3. QED
  BY <1>1, <1>2 DEF Research!LooksLast, Research!RecordsFirst, left

LEMMA ShuffledFinalInOrder ==
  LET left == <<"simulate", "git_state">> \o <<"gates", "open", "look">>
  IN  /\ left \in Seq(Research!Phases) /\ Research!LooksLast(left) /\ Research!RecordsFirst(left)
      /\ \A i \in DOMAIN left : left[i] = "look" => i > 2
<1> DEFINE left == <<"simulate", "git_state">> \o <<"gates", "open", "look">>
<1>1. /\ left \in Seq(Research!Phases) /\ Len(left) = 5 /\ DOMAIN left = 1..5
      /\ left[1] = "simulate"
      /\ left[2] = "git_state"
      /\ left[3] = "gates"
      /\ left[4] = "open"
      /\ left[5] = "look"
  BY DEF Research!Phases
<1> HIDE DEF left
<1>2. \A i \in DOMAIN left : i = 1 \/ i = 2 \/ i = 3 \/ i = 4 \/ i = 5
  BY <1>1
<1>3. QED
  BY <1>1, <1>2 DEF Research!LooksLast, Research!RecordsFirst, left

LEMMA ShuffledInOrder ==
  LET left == <<"simulate", "git_state">> \o <<>>
  IN  /\ left \in Seq(Research!Phases) /\ Research!LooksLast(left) /\ Research!RecordsFirst(left)
      /\ \A i \in DOMAIN left : left[i] = "look" => FALSE
<1> DEFINE left == <<"simulate", "git_state">> \o <<>>
<1>1. /\ left \in Seq(Research!Phases) /\ Len(left) = 2 /\ DOMAIN left = 1..2
      /\ left[1] = "simulate"
      /\ left[2] = "git_state"
  BY DEF Research!Phases
<1> HIDE DEF left
<1>2. \A i \in DOMAIN left : i = 1 \/ i = 2
  BY <1>1
<1>3. QED
  BY <1>1, <1>2 DEF Research!LooksLast, Research!RecordsFirst, left

LEMMA SelectionInOrder ==
  LET left == <<"git_state", "simulate", "record", "choose", "simulate", "look", "record test">>
  IN  /\ left \in Seq(Research!Phases) /\ Research!RecordsFirst(left)
      /\ \E i \in DOMAIN left : left[i] = "record"
<1> DEFINE left == <<"git_state", "simulate", "record", "choose", "simulate", "look", "record test">>
<1>1. left \in Seq(Research!Phases)
  BY DEF Research!Phases
<1>2. DOMAIN left = 1..7
  OBVIOUS
<1>3. /\ left[1] = "git_state" /\ left[2] = "simulate" /\ left[3] = "record" /\ left[4] = "choose"
      /\ left[5] = "simulate" /\ left[6] = "look" /\ left[7] = "record test"
  OBVIOUS
<1> HIDE DEF left
<1>4. \A i \in DOMAIN left : i = 1 \/ i = 2 \/ i = 3 \/ i = 4 \/ i = 5 \/ i = 6 \/ i = 7
  BY ONLY <1>2
<1>5. 3 \in DOMAIN left
  BY ONLY <1>2
<1>6. Research!RecordsFirst(left)
  <2>1. \A i \in DOMAIN left :
          /\ left[i] = "record" => i = 3
          /\ left[i] = "look" => i = 6
          /\ left[i] = "git_state" => i = 1
    BY ONLY <1>3, <1>4
  <2>2. QED
    BY ONLY <2>1 DEF Research!RecordsFirst
<1>7. \E i \in DOMAIN left : left[i] = "record"
  BY ONLY <1>3, <1>5
<1>8. left \in Seq(Research!Phases) /\ Research!RecordsFirst(left) /\ \E i \in DOMAIN left : left[i] = "record"
  BY ONLY <1>1, <1>6, <1>7
<1>9. QED
  BY ONLY <1>8, Zenon DEF left

LEMMA RecentIsProgram == <<"simulate", "look", "git_state", "record test">> \in Seq(Research!Phases)
BY DEF Research!Phases

LEMMA ProgramsInOrder ==
  ASSUME v11 \in Kinds, NEW final \in BOOLEAN, NEW shuffled \in BOOLEAN
  PROVE  LET left == Research!research_run(final, shuffled)
         IN  /\ left \in Seq(Research!Phases)
             /\ Research!HasLockbox => /\ Research!LooksLast(left)
                                       /\ \A i \in DOMAIN left : left[i] = "look" => final /\ i > 2
             /\ v11 # "recent" /\ ~ shuffled =>
                  Research!RecordsFirst(left) /\ \E i \in DOMAIN left : left[i] = "record"
<1> DEFINE left == Research!research_run(final, shuffled)
<1> USE DEF Research!HasLockbox, Research!Final
<1>0. v11 \in {"trend", "intraday", "ml", "crowding", "selection", "recent"}
  BY ResearchAssumption DEF Research!ResearchAssumption
<1>1. CASE v11 \in {"trend", "intraday"}
  <2>1. left = <<"simulate", "git_state", "prior", "record">> \o Research!Final(final)
    BY ONLY <1>1 DEF Research!research_run, Research!run_trend, Research!run_intraday
  <2>2. QED
    BY <1>1, <2>1, TrendInOrder, TrendFinalInOrder
<1>2. CASE v11 = "crowding"
  <2>1. left = <<"simulate", "git_state", "record">> \o Research!Final(final)
    BY ONLY <1>2 DEF Research!research_run, Research!run_crowding
  <2>2. QED
    BY <1>2, <2>1, CrowdingInOrder, CrowdingFinalInOrder
<1>3. CASE v11 = "ml" /\ ~ shuffled
  <2>1. left = <<"simulate", "git_state", "record">> \o Research!Final(final)
    BY ONLY <1>3 DEF Research!research_run, Research!run_ml
  <2>2. QED
    BY <1>3, <2>1, CrowdingInOrder, CrowdingFinalInOrder
<1>4. CASE v11 = "ml" /\ shuffled
  <2>1. left = <<"simulate", "git_state">> \o Research!Final(final)
    BY ONLY <1>4 DEF Research!research_run, Research!run_ml
  <2>2. QED
    BY <1>4, <2>1, ShuffledInOrder, ShuffledFinalInOrder
<1>5. CASE v11 = "selection"
  <2>1. left = <<"git_state", "simulate", "record", "choose", "simulate", "look", "record test">>
    BY ONLY <1>5 DEF Research!research_run, Research!run_selection
  <2> HIDE DEF left
  <2>2. Research!RecordsFirst(left) /\ left \in Seq(Research!Phases)
        /\ \E i \in DOMAIN left : left[i] = "record"
    BY ONLY <2>1, SelectionInOrder
  <2>3. QED
    BY <1>5, <2>2 DEF left
<1>6. CASE v11 = "recent"
  <2>1. left = <<"simulate", "look", "git_state", "record test">>
    BY ONLY <1>6 DEF Research!research_run, Research!run_recent
  <2> HIDE DEF left
  <2>2. left \in Seq(Research!Phases)
    BY ONLY <2>1, RecentIsProgram
  <2>3. QED
    BY <1>6, <2>2 DEF left
<1>7. QED
  BY <1>0, <1>1, <1>2, <1>3, <1>4, <1>5, <1>6

-----------------------------------------------------------------------------
(* A line that is in the ledger stays there.                               *)
LEMMA LedgerKept ==
  ASSUME v5 \in Seq(Research!Lines), NEW e \in Research!Lines, v5' = v5 \/ v5' = Append(v5, e)
  PROVE  /\ \A id : Research!Recorded(id) => Research!Recorded(id)'
         /\ Research!lockbox_opened => Research!lockbox_opened'
         /\ v5' \in Seq(Research!Lines)
<1>1. /\ DOMAIN v5 \subseteq DOMAIN v5' /\ \A i \in DOMAIN v5 : v5'[i] = v5[i]
      /\ v5' \in Seq(Research!Lines)
  OBVIOUS
<1>2. Research!InLedger \subseteq Research!InLedger'
  BY <1>1 DEF Research!InLedger
<1>3. QED
  BY <1>1, <1>2 DEF Research!Recorded, Research!lockbox_opened

(* The next phase: what the phase that is over leaves to those that come.  *)
LEMMA RecordingGoes ==
  ASSUME v7 \in Research!Runs, v7.left # <<>>, Research!RecordedSoFar, v7 # Research!NoRun,
         v7'.left = Tail(v7.left), v7'.done = {}, v7'.shuffled = v7.shuffled, v11' = v11,
         v7.left[1] = "git_state" \/ v7'.data = v7.data,
         \A id : Research!Recorded(id) => Research!Recorded(id)',
         v7.left[1] = "record" =>
           \A t \in Trials : Research!Recorded(Research!TrialId(t, "dev", v7.data))
  PROVE  Research!RecordedSoFar'
<1>1. /\ v7.left \in Seq(Research!Phases) /\ 1 \in DOMAIN v7.left
      /\ \A i \in DOMAIN v7'.left : i + 1 \in DOMAIN v7.left /\ v7'.left[i] = v7.left[i + 1]
      /\ DOMAIN v7.left = 1..Len(v7.left) /\ DOMAIN v7'.left = 1..(Len(v7.left) - 1)
      /\ Len(v7.left) \in Nat
  BY RestOfProgram DEF Research!Runs
<1>2. ASSUME v11' # "recent", ~ v7'.shuffled
      PROVE  /\ Research!RecordsFirst(v7'.left)
             /\ ~ Research!Comes("record")' =>
                  /\ ~ Research!Comes("git_state")'
                  /\ \A t \in Trials : Research!Recorded(Research!TrialId(t, "dev", v7.data))'
                  /\ v7'.data = v7.data
  <2>1. /\ Research!RecordsFirst(v7.left)
        /\ ~ Research!Comes("record") =>
             ~ Research!Comes("git_state")
             /\ \A t \in Trials : Research!Recorded(Research!TrialId(t, "dev", v7.data))
    BY <1>2 DEF Research!RecordedSoFar
  <2>2. Research!RecordsFirst(v7'.left)
    BY <1>1, <2>1, RestInOrder
  <2>3. ASSUME ~ Research!Comes("record")', Research!Comes("record")
        PROVE  v7.left[1] = "record"
    <3>1. PICK i \in DOMAIN v7.left : v7.left[i] = "record"
      BY <2>3 DEF Research!Comes
    <3>2. CASE i # 1
      <4>1. i - 1 \in DOMAIN v7'.left /\ i - 1 + 1 = i
        BY <1>1, <3>2
      <4>2. QED
        BY <1>1, <2>3, <3>1, <4>1 DEF Research!Comes
    <3>3. QED
      BY <3>1, <3>2
  <2>4. CASE v7.left[1] = "record"
    <3>1. ~ Research!Comes("git_state")'
      BY <1>1, <2>1, <2>4 DEF Research!RecordsFirst, Research!Comes
    <3>2. QED
      BY <2>2, <2>4, <3>1
  <2>5. CASE ~ Research!Comes("record")
    <3>1. ~ Research!Comes("git_state")' /\ v7.left[1] # "git_state"
      BY <1>1, <2>1, <2>5 DEF Research!Comes
    <3>2. QED
      BY <2>1, <2>2, <2>5, <3>1
  <2>6. QED
    BY <2>2, <2>3, <2>4, <2>5
<1>3. QED
  BY <1>2 DEF Research!RecordedSoFar, Research!TrialId, Research!Recorded, Research!InLedger

LEMMA GateGoes ==
  ASSUME v7 \in Research!Runs, v7.left # <<>>, Research!Gated,
         v7'.left = Tail(v7.left), v7'.final = v7.final, v7.passed => v7'.passed, v11' = v11,
         Research!lockbox_opened => Research!lockbox_opened',
         Research!HasLockbox =>
           /\ v7.left[1] = "gates" => v7'.passed
           /\ v7.left[1] = "open" => Research!lockbox_opened' /\ v10' = {}
           /\ v10' # {} => Research!lockbox_opened'
  PROVE  Research!Gated'
<1>1. /\ v7.left \in Seq(Research!Phases)
      /\ \A i \in DOMAIN v7'.left : i + 1 \in DOMAIN v7.left /\ v7'.left[i] = v7.left[i + 1]
      /\ DOMAIN v7.left = 1..Len(v7.left) /\ DOMAIN v7'.left = 1..(Len(v7.left) - 1)
      /\ Len(v7.left) \in Nat
  BY RestOfProgram DEF Research!Runs
<1>2. CASE ~ Research!HasLockbox
  BY <1>2 DEF Research!Gated, Research!HasLockbox
<1>3. CASE Research!HasLockbox
  <2>1. Research!LooksLast(v7.left) /\ Research!LooksLast(v7'.left)
    BY <1>1, <1>3, RestInOrder DEF Research!Gated
  <2>2. ASSUME NEW i \in DOMAIN v7'.left, v7'.left[i] = "look"
        PROVE  /\ v7'.final
               /\ i <= 2 => v7'.passed
               /\ i = 1 => Research!lockbox_opened' /\ v10' = {}
    <3>1. i + 1 \in DOMAIN v7.left /\ v7.left[i + 1] = "look" /\ i \in Nat
      BY <1>1, <2>2
    <3>2. v7.final /\ (i + 1 <= 2 => v7.passed)
      BY <1>3, <3>1 DEF Research!Gated
    <3>3. /\ i = 1 => v7.left[1] = "open"
          /\ i = 2 => v7.left[1] = "gates"
      <4>1. /\ i + 1 > 1 => v7.left[i + 1 - 1] = "open"
            /\ i + 1 > 2 => v7.left[i + 1 - 2] = "gates"
        BY <2>1, <3>1 DEF Research!LooksLast
      <4>2. QED
        BY <3>1, <4>1
    <3>4. i <= 2 => i = 1 \/ i = 2
      BY <1>1
    <3>5. QED
      BY <1>3, <3>2, <3>3, <3>4
  <2>3. QED
    BY <1>3, <2>1, <2>2 DEF Research!Gated
<1>4. QED
  BY <1>2, <1>3

-----------------------------------------------------------------------------
(* The run after a phase.                                                  *)
LEMMA PastIs ==
  ASSUME v7 \in Research!Runs, v7.left # <<>>
  PROVE  /\ Research!Past \in Research!Runs
         /\ Research!Past.left = Tail(v7.left) /\ Research!Past.done = {}
         /\ Research!Past.final = v7.final /\ Research!Past.passed = v7.passed
         /\ Research!Past.shuffled = v7.shuffled /\ Research!Past.data = v7.data
<1> DEFINE past == Research!Past
<1>1. past = [v7 EXCEPT !.left = Tail(v7.left), !.done = {}]
  BY DEF Research!Past
<1> HIDE DEF past
<1>2. past \in Research!Runs /\ past.left = Tail(v7.left) /\ past.done = {}
      /\ past.final = v7.final /\ past.passed = v7.passed
      /\ past.shuffled = v7.shuffled /\ past.data = v7.data
  BY <1>1, RestOfProgram DEF Research!Runs
<1>3. QED
  BY <1>2 DEF past

LEMMA RunsStart ==
  /\ Research!NoRun.left = <<>>
  /\ v7 \in Research!Runs => v7 # Research!NoRun
  /\ Research!TypeOK /\ v7.left # <<>> => v7 \in Research!Runs
<1>1. Research!NoRun.left = <<>>
  BY DEF Research!NoRun
<1>2. ASSUME v7 \in Research!Runs PROVE v7 # Research!NoRun
  BY <1>2 DEF Research!Runs, Research!NoRun
<1>3. ASSUME Research!TypeOK, v7.left # <<>> PROVE v7 \in Research!Runs
  BY <1>1, <1>3 DEF Research!TypeOK
<1>4. QED
  BY <1>1, <1>2, <1>3

(* The run is over.                                                        *)
LEMMA RunIsOver ==
  ASSUME Research!ResearchInv, v7' = Research!NoRun, v11' = v11, v10' = v10, v5' = v5
  PROVE  Research!Gated' /\ Research!RecordedSoFar'
<1>1. v7'.left = <<>> /\ DOMAIN v7'.left = {}
  BY RunsStart
<1>2. Research!LooksLast(v7'.left)
  BY <1>1 DEF Research!LooksLast
<1>3. Research!Gated'
  BY <1>1, <1>2 DEF Research!ResearchInv, Research!Gated, Research!HasLockbox,
    Research!lockbox_opened, Research!InLedger
<1>4. QED
  BY <1>3 DEF Research!RecordedSoFar

(* What is said of the ledger, the returns files and the looks.            *)
LEMMA NothingSaid ==
  ASSUME Research!ResearchInv, v11' = v11, v10' = v10, v5' = v5, v6' = v6
  PROVE  Research!ReturnsMatch' /\ Research!LockboxOnce' /\ Research!RecordedBeforeLook'
BY DEF Research!ResearchInv, Research!ReturnsMatch, Research!LockboxOnce, Research!HasLockbox,
  Research!RecordedBeforeLook, Research!lockbox_opened, Research!InLedger, Research!Recorded,
  Research!TrialId

LEMMA ResearchStarts == ASSUME Research!ResearchInit PROVE Research!ResearchInv
<1> USE DEF Research!ResearchInit
<1>1. v7.left = <<>> /\ DOMAIN v7.left = {} /\ DOMAIN v5 = {} /\ v5 \in Seq(Research!Lines)
  BY RunsStart
<1>2. Research!TypeOK
  BY <1>1 DEF Research!TypeOK
<1>3. Research!ReturnsMatch /\ Research!RecordedBeforeLook /\ Research!RecordedSoFar
  BY <1>1 DEF Research!ReturnsMatch, Research!RecordedBeforeLook, Research!RecordedSoFar
<1>4. Research!Gated
  BY <1>1 DEF Research!Gated, Research!LooksLast
<1>5. Research!LockboxOnce
  BY DEF Research!LockboxOnce
<1>6. QED
  BY <1>2, <1>3, <1>4, <1>5 DEF Research!ResearchInv

-----------------------------------------------------------------------------
(* The work tree changes under a run.                                      *)
LEMMA TreeStep ==
  ASSUME Research!ResearchInv,
         Research!EditCode \/ Research!FetchData \/ Research!Commit \/ Research!EditPrereg
  PROVE  Research!ResearchInv'
<1> USE DEF Research!EditCode, Research!FetchData, Research!Commit, Research!EditPrereg
<1>1. /\ v11' = v11 /\ v10' = v10 /\ v9' = v9 /\ v8' = v8 /\ v7' = v7 /\ v6' = v6 /\ v5' = v5
      /\ v3' \in {v3, v3 + 1} /\ v4' \in {v4, v4 + 1}
  OBVIOUS
<1>2. Research!TypeOK'
  <2>1. Research!TypeOK
    BY DEF Research!ResearchInv
  <2>2. v3' \in Nat /\ v4' \in Nat
    BY ONLY <1>1, <2>1 DEF Research!TypeOK
  <2>3. v1' \in BOOLEAN /\ v2' \in BOOLEAN
    BY <2>1 DEF Research!TypeOK
  <2>4. QED
    BY ONLY <1>1, <2>1, <2>2, <2>3 DEF Research!TypeOK
<1>3. Research!Gated' /\ Research!RecordedSoFar'
  BY ONLY <1>1, Research!ResearchInv DEF Research!ResearchInv, Research!Gated,
    Research!RecordedSoFar, Research!HasLockbox, Research!lockbox_opened, Research!InLedger,
    Research!Recorded, Research!TrialId, Research!Comes
<1>4. QED
  BY <1>1, <1>2, <1>3, NothingSaid DEF Research!ResearchInv

LEMMA StartStep ==
  ASSUME Research!ResearchInv, NEW exploratory \in BOOLEAN, NEW final \in BOOLEAN,
         NEW shuffled \in BOOLEAN, Research!Start(exploratory, final, shuffled)
  PROVE  Research!ResearchInv'
<1> DEFINE left == Research!research_run(final, shuffled)
<1>1. /\ v7' = [left |-> left, n |-> v8 + 1, shuffled |-> shuffled,
                exploratory |-> exploratory \/ shuffled, final |-> final, passed |-> FALSE,
                with |-> [code |-> v3, data |-> v4], data |-> v4, done |-> {}, now |-> "none"]
      /\ v8' = v8 + 1
      /\ v11' = v11 /\ v10' = v10 /\ v9' = v9 /\ v6' = v6 /\ v5' = v5
      /\ v1' = v1 /\ v2' = v2 /\ v3' = v3 /\ v4' = v4
  BY DEF Research!Start, Research!repo
<1>2. Research!TypeOK
  BY DEF Research!ResearchInv
<1>3. /\ left \in Seq(Research!Phases)
      /\ Research!HasLockbox => /\ Research!LooksLast(left)
                                /\ \A i \in DOMAIN left : left[i] = "look" => final /\ i > 2
      /\ v11 # "recent" /\ ~ shuffled =>
           Research!RecordsFirst(left) /\ \E i \in DOMAIN left : left[i] = "record"
  BY <1>2, ProgramsInOrder DEF Research!TypeOK
<1> HIDE DEF left
<1>4. v7' \in Research!Runs /\ v7'.left = left /\ v7'.final = final /\ v7'.shuffled = shuffled
      /\ v7'.done = {}
  BY <1>1, <1>2, <1>3 DEF Research!Runs, Research!TypeOK, Research!Contents
<1>5. Research!TypeOK'
  BY ONLY <1>1, <1>2, <1>4 DEF Research!TypeOK
<1>6. Research!Gated'
  <2>1. \A i \in DOMAIN left : left[i] = "look" => i > 2 \/ ~ Research!HasLockbox
    <3>1. DOMAIN left \subseteq Nat
      BY <1>3
    <3>2. QED
      BY <1>3, <3>1
  <2>2. QED
    BY ONLY <1>1, <1>3, <1>4, <2>1, Research!ResearchInv DEF Research!ResearchInv, Research!Gated,
      Research!HasLockbox, Research!lockbox_opened, Research!InLedger
<1>7. Research!RecordedSoFar'
  BY ONLY <1>1, <1>3, <1>4 DEF Research!RecordedSoFar, Research!Comes
<1>8. QED
  BY <1>1, <1>5, <1>6, <1>7, NothingSaid DEF Research!ResearchInv

-----------------------------------------------------------------------------
(* The phases that record nothing.                                         *)

(* A phase that leaves the ledger and the looks alone ends, and the run    *)
(* goes on, with what was done forgotten.                                  *)
LEMMA PhaseEnds ==
  ASSUME Research!ResearchInv, v7.left # <<>>, v7' \in Research!Runs,
         v7'.left = Tail(v7.left), v7'.done = {}, v7'.shuffled = v7.shuffled,
         v7'.final = v7.final, v7.passed => v7'.passed,
         v7.left[1] = "git_state" \/ v7'.data = v7.data,
         v7.left[1] = "gates" => v7'.passed,
         v7.left[1] # "open",
         v7.left[1] = "record" =>
           \A t \in Trials : Research!Recorded(Research!TrialId(t, "dev", v7.data)),
         v11' = v11, v10' = v10, v8' = v8, v6' = v6, v5' = v5, UNCHANGED Research!repo
  PROVE  Research!ResearchInv'
<1>1. v7 \in Research!Runs /\ v7 # Research!NoRun
  BY RunsStart DEF Research!ResearchInv
<1>2. /\ \A id : Research!Recorded(id) => Research!Recorded(id)'
      /\ Research!lockbox_opened => Research!lockbox_opened'
  BY DEF Research!Recorded, Research!lockbox_opened, Research!InLedger
<1>3. Research!TypeOK'
  BY DEF Research!ResearchInv, Research!TypeOK, Research!repo
<1>4. Research!RecordedSoFar'
  BY <1>1, <1>2, RecordingGoes DEF Research!ResearchInv
<1>5. Research!Gated'
  BY <1>1, <1>2, GateGoes DEF Research!ResearchInv, Research!Gated
<1>6. QED
  BY <1>3, <1>4, <1>5, NothingSaid DEF Research!ResearchInv

(* The run ends and nothing else changes.                                  *)
LEMMA RunEnds ==
  ASSUME Research!ResearchInv, v7' = Research!NoRun, v11' = v11, v10' = v10, v8' = v8, v6' = v6,
         v5' = v5, UNCHANGED Research!repo
  PROVE  Research!ResearchInv'
<1>1. Research!TypeOK'
  BY DEF Research!ResearchInv, Research!TypeOK, Research!repo
<1>2. QED
  BY <1>1, RunIsOver, NothingSaid DEF Research!ResearchInv

LEMMA PhaseStep ==
  ASSUME Research!ResearchInv,
         \/ Research!Simulate \/ Research!GitState \/ Research!Choose \/ Research!RecordedAll
         \/ \E ok \in BOOLEAN : Research!Prior(ok) \/ Research!Gates(ok)
         \/ Research!Finish \/ Research!Interrupt
  PROVE  Research!ResearchInv'
<1> USE DEF Research!At
<1>1. /\ v11' = v11 /\ v10' = v10 /\ v8' = v8 /\ v6' = v6 /\ v5' = v5 /\ UNCHANGED Research!repo
  BY DEF Research!Simulate, Research!GitState, Research!Choose, Research!RecordedAll, Research!Prior,
    Research!Gates, Research!Finish, Research!Interrupt
<1>2. CASE v7' = Research!NoRun
  BY <1>1, <1>2, RunEnds
<1>3. CASE v7' # Research!NoRun
  <2>1. v7.left # <<>>
    BY <1>3 DEF Research!Simulate, Research!GitState, Research!Choose, Research!RecordedAll,
      Research!Prior, Research!Gates, Research!Finish, Research!Interrupt
  <2>2. v7 \in Research!Runs /\ v4 \in Nat /\ Head(v7.left) = v7.left[1]
    <3>1. v7 \in Research!Runs /\ v4 \in Nat
      BY <2>1, RunsStart DEF Research!ResearchInv, Research!TypeOK
    <3>2. v7.left \in Seq(Research!Phases)
      BY <3>1 DEF Research!Runs
    <3>3. QED
      BY <2>1, <3>1, <3>2, RestOfProgram
  <2> DEFINE past == Research!Past
  <2>3. /\ past \in Research!Runs /\ past.left = Tail(v7.left) /\ past.done = {}
        /\ past.final = v7.final /\ past.passed = v7.passed
        /\ past.shuffled = v7.shuffled /\ past.data = v7.data
    BY <2>1, <2>2, PastIs
  <2>4. \/ /\ v7.left[1] = "simulate" /\ v7' = [past EXCEPT !.with.data = v4]
        \/ /\ v7.left[1] = "git_state"
           /\ v7' = [past EXCEPT !.data = v4, !.exploratory = @ \/ ~ v2 \/ ~ v1]
        \/ /\ v7.left[1] = "choose" /\ \E t \in Trials : v7' = [past EXCEPT !.now = t]
        \/ /\ v7.left[1] = "prior" /\ v7' = past
        \/ /\ v7.left[1] = "gates" /\ v7' = [past EXCEPT !.passed = TRUE]
        \/ /\ v7.left[1] \in {"record", "record test"} /\ Research!Todo = {} /\ v7' = past
    BY <1>3, <2>1, <2>2 DEF Research!Simulate, Research!GitState, Research!Choose,
      Research!RecordedAll, Research!Prior, Research!Gates, Research!Finish, Research!Interrupt
  <2> HIDE DEF past
  <2>5. /\ v7' \in Research!Runs /\ v7'.left = past.left /\ v7'.done = past.done
        /\ v7'.final = past.final /\ v7'.shuffled = past.shuffled
        /\ past.passed => v7'.passed
        /\ v7.left[1] = "git_state" \/ v7'.data = past.data
        /\ v7.left[1] = "gates" => v7'.passed
    <3>1. CASE v7.left[1] = "simulate" /\ v7' = [past EXCEPT !.with.data = v4]
      BY <2>2, <2>3, <3>1 DEF Research!Runs, Research!Contents
    <3>2. CASE /\ v7.left[1] = "git_state"
               /\ v7' = [past EXCEPT !.data = v4, !.exploratory = @ \/ ~ v2 \/ ~ v1]
      BY <2>2, <2>3, <3>2 DEF Research!Runs
    <3>3. CASE v7.left[1] = "choose" /\ \E t \in Trials : v7' = [past EXCEPT !.now = t]
      BY <2>3, <3>3 DEF Research!Runs
    <3>4. CASE v7.left[1] = "prior" /\ v7' = past
      BY <2>3, <3>4
    <3>5. CASE v7.left[1] = "gates" /\ v7' = [past EXCEPT !.passed = TRUE]
      BY <2>3, <3>5 DEF Research!Runs
    <3>6. CASE v7.left[1] \in {"record", "record test"} /\ v7' = past
      BY <2>3, <3>6
    <3>7. QED
      BY <2>4, <3>1, <3>2, <3>3, <3>4, <3>5, <3>6
  <2>6. ASSUME v7.left[1] = "record"
        PROVE  \A t \in Trials : Research!Recorded(Research!TrialId(t, "dev", v7.data))
    <3>1. Research!Todo = {} /\ Research!Todo =
            {Research!TrialId(t, "dev", v7.data) : t \in Trials} \ v7.done
      BY <2>1, <2>2, <2>4, <2>6 DEF Research!Todo
    <3>2. \A t \in Trials : Research!TrialId(t, "dev", v7.data) \in v7.done
      BY <3>1
    <3>3. QED
      BY <2>2, <3>2, RunsStart DEF Research!ResearchInv, Research!RecordedSoFar
  <2>7. v7.left[1] # "open"
    BY <2>4
  <2>8. QED
    BY <1>1, <2>1, <2>3, <2>5, <2>6, <2>7, PhaseEnds
<1>4. QED
  BY <1>2, <1>3

-----------------------------------------------------------------------------
(* Recording, the lockbox, the look.                                       *)

(* The trial that is next: a run records, and has not recorded this one.   *)
LEMMA TodoIs ==
  ASSUME Research!ResearchInv, NEW id \in Research!Todo
  PROVE  /\ v7 \in Research!Runs /\ v7 # Research!NoRun /\ id \in Research!Ids
         /\ v7.left # <<>>
<1>1. v7.left # <<>>
  BY DEF Research!Todo, Research!At
<1>2. v7 \in Research!Runs /\ v7 # Research!NoRun
  BY <1>1, RunsStart DEF Research!ResearchInv
<1>3. v7.data \in Nat /\ v7.now \in Trials \cup {"none"}
  BY <1>2 DEF Research!Runs
<1>4. \E t \in Trials \cup {"none"} : \E period \in {"dev", "test"} :
        id = Research!TrialId(t, period, v7.data)
  BY <1>3 DEF Research!Todo
<1>5. id \in Research!Ids
  BY <1>3, <1>4 DEF Research!TrialId, Research!Ids
<1>6. QED
  BY <1>1, <1>2, <1>5

(* A trial of the run is done: it is in the ledger.                        *)
LEMMA TrialIsDone ==
  ASSUME Research!ResearchInv, NEW id \in Research!Todo, v7' = [v7 EXCEPT !.done = @ \cup {id}],
         \A i : Research!Recorded(i) => Research!Recorded(i)',
         Research!lockbox_opened => Research!lockbox_opened', Research!Recorded(id)',
         v11' = v11, v10' = v10
  PROVE  v7' \in Research!Runs /\ Research!Gated' /\ Research!RecordedSoFar'
<1>1. v7 \in Research!Runs /\ v7 # Research!NoRun /\ id \in Research!Ids
  BY TodoIs
<1>2. /\ v7' \in Research!Runs /\ v7'.left = v7.left /\ v7'.done = v7.done \cup {id}
      /\ v7'.final = v7.final /\ v7'.passed = v7.passed
      /\ v7'.shuffled = v7.shuffled /\ v7'.data = v7.data
  BY <1>1 DEF Research!Runs
<1>3. Research!Gated'
  BY ONLY <1>2, v11' = v11, v10' = v10, Research!lockbox_opened => Research!lockbox_opened',
    Research!ResearchInv
    DEF Research!ResearchInv, Research!Gated, Research!HasLockbox
<1>4. Research!RecordedSoFar
  BY DEF Research!ResearchInv
<1>5. \A i \in v7'.done : Research!Recorded(i)'
  BY <1>1, <1>2, <1>4 DEF Research!RecordedSoFar
<1>6. ASSUME v11 # "recent", ~ v7.shuffled
      PROVE  /\ Research!RecordsFirst(v7'.left)
             /\ ~ Research!Comes("record")' =>
                  /\ ~ Research!Comes("git_state")'
                  /\ \A t \in Trials : Research!Recorded(Research!TrialId(t, "dev", v7.data))'
  BY <1>1, <1>2, <1>4, <1>6 DEF Research!RecordedSoFar, Research!Comes
<1>7. Research!RecordedSoFar'
  BY <1>2, <1>5, <1>6
    DEF Research!RecordedSoFar, Research!TrialId, Research!Recorded, Research!InLedger
<1>8. QED
  BY <1>2, <1>3, <1>7

LEMMA LooksStay ==
  ASSUME Research!ResearchInv, v10' = v10, v11' = v11,
         \A id : Research!Recorded(id) => Research!Recorded(id)',
         Research!lockbox_opened => Research!lockbox_opened'
  PROVE  Research!LockboxOnce' /\ Research!RecordedBeforeLook'
<1>1. Research!LockboxOnce'
  BY DEF Research!ResearchInv, Research!LockboxOnce, Research!HasLockbox
<1>2. ASSUME NEW r \in v10', v11' # "recent" /\ ~ r.shuffled, NEW t \in Trials
      PROVE  Research!Recorded(Research!TrialId(t, "dev", r.data))'
  BY <1>2 DEF Research!ResearchInv, Research!RecordedBeforeLook
<1>3. QED
  BY <1>1, <1>2
    DEF Research!RecordedBeforeLook, Research!TrialId, Research!Recorded, Research!InLedger

LEMMA SkipStep ==
  ASSUME Research!ResearchInv, NEW id \in Research!Todo, Research!Skip(id)
  PROVE  Research!ResearchInv'
<1> USE DEF Research!Skip, Research!Done
<1>1. /\ v7' = [v7 EXCEPT !.done = @ \cup {id}] /\ v11' = v11 /\ v10' = v10 /\ v8' = v8
      /\ v6' = v6 /\ v5' = v5 /\ UNCHANGED Research!repo /\ Research!Recorded(id)
  OBVIOUS
<1>2. /\ \A i : Research!Recorded(i) => Research!Recorded(i)'
      /\ Research!lockbox_opened => Research!lockbox_opened'
  BY <1>1 DEF Research!Recorded, Research!lockbox_opened, Research!InLedger
<1>3. v7' \in Research!Runs /\ Research!Gated' /\ Research!RecordedSoFar'
  BY <1>1, <1>2, TrialIsDone
<1>4. Research!TypeOK'
  BY <1>1, <1>3 DEF Research!ResearchInv, Research!TypeOK, Research!repo
<1>5. QED
  BY <1>1, <1>3, <1>4, NothingSaid DEF Research!ResearchInv

LEMMA WriteReturnsStep ==
  ASSUME Research!ResearchInv, NEW id \in Research!Todo, Research!WriteReturns(id)
  PROVE  Research!ResearchInv'
<1> USE DEF Research!WriteReturns
<1>1. /\ v11' = v11 /\ v10' = v10 /\ v8' = v8 /\ v7' = v7 /\ v5' = v5 /\ UNCHANGED Research!repo
      /\ ~ Research!Recorded(id)
      /\ v6' = [i \in DOMAIN v6 \cup {id} |-> IF i = id THEN v7.with ELSE v6[i]]
  OBVIOUS
<1>2. Research!TypeOK' /\ Research!Gated' /\ Research!RecordedSoFar'
  BY ONLY <1>1, Research!ResearchInv DEF Research!ResearchInv, Research!TypeOK, Research!repo,
    Research!Gated, Research!RecordedSoFar, Research!HasLockbox, Research!lockbox_opened,
    Research!InLedger, Research!Recorded, Research!TrialId, Research!Comes
<1>3. Research!ReturnsMatch'
  <2>1. \A i \in DOMAIN v5 : v5[i].kind = "trial" => v5[i].id # id
    BY <1>1 DEF Research!Recorded, Research!InLedger
  <2>2. QED
    BY <1>1, <2>1 DEF Research!ResearchInv, Research!ReturnsMatch
<1>4. /\ \A i : Research!Recorded(i) => Research!Recorded(i)'
      /\ Research!lockbox_opened => Research!lockbox_opened'
  BY <1>1 DEF Research!Recorded, Research!lockbox_opened, Research!InLedger
<1>5. QED
  BY <1>1, <1>2, <1>3, <1>4, LooksStay DEF Research!ResearchInv

LEMMA AppendTrialStep ==
  ASSUME Research!ResearchInv, NEW id \in Research!Todo, Research!AppendTrial(id)
  PROVE  Research!ResearchInv'
<1> DEFINE line == [kind |-> "trial", id |-> id, returns |-> v7.with, exploratory |-> v7.exploratory]
<1> USE DEF Research!AppendTrial, Research!Done
<1>1. /\ v7' = [v7 EXCEPT !.done = @ \cup {id}] /\ v11' = v11 /\ v10' = v10 /\ v8' = v8
      /\ v6' = v6 /\ v5' = Append(v5, line) /\ UNCHANGED Research!repo
      /\ ~ Research!Recorded(id) /\ id \in DOMAIN v6 /\ v6[id] = v7.with
  BY DEF Research!Written
<1>2. line \in Research!Lines /\ line.kind = "trial" /\ line.id = id /\ line.returns = v7.with
  <2>1. v7.with \in Research!Contents /\ v7.exploratory \in BOOLEAN /\ id \in Research!Ids
    BY TodoIs DEF Research!Runs
  <2>2. QED
    BY <2>1 DEF Research!Lines
<1> HIDE DEF line
<1>3. v5 \in Seq(Research!Lines)
  BY DEF Research!ResearchInv, Research!TypeOK
<1>4. /\ \A i : Research!Recorded(i) => Research!Recorded(i)'
      /\ Research!lockbox_opened => Research!lockbox_opened'
      /\ v5' \in Seq(Research!Lines)
  BY <1>1, <1>2, <1>3, LedgerKept
<1>5. /\ DOMAIN v5 = 1..Len(v5) /\ DOMAIN v5' = 1..(Len(v5) + 1) /\ Len(v5) \in Nat
      /\ \A i \in DOMAIN v5 : v5'[i] = v5[i]
      /\ v5'[Len(v5) + 1] = line
  BY <1>1, <1>2, <1>3
<1>6. Research!Recorded(id)'
  <2>1. Len(v5) + 1 \in DOMAIN v5'
    BY <1>5
  <2>2. QED
    BY <1>2, <1>5, <2>1 DEF Research!Recorded, Research!InLedger
<1>7. v7' \in Research!Runs /\ Research!Gated' /\ Research!RecordedSoFar'
  BY <1>1, <1>4, <1>6, TrialIsDone
<1>8. Research!TypeOK'
  BY <1>1, <1>4, <1>7 DEF Research!ResearchInv, Research!TypeOK, Research!repo
<1>9. Research!ReturnsMatch'
  <2>1. \A i \in DOMAIN v5 : v5[i].kind = "trial" => v5[i].id # id
    BY <1>1 DEF Research!Recorded, Research!InLedger
  <2>2. \A i \in DOMAIN v5' : i \in DOMAIN v5 \/ i = Len(v5) + 1
    BY <1>5
  <2>3. Research!ReturnsMatch
    BY DEF Research!ResearchInv
  <2>4. QED
    BY ONLY <1>1, <1>2, <1>5, <2>1, <2>2, <2>3 DEF Research!ReturnsMatch
<1>10. QED
  BY <1>1, <1>4, <1>7, <1>8, <1>9, LooksStay DEF Research!ResearchInv

LEMMA OpenLockboxStep ==
  ASSUME Research!ResearchInv, Research!OpenLockbox
  PROVE  Research!ResearchInv'
<1> DEFINE line == [kind |-> "lockbox_opened", exploratory |-> v7.exploratory]
<1>1. /\ v7.left # <<>> /\ Head(v7.left) = "open" /\ v11' = v11 /\ v10' = v10 /\ v8' = v8
      /\ v6' = v6 /\ UNCHANGED Research!repo
      /\ \/ v7' = Research!NoRun /\ v5' = v5
         \/ ~ Research!lockbox_opened /\ v5' = Append(v5, line) /\ v7' = Research!Past
  BY DEF Research!OpenLockbox, Research!At
<1>2. v7 \in Research!Runs /\ v7 # Research!NoRun
  BY <1>1, RunsStart DEF Research!ResearchInv
<1>3. v7.left[1] = "open"
  BY <1>1, <1>2, RestOfProgram DEF Research!Runs
<1>4. line \in Research!Lines /\ line.kind = "lockbox_opened"
  BY <1>2 DEF Research!Lines, Research!Runs
<1> HIDE DEF line
<1>5. CASE v7' = Research!NoRun /\ v5' = v5
  BY <1>1, <1>5, RunEnds
<1>6. CASE ~ Research!lockbox_opened /\ v5' = Append(v5, line) /\ v7' = Research!Past
  <2>1. v5 \in Seq(Research!Lines)
    BY DEF Research!ResearchInv, Research!TypeOK
  <2>2. /\ \A i : Research!Recorded(i) => Research!Recorded(i)'
        /\ Research!lockbox_opened => Research!lockbox_opened'
        /\ v5' \in Seq(Research!Lines)
    BY <1>4, <1>6, <2>1, LedgerKept
  <2>3. /\ DOMAIN v5 = 1..Len(v5) /\ DOMAIN v5' = 1..(Len(v5) + 1) /\ Len(v5) \in Nat
        /\ \A i \in DOMAIN v5 : v5'[i] = v5[i]
        /\ v5'[Len(v5) + 1] = line
    BY <1>4, <1>6, <2>1
  <2>4. Research!lockbox_opened'
    <3>1. Len(v5) + 1 \in DOMAIN v5'
      BY <2>3
    <3>2. QED
      BY <1>4, <2>3, <3>1 DEF Research!lockbox_opened, Research!InLedger
  <2>5. /\ v7' \in Research!Runs /\ v7'.left = Tail(v7.left) /\ v7'.done = {}
        /\ v7'.final = v7.final /\ v7'.passed = v7.passed
        /\ v7'.shuffled = v7.shuffled /\ v7'.data = v7.data
    BY <1>1, <1>2, <1>6, PastIs
  <2>6. Research!HasLockbox => v10 = {}
    BY <1>6 DEF Research!ResearchInv, Research!Gated
  <2>7. Research!Gated'
    BY <1>1, <1>2, <1>3, <2>2, <2>4, <2>5, <2>6, GateGoes DEF Research!ResearchInv
  <2>8. Research!RecordedSoFar'
    BY <1>1, <1>2, <1>3, <2>2, <2>5, RecordingGoes DEF Research!ResearchInv
  <2>9. Research!TypeOK'
    BY <1>1, <2>2, <2>5 DEF Research!ResearchInv, Research!TypeOK, Research!repo
  <2>10. Research!ReturnsMatch'
    <3>1. \A i \in DOMAIN v5' : i \in DOMAIN v5 \/ i = Len(v5) + 1
      BY <2>3
    <3>2. Research!ReturnsMatch
      BY DEF Research!ResearchInv
    <3>3. QED
      BY ONLY <1>1, <1>4, <2>3, <3>1, <3>2 DEF Research!ReturnsMatch
  <2>11. QED
    BY <1>1, <2>2, <2>7, <2>8, <2>9, <2>10, LooksStay DEF Research!ResearchInv
<1>7. QED
  BY <1>1, <1>5, <1>6

LEMMA LookStep == ASSUME Research!ResearchInv, Research!Look PROVE Research!ResearchInv'
<1> DEFINE look == [n |-> v7.n, final |-> v7.final, passed |-> v7.passed,
                    shuffled |-> v7.shuffled, data |-> v7.data]
<1>1. /\ v7.left # <<>> /\ Head(v7.left) = "look" /\ v11' = v11 /\ v8' = v8
      /\ v6' = v6 /\ v5' = v5 /\ UNCHANGED Research!repo /\ v7' = Research!Past
      /\ v10' = v10 \cup {look}
  BY DEF Research!Look, Research!At
<1>2. look.final = v7.final /\ look.passed = v7.passed /\ look.shuffled = v7.shuffled
      /\ look.data = v7.data
  OBVIOUS
<1> HIDE DEF look
<1>3. v7 \in Research!Runs /\ v7 # Research!NoRun
  BY <1>1, RunsStart DEF Research!ResearchInv
<1>4. v7.left[1] = "look" /\ 1 \in DOMAIN v7.left
  BY <1>1, <1>3, RestOfProgram DEF Research!Runs
<1>5. /\ v7' \in Research!Runs /\ v7'.left = Tail(v7.left) /\ v7'.done = {}
      /\ v7'.final = v7.final /\ v7'.passed = v7.passed
      /\ v7'.shuffled = v7.shuffled /\ v7'.data = v7.data
  BY <1>1, <1>3, PastIs
<1>6. /\ \A id : Research!Recorded(id) => Research!Recorded(id)'
      /\ \A id : Research!Recorded(id)' => Research!Recorded(id)
      /\ Research!lockbox_opened => Research!lockbox_opened'
  BY <1>1 DEF Research!Recorded, Research!lockbox_opened, Research!InLedger
<1>7. Research!HasLockbox => v7.final /\ v7.passed /\ Research!lockbox_opened /\ v10 = {}
  BY <1>4 DEF Research!ResearchInv, Research!Gated
<1>8. Research!Gated'
  BY <1>1, <1>3, <1>4, <1>5, <1>6, <1>7, GateGoes DEF Research!ResearchInv
<1>9. Research!RecordedSoFar'
  BY <1>1, <1>3, <1>4, <1>5, <1>6, RecordingGoes DEF Research!ResearchInv
<1>10. Research!TypeOK' /\ Research!ReturnsMatch'
  BY <1>1, <1>5 DEF Research!ResearchInv, Research!TypeOK, Research!repo, Research!ReturnsMatch
<1>11. Research!LockboxOnce'
  BY <1>1, <1>2, <1>6, <1>7 DEF Research!LockboxOnce, Research!HasLockbox
<1>12. ASSUME v11 # "recent", ~ v7.shuffled, NEW t \in Trials
       PROVE  Research!Recorded(Research!TrialId(t, "dev", v7.data))
  <2>1. Research!RecordsFirst(v7.left)
        /\ (~ Research!Comes("record") => Research!Recorded(Research!TrialId(t, "dev", v7.data)))
    BY <1>3, <1>12 DEF Research!ResearchInv, Research!RecordedSoFar
  <2>2. ~ Research!Comes("record")
    <3>1. v7.left \in Seq(Research!Phases)
      BY <1>3 DEF Research!Runs
    <3>2. DOMAIN v7.left = 1..Len(v7.left)
      BY <3>1
    <3>3. QED
      BY <1>4, <2>1, <3>2 DEF Research!RecordsFirst, Research!Comes
  <2>3. QED
    BY <2>1, <2>2
<1>13. ASSUME NEW r \in v10', v11' # "recent" /\ ~ r.shuffled, NEW t \in Trials
       PROVE  Research!Recorded(Research!TrialId(t, "dev", r.data))'
  <2>1. CASE r \in v10
    BY <1>1, <1>6, <1>13, <2>1 DEF Research!ResearchInv, Research!RecordedBeforeLook
  <2>2. CASE r = look
    BY <1>1, <1>2, <1>6, <1>12, <1>13, <2>2
  <2>3. QED
    BY <1>1, <1>13, <2>1, <2>2
<1>14. Research!RecordedBeforeLook'
  BY <1>13
    DEF Research!RecordedBeforeLook, Research!TrialId, Research!Recorded, Research!InLedger
<1>15. QED
  BY <1>8, <1>9, <1>10, <1>11, <1>14 DEF Research!ResearchInv

LEMMA ResearchStep ==
  ASSUME Research!ResearchInv, Research!ResearchNext PROVE Research!ResearchInv'
BY TreeStep, StartStep, PhaseStep, SkipStep, WriteReturnsStep, AppendTrialStep, OpenLockboxStep,
  LookStep DEF Research!ResearchNext

-----------------------------------------------------------------------------
(* The system: one part runs, and keeps its invariant.                     *)

DataInv ==
  /\ part = "switch"   => Switch!SwitchInv
  /\ part = "vision"   => Vision!VisionInv
  /\ part = "tardis"   => Tardis!TardisInv /\ Tardis!QuotaIsMet
  /\ part = "daily"    => Daily!DailyInv
  /\ part = "checks"   => Checks!ChecksInv
  /\ part = "paper"    => Paper!PaperInv
  /\ part = "research" => Research!ResearchInv

LEMMA DataStarts == PartsInit => DataInv
<1>1. Tardis!Init => Tardis!QuotaIsMet
  BY DEF Tardis!Init, Tardis!QuotaIsMet
<1>2. QED
  BY <1>1, SwitchInit, VisionInit, TardisInit, DailyInit, ChecksInit, PaperInit, ResearchStarts
    DEF PartsInit, DataInv

(* What does not change stays true.                                        *)
LEMMA DataStays == ASSUME DataInv, UNCHANGED vars PROVE DataInv'
<1> USE DEF vars
<1>1. ASSUME Switch!SwitchInv PROVE Switch!SwitchInv'
  BY <1>1 DEF Switch!SwitchInv, Switch!TypeOK, Switch!Times, Switch!Past, Switch!LoopInTime,
    Switch!DrillInTime, Switch!DeadIsStill, Switch!AskIsAsked, Switch!DrillIsExcused,
    Switch!Remembered, Switch!Renewed, Switch!EntryIsKnown, Switch!CoveredSoon,
    Switch!LeftCovered, Switch!NothingIsCut, Switch!Hold, Switch!Covered
<1>2. ASSUME Vision!VisionInv PROVE Vision!VisionInv'
  BY <1>2 DEF Vision!VisionInv
<1>3. ASSUME Tardis!TardisInv, Tardis!QuotaIsMet PROVE Tardis!TardisInv' /\ Tardis!QuotaIsMet'
  BY <1>3 DEF Tardis!TardisInv, Tardis!TypeOK, Tardis!FileInv, Tardis!QuotaIsMet
<1>4. ASSUME Daily!DailyInv PROVE Daily!DailyInv'
  BY <1>4 DEF Daily!DailyInv, Daily!TypeOK, Daily!Untouched, Daily!AtWork, Daily!DiesRarely,
    Daily!ToCome, Daily!Consistent, Daily!Whole, Daily!Ahead, Daily!Venue
<1>5. ASSUME Checks!ChecksInv PROVE Checks!ChecksInv'
  BY <1>5 DEF Checks!ChecksInv, Checks!Documented, Checks!Waiting
<1>6. ASSUME Paper!PaperInv PROVE Paper!PaperInv'
  BY <1>6 DEF Paper!PaperInv, Paper!TypeOK, Paper!OfTheTrade, Paper!HeldByTrade,
    Paper!CashAddsUp, Paper!PaidBefore, Paper!Id
<1>7. ASSUME Research!ResearchInv PROVE Research!ResearchInv'
  <2>1. Research!TypeOK' /\ Research!Gated' /\ Research!RecordedSoFar'
    BY <1>7 DEF Research!ResearchInv, Research!TypeOK, Research!Gated, Research!RecordedSoFar,
      Research!HasLockbox, Research!lockbox_opened, Research!InLedger, Research!Recorded,
      Research!TrialId, Research!Comes
  <2>2. QED
    BY <1>7, <2>1, NothingSaid DEF Research!ResearchInv
<1>8. QED
  BY <1>1, <1>2, <1>3, <1>4, <1>5, <1>6, <1>7 DEF DataInv

LEMMA DataStep == ASSUME DataInv, [PartsNext]_vars PROVE DataInv'
<1>1. CASE PartsNext
  BY <1>1, SwitchStep, VisionStep, TardisStep, QuotaStep, DailyStep, ChecksStep, PaperStep, ResearchStep
    DEF PartsNext, DataInv
<1>2. QED
  BY <1>1, DataStays

LEMMA DataAlwaysHolds == PartsSpec => []DataInv
<1>1. QED
  BY DataStarts, DataStep, PTL DEF PartsSpec

(* The exchange cancels what a dead trader left, the switch covers what    *)
(* rests, and cuts nothing under a trader that lives: with whatever        *)
(* renewal, countdowns and delays fit together (DeadManSwitch).            *)
THEOREM SwitchAlwaysHolds == PartsSpec => []SwitchHolds
<1>1. DataInv => SwitchHolds
  BY SwitchMeans DEF DataInv, SwitchHolds
<1>2. QED
  BY <1>1, DataAlwaysHolds, PTL

(* What the imports leave on disk was verified and is whole, however many  *)
(* files, attempts and versions of them there are (import_tardis, fetch).  *)
THEOREM ArchiveStaysTrue == PartsSpec => []ArchiveIsTrue
<1>1. DataInv => ArchiveIsTrue
  BY TardisMeans, VisionMeans DEF DataInv, ArchiveIsTrue
<1>2. QED
  BY <1>1, DataAlwaysHolds, PTL

(* Once an import has met the quota, no download is begun, and what was    *)
(* verified is neither lost nor downloaded again (import_file).            *)
THEOREM QuotaAlwaysKept == PartsSpec => QuotaIsKept
<1>1. DataInv /\ [PartsNext]_vars => [part = "tardis" => Tardis!QuotaHolds]_vars
  BY QuotaKeeps DEF PartsNext, DataInv
<1>2. QED
  BY <1>1, DataAlwaysHolds, PTL DEF PartsSpec, QuotaIsKept

(* No day of the lake is mixed from two versions without being told, the   *)
(* service does not die again and again, and the check of a day is         *)
(* repeated until it is made: for any venues, tables and days.             *)
THEOREM LakeStaysTrue == PartsSpec => []LakeIsTrue
<1>1. DataInv => LakeIsTrue
  BY DailyMeans, ChecksMean DEF DataInv, LakeIsTrue
<1>2. QED
  BY <1>1, DataAlwaysHolds, PTL

(* The paper account adds up, is never turned around, and pays a funding   *)
(* time once: for any prices, lots and fees (PaperBroker).                 *)
THEOREM PaperAlwaysHolds == PartsSpec => []PaperHolds
<1>1. DataInv => PaperHolds
  BY PaperMeans DEF DataInv, PaperHolds
<1>2. QED
  BY <1>1, DataAlwaysHolds, PTL

(* The ledger tells the returns files apart, the lockbox is opened once,   *)
(* and what is held out is looked at after the trials are recorded: for    *)
(* any grid of trials, edits and runs (record_trial, open_lockbox).        *)
THEOREM ResearchStaysHonest == PartsSpec => []ResearchIsHonest
<1>1. DataInv => ResearchIsHonest
  BY DEF DataInv, ResearchIsHonest, Research!ResearchInv
<1>2. QED
  BY <1>1, DataAlwaysHolds, PTL

=============================================================================

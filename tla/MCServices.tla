----------------------------- MODULE MCServices -----------------------------
(* The account keeping of the trader (Ledger), the recorder's files        *)
(* (Segments) and the update of the server (AutoUpdate) for TLC: the       *)
(* initial state chooses one of them, which then runs by itself while the  *)
(* others stay as they are at first.                                       *)
EXTENDS Ledger

CONSTANTS
  FileFaults,   \* bound: failures, and crashes, of the recorder
  LastCommit, UpdateFaults, MaxManual  \* bounds of AutoUpdate

VARIABLES
  part,
  period, stamp, queue, fh, cur, hash, job, disk, hour, remote, up, recovery, running,
  written, faults,
  origin, checks, broken, head, services, update, updater, byHand, refused, excuse, spent

fileVars ==
  <<period, stamp, queue, fh, cur, hash, job, disk, hour, remote, up, recovery, running,
    written, faults>>
serverVars ==
  <<origin, checks, broken, head, services, update, updater, byHand, refused, excuse, spent>>
servicesVars == <<part, vars, fileVars, serverVars>>

BothWays == {1, -1}

Files == INSTANCE SegmentsProofs WITH
  MaxRecords <- 3, MaxPeriods <- 1, MaxFiles <- 3, MaxQueue <- 2, MaxFailures <- FileFaults,
  MaxCrashes <- FileFaults, Damage <- {"nothing"}

Server == INSTANCE AutoUpdate WITH MaxFaults <- UpdateFaults

ASSUME FilesAssumption == Files!SegmentsAssumption

ASSUME ServerAssumption == Server!AtLeastOne

ServicesInit ==
  /\ part \in {"account", "files", "server"}
  /\ Init /\ Files!Init
  /\ Server!UpdateInit /\ (part # "server" => broken = {})

OfAccount(A) == part = "account" /\ A /\ UNCHANGED <<part, fileVars, serverVars>>
OfFiles(A)   == part = "files"   /\ A /\ UNCHANGED <<part, vars, serverVars>>
OfServer(A)  == part = "server"  /\ A /\ UNCHANGED <<part, vars, fileVars>>

ServicesNext == OfAccount(Next) \/ OfFiles(Files!Next) \/ OfServer(Server!UpdateNext)

(* The fairness of Ledger and of Segments; the timer of the update fires   *)
(* every hour, and an installation ends.                                   *)
ServicesSpec ==
  /\ ServicesInit /\ [][ServicesNext]_servicesVars
  /\ WF_servicesVars(OfAccount(Elapsed)) /\ WF_servicesVars(OfAccount(Begin))
  /\ WF_servicesVars(OfAccount(TakePositions)) /\ WF_servicesVars(OfAccount(Compare))
  /\ WF_servicesVars(OfAccount((NewKey \/ Connected \/ Renew) /\ StreamOnly))
  /\ WF_servicesVars(OfAccount(key = "expired" /\ Keepalive(MaxFaults) /\ StreamOnly))
  /\ WF_servicesVars(OfFiles(Files!UploaderStep))
  /\ WF_servicesVars(OfFiles(Files!RecoveryStep))
  /\ WF_servicesVars(OfServer(Server!UpdaterStep))
  /\ WF_servicesVars(OfServer(Server!ManualInstall))

-----------------------------------------------------------------------------

(* In the end the stream is connected under a valid key, and we believe in *)
(* the exchange's position, whatever was lost, repeated or interrupted.    *)
AccountHeals == part = "account" => Heals /\ ListensAgain

(* A record that was written can be read, once, in order, in its hour; the *)
(* backlog stays within its cap; a manifest describes the file beside it,  *)
(* and nothing is removed that was not uploaded.                           *)
RecordsAreKept ==
  part = "files" =>
    /\ Files!TypeOK
    /\ Files!Durable /\ Files!InOrder /\ Files!OwnHour /\ Files!ManifestTrue

(* A file with a manifest is uploaded in the end.                          *)
Ships == Files!Ships

(* The updater deploys nothing untested, nothing that is known to fail,    *)
(* and leaves the services on the commit that is checked out - unless an   *)
(* installation was cut off, or failed and was not rolled back.            *)
UpdatesAreSafe ==
  part = "server" => Server!OnlyTested /\ Server!NotTwice /\ Server!RunsWhatIsCheckedOut

(* With the same exception the services run the last green commit in the   *)
(* end.                                                                    *)
LatestRuns == part = "server" => Server!LatestRuns

=============================================================================

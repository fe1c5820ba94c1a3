----------------------------- MODULE AutoUpdate -----------------------------
(***************************************************************************)
(* The hourly update of a server (src/deploy/auto-update.sh, started by a  *)
(* systemd timer), the installer it runs (src/deploy/bootstrap.sh, without *)
(* Docker), and the operator who runs either by hand.  The branch          *)
(* only grows: its commits are 1..LastCommit, and 1 is installed at first. *)
(* The updater and the operator take the same lock, so one of them runs at *)
(* a time.  The request for the results of the tests and the checkout that *)
(* follows are one step; an installation is one step with its outcome.     *)
(***************************************************************************)
EXTENDS Integers

CONSTANTS
  LastCommit,  \* bound: commits of the branch
  MaxFaults,   \* bound: tests run again, requests and installations that fail, kills
  MaxManual    \* bound: installations and deployments by hand

VARIABLES
  origin,    \* GitHub: the last commit of the branch
  checks,    \* GitHub: the outcome of each commit's check runs
  broken,    \* the commits whose services do not come up
  head,      \* the commit that is checked out
  services,  \* the commit the services run, or Down
  update,    \* update.json
  updater,   \* the run that holds the lock: where it is, its cur, new and failed
  byHand,    \* history: commits the operator installed or deployed
  refused,   \* history: commits update.json said had failed
  excuse,    \* history: an installation was cut off or left failed
  spent      \* the bounds used up

github     == <<origin, checks, broken>>
server     == <<head, services>>
history    == <<byHand, refused, excuse>>
updateVars == <<github, server, update, updater, history, spent>>

Commits == 1..LastCommit
Down    == 0
NoSha   == 0
Idle    == [at |-> "none", cur |-> NoSha, new |-> NoSha, failed |-> NoSha]

UpdateInit ==
  /\ origin = 1
  /\ checks = [c \in Commits |-> IF c = 1 THEN "success" ELSE "pending"]
  /\ broken \in SUBSET (2..LastCommit)
  /\ head = 1 /\ services = 1
  /\ update = [result |-> "none", failed |-> NoSha]
  /\ updater = Idle
  /\ byHand = {} /\ refused = {} /\ excuse = FALSE
  /\ spent = [faults |-> 0, manual |-> 0]

Fault == spent.faults < MaxFaults /\ spent' = [spent EXCEPT !.faults = @ + 1]

-----------------------------------------------------------------------------
(* GitHub: a push, the end of a commit's check runs, red ones run again.   *)
Push ==
  /\ origin < LastCommit
  /\ origin' = origin + 1
  /\ UNCHANGED <<checks, broken, server, update, updater, history, spent>>

ChecksEnd ==
  /\ \E c \in 2..origin, r \in {"success", "failure"} :
       checks[c] = "pending" /\ checks' = [checks EXCEPT ![c] = r]
  /\ UNCHANGED <<origin, broken, server, update, updater, history, spent>>

ChecksAgain ==
  /\ Fault
  /\ \E c \in 2..origin : checks[c] = "failure" /\ checks' = [checks EXCEPT ![c] = "pending"]
  /\ UNCHANGED <<origin, broken, server, update, updater, history>>

-----------------------------------------------------------------------------
(* The updater.  Each run ends in write_state.                             *)

write_state(result, failed) ==
  /\ update' = [result |-> result, failed |-> failed]
  /\ updater' = Idle
  /\ refused' = IF result \in {"ci_failed", "failed_rolled_back", "rollback_failed"}
                THEN refused \cup {failed} ELSE refused

(* Bug for the mutants: a skipped commit is forgotten.                     *)
SkipForgetting == write_state("skipped_failed", NoSha)

Skip == write_state("skipped_failed", update.failed)

(* Bug: what was fetched last time is compared.                            *)
StartUnfetched ==
  /\ updater.at = "none" /\ write_state("up_to_date", update.failed)
  /\ UNCHANGED <<github, server, byHand, excuse, spent>>

(* The timer: fetch, and compare with what is checked out.                 *)
Start ==
  /\ updater.at = "none"
  /\ IF head = origin THEN write_state("up_to_date", update.failed)
     ELSE IF origin = update.failed THEN Skip
     ELSE /\ updater' = [at |-> "ci", cur |-> head, new |-> origin, failed |-> update.failed]
          /\ UNCHANGED <<update, refused>>
  /\ UNCHANGED <<github, server, byHand, excuse, spent>>

(* Bug: no check run has failed yet.                                       *)
GreenSoFar(c) == checks[c] # "failure"

(* ci_state: every check run is completed, and none failed.                *)
Green(c) == checks[c] = "success"

Waiting == write_state("waiting_ci", updater.failed)

(* The gate, and the checkout if every check run is green.                 *)
Gate ==
  /\ updater.at = "ci"
  /\ \/ /\ Green(updater.new)
        /\ head' = updater.new /\ updater' = [updater EXCEPT !.at = "install"]
        /\ UNCHANGED <<update, refused, spent>>
     \/ /\ checks[updater.new] = "pending" /\ Waiting /\ UNCHANGED <<head, spent>>
     \/ /\ checks[updater.new] = "failure" /\ write_state("ci_failed", updater.new)
        /\ UNCHANGED <<head, spent>>
     \/ Fault /\ write_state("ci_unknown", updater.failed) /\ UNCHANGED head
  /\ UNCHANGED <<github, services, byHand, excuse>>

(* Bug: the commit that did not come up stays checked out.                 *)
Stay == UNCHANGED head

Back == head' = updater.cur

(* The installer restarts the services when the commit is another one than *)
(* before; if it fails, it may have got there or not.                      *)
Works(c) == c \notin broken /\ UNCHANGED spent

Fails(c) ==
  /\ IF c \in broken THEN UNCHANGED spent ELSE Fault
  /\ services' \in {services, c, Down}

Install ==
  /\ updater.at = "install"
  /\ \/ /\ Works(updater.new) /\ services' = updater.new
        /\ write_state("updated", updater.failed)
        /\ excuse' = FALSE
        /\ UNCHANGED head
     \/ /\ Fails(updater.new)
        /\ Back /\ updater' = [updater EXCEPT !.at = "rollback"]
        /\ UNCHANGED <<update, refused, excuse>>
  /\ UNCHANGED <<github, byHand>>

Rollback ==
  /\ updater.at = "rollback"
  /\ \/ /\ Works(updater.cur) /\ services' = updater.cur
        /\ write_state("failed_rolled_back", updater.new)
        /\ excuse' = FALSE
     \/ /\ Fails(updater.cur)
        /\ write_state("rollback_failed", updater.new)
        /\ excuse' = TRUE
  /\ UNCHANGED <<github, head, byHand>>

(* The run is killed: a restart of the server, or its 45 minutes are over. *)
Kill ==
  /\ updater.at # "none" /\ Fault
  /\ updater' = Idle
  /\ \/ UNCHANGED services
     \/ updater.at \in {"install", "manual"} /\ services' \in {updater.new, Down}
     \/ updater.at = "rollback" /\ services' \in {updater.cur, Down}
  /\ excuse' = (excuse \/ updater.at # "ci")
  /\ UNCHANGED <<github, head, update, byHand, refused>>

-----------------------------------------------------------------------------
(* The operator runs the installer: the last commit of the branch, tested  *)
(* or not.  The services are restarted if another commit was checked out,  *)
(* and otherwise only started.                                             *)
Manual ==
  /\ updater.at = "none"
  /\ spent.manual < MaxManual /\ spent' = [spent EXCEPT !.manual = @ + 1]
  /\ updater' = [at |-> "manual", cur |-> head, new |-> origin, failed |-> NoSha]
  /\ head' = origin
  /\ byHand' = byHand \cup {origin}
  /\ UNCHANGED <<github, services, update, refused, excuse>>

ManualInstall ==
  /\ updater.at = "manual"
  /\ \/ /\ Works(updater.new)
        /\ IF updater.cur # updater.new \/ services = Down
           THEN services' = updater.new ELSE UNCHANGED services
        /\ excuse' = (excuse /\ updater.cur = updater.new)
     \/ Fails(updater.new) /\ excuse' = TRUE
  /\ updater' = Idle
  /\ UNCHANGED <<github, head, update, byHand, refused>>

(* Root starts the updater past the gate: the commit is chosen by hand.    *)
StartUngated ==
  /\ updater.at = "none" /\ origin \notin {head, update.failed}
  /\ spent.manual < MaxManual /\ spent' = [spent EXCEPT !.manual = @ + 1]
  /\ updater' = [at |-> "install", cur |-> head, new |-> origin, failed |-> update.failed]
  /\ head' = origin
  /\ byHand' = byHand \cup {origin}
  /\ UNCHANGED <<github, services, update, refused, excuse>>

UpdaterStep == Start \/ Gate \/ Install \/ Rollback

UpdateNext ==
  \/ Push \/ ChecksEnd \/ ChecksAgain
  \/ UpdaterStep \/ Kill
  \/ Manual \/ ManualInstall \/ StartUngated

-----------------------------------------------------------------------------
(* The services run nothing whose tests did not pass, other than what the  *)
(* operator installed.                                                     *)
OnlyTested ==
  services = Down \/ services \in byHand
    \/ checks[services] = "success"

(* A commit that update.json once said had failed is not deployed again,   *)
(* whatever runs are killed and whatever becomes of its tests.             *)
NotTwice == updater.at = "install" => updater.new \notin refused

(* Between runs the services run the commit that is checked out, unless an *)
(* installation was cut off or failed without being rolled back.           *)
RunsWhatIsCheckedOut == updater.at = "none" /\ ~ excuse => services = head

(* If the branch rests on a green commit that did not fail, the services   *)
(* run it in the end.  The same exceptions.                                *)
LatestRuns ==
  <>[](checks[origin] = "success" /\ origin \notin refused /\ ~ excuse) => <>[](services = origin)

-----------------------------------------------------------------------------
(* Why they hold, for any number of commits, faults and installations.     *)

UpdateSpec == UpdateInit /\ [][UpdateNext]_updateVars

AtLeastOne == LastCommit \in Nat /\ LastCommit >= 1

Tested(c) == c \in byHand \/ checks[c] = "success"

Results == {"none", "up_to_date", "skipped_failed", "waiting_ci", "ci_failed", "ci_unknown",
            "updated", "failed_rolled_back", "rollback_failed"}

(* Where the updater is, and what that says of the commits it works on.    *)
UInv ==
  /\ origin \in Commits /\ head \in Commits /\ services \in Commits \cup {Down}
  /\ checks \in [Commits -> {"pending", "success", "failure"}]
  /\ head <= origin
  /\ update \in [result : Results, failed : Commits \cup {NoSha}]
  /\ updater \in [at : {"none", "ci", "install", "rollback", "manual"},
                  cur : Commits \cup {NoSha}, new : Commits \cup {NoSha},
                  failed : Commits \cup {NoSha}]
  /\ updater.at # "none" => updater.cur \in 1..origin /\ updater.new \in 1..origin

(* The services and what is checked out were tested, or chosen by hand.    *)
TestedInv ==
  /\ services # Down => Tested(services)
  /\ Tested(head)
  /\ updater.at # "none" => Tested(updater.cur)
  /\ updater.at \in {"install", "manual"} => Tested(updater.new)

(* The last commit that was refused is the one update.json names, and those*)
(* before it are behind whatever is deployed.                              *)
RefusedInv ==
  /\ \A c \in refused : c \in Commits /\ c <= origin /\ (c < origin \/ c = update.failed)
  /\ updater.at \in {"ci", "install", "rollback"} =>
       /\ updater.failed = update.failed
       /\ \A c \in refused : c < updater.new

(* What is checked out during a run, and that the services are not behind. *)
HeadInv ==
  /\ updater.at = "ci" => head = updater.cur
  /\ updater.at \in {"install", "manual"} => head = updater.new
  /\ updater.at = "rollback" => head = updater.cur
  /\ ~ excuse /\ updater.at \in {"none", "ci"} => services = head
  /\ ~ excuse /\ updater.at = "manual" => services = updater.cur

=============================================================================

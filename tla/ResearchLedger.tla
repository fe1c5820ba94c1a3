--------------------------- MODULE ResearchLedger ---------------------------
(***************************************************************************)
(* A pre-registered hypothesis and its trial ledger (quanta.research       *)
(* .prereg, .ledger and the runners): somebody edits and commits code and  *)
(* the registration while runs of the hypothesis simulate its settings,    *)
(* record every trial in an append-only file and evaluate what was held    *)
(* out: the lockbox, opened once by a final run whose gates passed, or the *)
(* test period of the hypotheses that have one.  A runner is the sequence  *)
(* of what it does; what a trial returns is the code and the data it ran   *)
(* with; verdicts and choices are either.                                  *)
(***************************************************************************)
EXTENDS Integers, Sequences

CONSTANTS Trials,    \* the parameter sets of the grid
          Kinds,     \* the strategies the hypothesis may have
          MaxEdits,  \* bound: edits of the code
          MaxData,   \* bound: manifests of the data
          MaxRuns    \* bound: runs started

VARIABLES kind,       \* the strategy of the hypothesis
          registered, \* the pre-registration is committed and unchanged
          clean,      \* the code is committed and unchanged
          code, data, \* their contents
          entries,    \* the ledger file
          files,      \* the returns files: [trial id -> content]
          run,        \* the run, or NoRun
          started,    \* runs so far
          tried,      \* trials a registered run of committed code has recorded
          looks       \* evaluations of what is held out: the runs that made them

repo == <<registered, clean, code, data>>

vars == <<kind, repo, entries, files, run, started, tried, looks>>

NoRun == [left |-> <<>>]

(* trial_id: the same parameters on the same period and data are the same  *)
(* trial.                                                                  *)
TrialId(t, period, d) == [trial |-> t, period |-> period, data |-> d]

ResearchInit ==
  /\ kind \in Kinds
  /\ registered = FALSE /\ clean = TRUE
  /\ code = 0 /\ data = 0
  /\ entries = <<>> /\ files = [i \in {} |-> 0]
  /\ run = NoRun /\ started = 0
  /\ tried = {} /\ looks = {}

InLedger == {entries[i] : i \in DOMAIN entries}

(* Bug for the mutants: an exploratory record is recorded once more.       *)
RecordedAndCounted(id) ==
  \E e \in InLedger : e.kind = "trial" /\ e.id = id /\ ~ e.exploratory

Recorded(id) == \E e \in InLedger : e.kind = "trial" /\ e.id = id

lockbox_opened == \E e \in InLedger : e.kind = "lockbox_opened"

(* trials_of: exploratory trials do not count.                             *)
Counted == {e.id : e \in {x \in InLedger : x.kind = "trial" /\ ~ x.exploratory}}

-----------------------------------------------------------------------------
(* What each runner does, in order.  "look" is the first evaluation of     *)
(* what is held out.                                                       *)

Final(final) == IF final THEN <<"gates", "open", "look">> ELSE <<>>

run_trend(final) == <<"simulate", "git_state", "prior", "record">> \o Final(final)

run_intraday(final) == <<"simulate", "git_state", "prior", "record">> \o Final(final)

(* Nothing is learned from permuted labels, and nothing recorded.          *)
run_ml(final, shuffled) ==
  (IF shuffled THEN <<"simulate", "git_state">> ELSE <<"simulate", "git_state", "record">>)
    \o Final(final)

run_crowding(final) == <<"simulate", "git_state", "record">> \o Final(final)

(* Bug: the trials of the development period are recorded at the end.      *)
SelectionRecordsLast ==
  <<"git_state", "simulate", "choose", "simulate", "look", "record test", "record">>

(* Settings that are compared: one is chosen and run on the test period.   *)
run_selection ==
  <<"git_state", "simulate", "record", "choose", "simulate", "look", "record test">>

(* Everything is run on the test period only.                              *)
run_recent == <<"simulate", "look", "git_state", "record test">>

(* research_run: the runner of the strategy; final means nothing to those  *)
(* that have no lockbox.                                                   *)
research_run(final, shuffled) ==
  CASE kind = "trend"     -> run_trend(final)
    [] kind = "intraday"  -> run_intraday(final)
    [] kind = "ml"        -> run_ml(final, shuffled)
    [] kind = "crowding"  -> run_crowding(final)
    [] kind = "selection" -> run_selection
    [] kind = "recent"    -> run_recent

(* The hypotheses whose held-out period is behind a lockbox.               *)
HasLockbox == kind \notin {"selection", "recent"}

-----------------------------------------------------------------------------
(* The work tree: edits and commits, at any time.                          *)

EditCode ==
  /\ code < MaxEdits
  /\ code' = code + 1 /\ clean' = FALSE
  /\ UNCHANGED <<kind, registered, data, entries, files, run, started, tried, looks>>

(* New data comes with a manifest in the repository, to be committed too.  *)
FetchData ==
  /\ data < MaxData
  /\ data' = data + 1 /\ clean' = FALSE
  /\ UNCHANGED <<kind, registered, code, entries, files, run, started, tried, looks>>

Commit ==
  /\ clean' = TRUE
  /\ registered' \in {registered, TRUE}
  /\ UNCHANGED <<kind, code, data, entries, files, run, started, tried, looks>>

EditPrereg ==
  /\ registered /\ registered' = FALSE
  /\ UNCHANGED <<kind, clean, code, data, entries, files, run, started, tried, looks>>

-----------------------------------------------------------------------------
(* A run.                                                                  *)

(* load_prereg refuses a registration that is not committed as it is,      *)
(* unless the run says that it is exploratory; labels are shuffled for the *)
(* model hypotheses only, which makes the run exploratory.                 *)
Start(exploratory, final, shuffled) ==
  /\ run = NoRun /\ started < MaxRuns
  /\ exploratory \/ registered
  /\ shuffled => kind = "ml"
  /\ started' = started + 1
  /\ run' = [left |-> research_run(final, shuffled), n |-> started', shuffled |-> shuffled,
             exploratory |-> exploratory \/ shuffled, final |-> final, passed |-> FALSE,
             with |-> [code |-> code, data |-> data], data |-> data,
             done |-> {}, now |-> "none"]
  /\ UNCHANGED <<kind, repo, entries, files, tried, looks>>

At(phase) == run.left # <<>> /\ Head(run.left) = phase

(* The run with its current phase done.                                    *)
Past == [run EXCEPT !.left = Tail(@), !.done = {}]

(* The data are read while the run simulates; the code was loaded before.  *)
Simulate ==
  /\ At("simulate")
  /\ run' = [Past EXCEPT !.with.data = data]
  /\ UNCHANGED <<kind, repo, entries, files, started, tried, looks>>

(* git_state and data_sha look at the repository as it is then; a dirty    *)
(* one makes the run exploratory.                                          *)
GitState ==
  /\ At("git_state")
  /\ run' = [Past EXCEPT !.data = data, !.exploratory = @ \/ ~ clean \/ ~ registered]
  /\ UNCHANGED <<kind, repo, entries, files, started, tried, looks>>

(* The trials of earlier hypotheses of the family are there, on the same   *)
(* data and days, or the run ends.                                         *)
Prior(there) ==
  /\ At("prior")
  /\ run' = IF there THEN Past ELSE NoRun
  /\ UNCHANGED <<kind, repo, entries, files, started, tried, looks>>

(* What is left to record: the trials of the development period; on the    *)
(* test period the one that was chosen, or all of them.                    *)
Todo ==
  CASE At("record")      -> {TrialId(t, "dev", run.data) : t \in Trials} \ run.done
    [] At("record test") -> {TrialId(t, "test", run.data) :
                               t \in IF kind = "selection" THEN {run.now} ELSE Trials} \ run.done
    [] OTHER             -> {}

Done(id) ==
  /\ run' = [run EXCEPT !.done = @ \cup {id}]
  /\ tried' = IF run.exploratory THEN tried ELSE tried \cup {id}

(* record_trial: a trial that is in the ledger is left as it is; of a new  *)
(* one the returns are written first, ...                                  *)
Skip(id) ==
  /\ id \in Todo /\ Recorded(id)
  /\ Done(id)
  /\ UNCHANGED <<kind, repo, entries, files, started, looks>>

Written(id) == id \in DOMAIN files /\ files[id] = run.with

WriteReturns(id) ==
  /\ id \in Todo /\ ~ Recorded(id) /\ ~ Written(id)
  /\ files' = [i \in DOMAIN files \cup {id} |-> IF i = id THEN run.with ELSE files[i]]
  /\ UNCHANGED <<kind, repo, entries, run, started, tried, looks>>

(* ... then its line is appended.                                          *)
AppendTrial(id) ==
  /\ id \in Todo /\ ~ Recorded(id) /\ Written(id)
  /\ entries' = Append(entries, [kind |-> "trial", id |-> id, returns |-> run.with,
                                 exploratory |-> run.exploratory])
  /\ Done(id)
  /\ UNCHANGED <<kind, repo, files, started, looks>>

RecordedAll ==
  /\ At("record") \/ At("record test")
  /\ Todo = {}
  /\ run' = Past
  /\ UNCHANGED <<kind, repo, entries, files, started, tried, looks>>

(* One of the settings with enough trades is chosen, or there is none.     *)
Choose ==
  /\ At("choose")
  /\ \/ run' = NoRun
     \/ \E t \in Trials : run' = [Past EXCEPT !.now = t]
  /\ UNCHANGED <<kind, repo, entries, files, started, tried, looks>>

(* A final run without passing gates ends with an error.                   *)
Gates(passed) ==
  /\ At("gates")
  /\ run' = IF passed THEN [Past EXCEPT !.passed = TRUE] ELSE NoRun
  /\ UNCHANGED <<kind, repo, entries, files, started, tried, looks>>

(* Bug: the lockbox is evaluated first, and entered once the result is in. *)
OpenAfterLook ==
  /\ At("open") /\ ~ lockbox_opened
  /\ run' = Past
  /\ UNCHANGED <<kind, repo, entries, files, started, tried, looks>>

(* open_lockbox: so does one that finds the lockbox opened before.         *)
OpenLockbox ==
  /\ At("open")
  /\ IF lockbox_opened
     THEN run' = NoRun /\ UNCHANGED entries
     ELSE /\ entries' = Append(entries, [kind |-> "lockbox_opened",
                                         exploratory |-> run.exploratory])
          /\ run' = Past
  /\ UNCHANGED <<kind, repo, files, started, tried, looks>>

Look ==
  /\ At("look")
  /\ looks' = looks \cup {[n |-> run.n, final |-> run.final, passed |-> run.passed,
                           shuffled |-> run.shuffled, data |-> run.data]}
  /\ run' = Past
  /\ UNCHANGED <<kind, repo, entries, files, started, tried>>

(* The run ends with its report.                                           *)
Finish ==
  /\ run # NoRun /\ run.left = <<>>
  /\ run' = NoRun
  /\ UNCHANGED <<kind, repo, entries, files, started, tried, looks>>

(* The process is interrupted at any point.                                *)
Interrupt ==
  /\ run # NoRun
  /\ run' = NoRun
  /\ UNCHANGED <<kind, repo, entries, files, started, tried, looks>>

ResearchNext ==
  \/ EditCode \/ FetchData \/ Commit \/ EditPrereg
  \/ \E exploratory, final, shuffled \in BOOLEAN : Start(exploratory, final, shuffled)
  \/ Simulate \/ GitState \/ RecordedAll \/ Choose \/ OpenLockbox \/ Look
  \/ \E ok \in BOOLEAN : Prior(ok) \/ Gates(ok)
  \/ \E id \in Todo : Skip(id) \/ WriteReturns(id) \/ AppendTrial(id)
  \/ Finish \/ Interrupt

ResearchSpec == ResearchInit /\ [][ResearchNext]_vars

-----------------------------------------------------------------------------

(* The ledger can be read back: of each trial there is one line, and the   *)
(* returns file is the one the line was written for, whatever was          *)
(* interrupted and run again with other code.                              *)
ReturnsMatch ==
  \A i, j \in {k \in DOMAIN entries : entries[k].kind = "trial"} :
    /\ entries[i].id \in DOMAIN files /\ files[entries[i].id] = entries[i].returns
    /\ entries[i].id = entries[j].id => i = j

(* The lockbox is looked at at most once in the life of a hypothesis, by a *)
(* final run whose gates had passed, and never without a line that says so.*)
LockboxOnce ==
  HasLockbox =>
    /\ \A r, s \in looks : r = s
    /\ \A r \in looks : r.final /\ r.passed /\ lockbox_opened

(* Who has looked at what is held out has left the trials it was chosen    *)
(* from in the ledger: no run that is interrupted after the look has tried *)
(* for free.  (Of run_recent there are none; a timing run records none.)   *)
RecordedBeforeLook ==
  \A r \in looks : kind # "recent" /\ ~ r.shuffled =>
    \A t \in Trials : Recorded(TrialId(t, "dev", r.data))

(* What the ledger is for: each trial that a registered run of committed   *)
(* code has evaluated is counted.                                          *)
TriesCounted == tried \subseteq Counted

-----------------------------------------------------------------------------
(* What makes the first three hold.                                        *)

ResearchAssumption ==
  Kinds \subseteq {"trend", "intraday", "ml", "crowding", "selection", "recent"}

Phases == {"simulate", "git_state", "prior", "record", "record test", "choose", "gates", "open", "look"}

Ids == [trial : Trials \cup {"none"}, period : {"dev", "test"}, data : Nat]

Contents == [code : Nat, data : Nat]

Lines == [kind : {"trial"}, id : Ids, returns : Contents, exploratory : BOOLEAN]
           \cup [kind : {"lockbox_opened"}, exploratory : BOOLEAN]

Runs == [left : Seq(Phases), n : Nat, shuffled : BOOLEAN, exploratory : BOOLEAN, final : BOOLEAN,
         passed : BOOLEAN, with : Contents, data : Nat, done : SUBSET Ids, now : Trials \cup {"none"}]

TypeOK ==
  /\ kind \in Kinds /\ code \in Nat /\ data \in Nat /\ started \in Nat /\ clean \in BOOLEAN
  /\ registered \in BOOLEAN
  /\ entries \in Seq(Lines) /\ (run = NoRun \/ run \in Runs)

(* The look is the last thing a run does, after the gates and the lockbox. *)
LooksLast(left) ==
  \A i \in DOMAIN left :
    /\ left[i] = "look"  => /\ i = Len(left) /\ (i > 1 => left[i - 1] = "open")
                            /\ (i > 2 => left[i - 2] = "gates")
    /\ left[i] = "open"  => i = Len(left) - 1
    /\ left[i] = "gates" => i = Len(left) - 2

(* Trials are recorded after the data were fixed, and before the look.     *)
RecordsFirst(left) ==
  \A i, j \in DOMAIN left :
    left[j] = "record" => (left[i] = "look" => j < i) /\ (left[i] = "git_state" => i < j)

Comes(phase) == \E i \in DOMAIN run.left : run.left[i] = phase

(* Who looks next has passed the gates and opened the lockbox.             *)
Gated ==
  HasLockbox =>
    /\ looks # {} => lockbox_opened
    /\ LooksLast(run.left)
    /\ \A i \in DOMAIN run.left : run.left[i] = "look" =>
         /\ run.final
         /\ i <= 2 => run.passed
         /\ i = 1 => lockbox_opened /\ looks = {}

(* A run with its recording behind it has recorded all.                    *)
RecordedSoFar ==
  run # NoRun =>
    /\ \A id \in run.done : Recorded(id)
    /\ kind # "recent" /\ ~ run.shuffled =>
         /\ RecordsFirst(run.left)
         /\ ~ Comes("record") =>
              ~ Comes("git_state") /\ \A t \in Trials : Recorded(TrialId(t, "dev", run.data))

ResearchInv ==
  TypeOK /\ ReturnsMatch /\ Gated /\ LockboxOnce /\ RecordedSoFar /\ RecordedBeforeLook

=============================================================================

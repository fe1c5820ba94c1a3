----------------------------- MODULE LakeChecks -----------------------------
(***************************************************************************)
(* The daily verification against the official archive, day after day      *)
(* (quanta.lake.checks, run by the scheduler of lake.daily): the archive   *)
(* of a day is published later, so results that are not final are tried    *)
(* again for retry_days.  A result is the outcome of the comparison, or    *)
(* why there is none yet.  The status page (quanta.ui) tells of days that  *)
(* failed or were given up.                                                *)
(***************************************************************************)
EXTENDS Naturals, Sequences, Functions

CONSTANTS
  TradeSymbols, BookSymbols,
  RetryDays,
  ChecksDays, ChecksRetryDays,  \* of the status page: days it tells of, and that it waits
  LastDay,      \* bound: days recorded
  MaxRuns       \* bound: runs of the checks per day

VARIABLES
  today,
  recorded,   \* days with raw data
  published,  \* <<day, symbol>> whose archive is available
  full,       \* no room to download
  doc,        \* per day: what its result file says, or NoDoc
  runs,       \* runs today
  left,       \* days the current run has before it: a set
  clean       \* days whose last run met no error, with every archive there

vars == <<today, recorded, published, full, doc, runs, left, clean>>

Days == 1..LastDay

NoDoc == [trades |-> <<>>, book |-> <<>>, status |-> "none"]

PENDING == {"waiting", "error", "skipped"}

Outcomes == {"ok", "explained", "failed", "no_data"}

Init ==
  /\ today = 1
  /\ recorded \in SUBSET Days
  /\ published = {}
  /\ full = FALSE
  /\ doc = [d \in Days |-> NoDoc]
  /\ runs = 0 /\ left = {}
  /\ clean = {}

-----------------------------------------------------------------------------

(* Bug for the mutants: what was skipped for lack of room is not pending.  *)
StatusUnskipped(trades, book) ==
  LET states == {trades[s] : s \in DOMAIN trades} \cup {book[s] : s \in DOMAIN book}
  IN  CASE "failed" \in states -> "failed"
        [] "failed" \notin states /\ states \cap {"waiting", "error"} # {} -> "waiting"
        [] OTHER -> IF states \subseteq {"no_data"} THEN "no_data" ELSE "ok"

StatusOf(results, s) == IF s \in DOMAIN results THEN results[s] ELSE ""

day_status(trades, book) ==
  LET states == {trades[s] : s \in DOMAIN trades} \cup {book[s] : s \in DOMAIN book}
  IN  CASE "failed" \in states -> "failed"
        [] "failed" \notin states /\ states \cap PENDING # {} -> "waiting"
        [] OTHER -> IF states \subseteq {"no_data"} THEN "no_data" ELSE "ok"

(* Bug for the mutants: a symbol is fetched when it was never tried.       *)
TodoNew(d) == {s \in TradeSymbols : StatusOf(doc[d].trades, s) = ""}

Todo(d) == {s \in TradeSymbols : StatusOf(doc[d].trades, s) \in PENDING \cup {""}}

BookTodo(d) == {s \in BookSymbols : StatusOf(doc[d].book, s) \in {"", "error"}}

(* What one try may say of a symbol.                                       *)
Tried(d, s) ==
  IF full THEN {"skipped"}
  ELSE IF <<d, s>> \notin published THEN {"waiting"}
  ELSE Outcomes \cup {"error"}

(* run_checks: symbols with a final result keep it; the result file is     *)
(* written at the end.                                                     *)
RunChecks(d) ==
  \E trades \in [TradeSymbols -> Outcomes \cup PENDING],
     book \in [BookSymbols -> {"ok", "failed", "no_data", "error"}] :
    /\ \A s \in TradeSymbols :
         trades[s] \in IF s \in Todo(d) THEN Tried(d, s) ELSE {StatusOf(doc[d].trades, s)}
    /\ \A s \in BookSymbols : s \in BookTodo(d) \/ book[s] = StatusOf(doc[d].book, s)
    /\ doc' = [doc EXCEPT ![d] = [trades |-> trades, book |-> book,
                                  status |-> day_status(trades, book)]]

(* Bug: the results of an earlier run that stand are not looked at.        *)
PendingNew(d) == d \in recorded /\ today - d \in 1..RetryDays /\ doc[d] = NoDoc

(* pending_days.                                                           *)
Pending(d) ==
  /\ d \in recorded /\ today - d \in 1..RetryDays
  /\ \/ doc[d] = NoDoc
     \/ doc[d].status = "waiting"
     \/ ~ TradeSymbols \subseteq DOMAIN doc[d].trades
     \/ ~ BookSymbols \subseteq DOMAIN doc[d].book

Archived(d) == \A s \in TradeSymbols : <<d, s>> \in published

(* run_pending looks for the pending days once ...                         *)
RunPending ==
  /\ left = {} /\ runs < MaxRuns
  /\ runs' = runs + 1
  /\ left' = {d \in Days : Pending(d)}
  /\ clean' = clean \cup {d \in recorded : today - d \in 1..RetryDays /\ ~ Pending(d) /\ Archived(d)}
  /\ UNCHANGED <<today, recorded, published, full, doc>>

(* ... and completes them one after the other, oldest first; an archive    *)
(* that cannot be read ends the run, and nothing is written.               *)
CheckDay ==
  /\ \E d \in left :
       /\ \A e \in left : d <= e
       /\ \/ /\ RunChecks(d)
             /\ left' = left \ {d}
             /\ clean' = IF ~ full /\ Archived(d) /\ "error" \notin Range(doc'[d].trades)
                         THEN clean \cup {d} ELSE clean
          \/ Archived(d) /\ left' = {} /\ UNCHANGED <<doc, clean>>
  /\ UNCHANGED <<today, recorded, published, full, runs>>

Publish ==
  \E d \in Days, s \in TradeSymbols :
    /\ d < today /\ <<d, s>> \notin published
    /\ published' = published \cup {<<d, s>>}
    /\ UNCHANGED <<today, recorded, full, doc, runs, left, clean>>

DiskChanges ==
  /\ full' = ~ full
  /\ UNCHANGED <<today, recorded, published, doc, runs, left, clean>>

Midnight ==
  /\ today <= LastDay + ChecksDays
  /\ today' = today + 1
  /\ runs' = 0
  /\ UNCHANGED <<recorded, published, full, doc, left, clean>>

Next == RunPending \/ CheckDay \/ Publish \/ DiskChanges \/ Midnight

Spec == Init /\ [][Next]_vars

-----------------------------------------------------------------------------
(* checks_issues: what the status page tells of a day.                     *)
checks_issues(d) ==
  {i \in {"checks_failed"} : today - d <= ChecksDays /\ doc[d].status = "failed"}
    \cup {i \in {"checks_stalled"} : /\ today - d \in (ChecksRetryDays + 1)..ChecksDays
                                     /\ doc[d].status = "waiting"}

-----------------------------------------------------------------------------
(* Properties.                                                             *)

Waiting(d) == \E s \in DOMAIN doc[d].trades : doc[d].trades[s] \in PENDING

(* "A day's trades stay ``waiting`` until [the archive appears]; the       *)
(* scheduler retries the last RETRY_DAYS days": after a run in which the   *)
(* archives of the day were there and nothing went wrong, no trade of the  *)
(* day waits any more.                                                     *)
RetriedUntilDone == \A d \in clean : ~ Waiting(d)

(* The same for days without a failed result.                              *)
RetriedUnlessFailed == \A d \in clean : doc[d].status # "failed" => ~ Waiting(d)

(* A day that was checked, whose trades were not all compared with the     *)
(* archive by the end of the retries, is on the status page.               *)
UnverifiedIsTold ==
  \A d \in Days :
    today - d \in (RetryDays + 1)..ChecksDays /\ doc[d] # NoDoc /\ Waiting(d) =>
      checks_issues(d) # {}

-----------------------------------------------------------------------------
(* What makes them hold.                                                   *)

ChecksAssumption ==
  {RetryDays, ChecksDays, ChecksRetryDays, LastDay} \subseteq Nat /\ ChecksRetryDays <= RetryDays

Results == [trades : [TradeSymbols -> Outcomes \cup PENDING],
            book : [BookSymbols -> {"ok", "failed", "no_data", "error"}],
            status : {"failed", "waiting", "no_data", "ok"}]

Documented(d) == doc[d] \in Results /\ doc[d].status = day_status(doc[d].trades, doc[d].book)

ChecksInv ==
  /\ today \in Nat /\ recorded \subseteq Days /\ left \subseteq Days /\ clean \subseteq Days
  /\ DOMAIN doc = Days
  /\ \A d \in Days : doc[d] = NoDoc \/ Documented(d)
  /\ \A d \in clean : Documented(d) /\ (doc[d].status # "failed" => ~ Waiting(d))

=============================================================================

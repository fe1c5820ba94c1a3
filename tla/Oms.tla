-------------------------------- MODULE Oms --------------------------------
(***************************************************************************)
(* Order management (quanta.oms.oms, quanta.oms.store): intents are written*)
(* ahead and sent once, the REST answer and the user stream report on them *)
(* in any order, an answer that never comes leaves the order UNKNOWN and   *)
(* freezes its symbol, and queries, cancels and the reconciliation find out*)
(* what became of it.  The process may crash: the table survives, what is  *)
(* in memory does not, and a request on the wire may still arrive.         *)
(*                                                                         *)
(* Every intent owns one client order id, so an element of Orders stands   *)
(* for both.  The clock is the age of an order in steps of five seconds:   *)
(* 0 below 5 s, 1 from 5 s (a SENT order is worth a query), 2 above        *)
(* UNKNOWN_GRACE_NS = 10 s.                                                *)
(***************************************************************************)
EXTENDS OrderState, Sequences, FiniteSets

CONSTANTS
  Orders,        \* the intents the process may submit
  None,          \* no order, no key
  Sym,           \* the symbol of every order
  Key,           \* the idempotency key of every order, or None
  Algo,          \* the conditional (STOP_MARKET) orders
  MaxQty,        \* quantity of every order, in lots
  MaxStream,     \* bound: events the stream holds
  MaxCrashes,    \* bound: crashes of the process
  BudgetBlocks,  \* TRUE: a request may wait for request weight before it is signed
  SlowAnswers    \* TRUE: the answer to a query may take longer than 5 s

ASSUME OmsAssumption ==
  /\ None \notin Orders
  /\ Algo \subseteq Orders
  /\ MaxQty \in Nat /\ MaxQty > 0
  /\ MaxStream \in Nat
  /\ MaxCrashes \in Nat
  /\ BudgetBlocks \in BOOLEAN
  /\ SlowAnswers \in BOOLEAN

VARIABLES
  row,        \* persisted: status of the order's row, "NONE" without a row
  filled,     \* persisted: cumulative quantity of the row
  anomalies,  \* persisted: orders whose report contradicted their status
  frozen,     \* memory: symbols that take no new order
  phase,      \* memory: start-up ("resolve", "reconcile") or "ready"
  call,       \* memory: the coroutine in submit, and the answer under way to it
  todo,       \* memory: orders left for each coroutine that asks the exchange
  query,      \* memory: the request each of those coroutines has out
  net,        \* the order request itself: not sent, on the wire, or gone
  signed,     \* the order's age when its request was signed
  age,        \* the order's age
  ex,         \* the order at the exchange
  exQty,      \* what the exchange has executed of it
  up,         \* the user stream is connected
  stream,     \* its events not delivered yet
  crashes

table  == <<row, filled, anomalies>>
memory == <<frozen, phase, call, todo, query>>
world  == <<net, signed, age, ex, exQty, up, stream>>
vars   == <<table, memory, world, crashes>>

Symbols  == {Sym[o] : o \in Orders}
RowStatus == OrderStatus \cup {"NONE"}
ExStatus == OPEN \cup TERMINAL \cup {"NONE"}
Reply    == OPEN \cup TERMINAL \cup {"NOT_FOUND"}
Askers   == {"resolver", "reconciler", "canceller"}

Call  == [stage : {"idle", "budget", "await", "answered"}, status : Reply, qty : 0..MaxQty]
Query == [stage : {"idle", "delete", "deleted", "asked", "answered"},
          order : Orders \cup {None}, status : Reply, qty : 0..MaxQty, at : 0..2]

NoCall  == [stage |-> "idle", status |-> "NOT_FOUND", qty |-> 0]
NoQuery == [stage |-> "idle", order |-> None, status |-> "NOT_FOUND", qty |-> 0, at |-> 0]

Init ==
  /\ row = [o \in Orders |-> "NONE"]
  /\ filled = [o \in Orders |-> 0]
  /\ anomalies = {}
  /\ frozen = {}
  /\ phase = "resolve"
  /\ call = [o \in Orders |-> NoCall]
  /\ todo = [p \in Askers |-> {}]
  /\ query = [p \in Askers |-> NoQuery]
  /\ net = [o \in Orders |-> "none"]
  /\ signed = [o \in Orders |-> 0]
  /\ age = [o \in Orders |-> 0]
  /\ ex = [o \in Orders |-> "NONE"]
  /\ exQty = [o \in Orders |-> 0]
  /\ up = FALSE
  /\ stream = <<>>
  /\ crashes = 0

-----------------------------------------------------------------------------
(* The table.                                                              *)

unresolved == {o \in Orders : row[o] \in {"SENT", "UNKNOWN"}}

(* Bug for the mutants: executedQty taken for the quantity of this report. *)
ReportAdds(o, s, n) ==
  /\ row' = [row EXCEPT ![o] = advance(@, s)]
  /\ filled' = [filled EXCEPT ![o] = IF ~ Illegal(row[o], s) THEN @ + n ELSE @]
  /\ anomalies' = IF Illegal(row[o], s) THEN anomalies \cup {o} ELSE anomalies

(* Bug: the quantity of a late report overwrites a newer one.              *)
ReportOverwrites(o, s, n) ==
  /\ row' = [row EXCEPT ![o] = advance(@, s)]
  /\ filled' = [filled EXCEPT ![o] = IF ~ Illegal(row[o], s) THEN n ELSE @]
  /\ anomalies' = IF Illegal(row[o], s) THEN anomalies \cup {o} ELSE anomalies

(* update_order: the state machine decides the status, the quantity only   *)
(* grows, and a report that raises is an anomaly and changes nothing.      *)
Report(o, s, n) ==
  /\ row' = [row EXCEPT ![o] = advance(@, s)]
  /\ filled' = [filled EXCEPT ![o] = IF ~ Illegal(row[o], s) /\ n >= @ THEN n ELSE @]
  /\ anomalies' = IF Illegal(row[o], s) THEN anomalies \cup {o} ELSE anomalies

-----------------------------------------------------------------------------
(* Sending.                                                                *)

(* Bug: a finished intent no longer counts.                                *)
intent_live(o) == \E p \in Orders : row[p] \notin TERMINAL \cup {"NONE"} /\ Key[p] = Key[o] /\ Key[o] # None

intent_exists(o) == \E p \in Orders : row[p] # "NONE" /\ Key[p] = Key[o] /\ Key[o] # None

(* Bug: the freeze is not looked at.                                       *)
AcceptsFrozen(o) == phase = "ready" /\ row[o] = "NONE" /\ ~ intent_exists(o)

(* A refused intent (duplicate key, frozen symbol) leaves no trace.        *)
Accepts(o) ==
  /\ phase = "ready"
  /\ row[o] = "NONE"
  /\ ~ intent_exists(o)
  /\ Sym[o] \notin frozen

(* The intent and its row are on disk before the request is made; there is *)
(* no await in between.                                                    *)
Submit(o) ==
  /\ Accepts(o)
  /\ row' = [row EXCEPT ![o] = "SENT"]
  /\ call' = [call EXCEPT ![o].stage = "budget"]
  /\ UNCHANGED <<filled, anomalies, frozen, phase, todo, query, world, crashes>>

(* The request has its share of the request weight, is signed and leaves.  *)
Sign(o) ==
  /\ call[o].stage = "budget"
  /\ call' = [call EXCEPT ![o].stage = "await"]
  /\ net' = [net EXCEPT ![o] = "wire"]
  /\ signed' = [signed EXCEPT ![o] = age[o]]
  /\ UNCHANGED <<table, frozen, phase, todo, query, age, ex, exQty, up, stream, crashes>>

(* submit got an answer: a REJECTED one comes from _failed.                *)
SubmitReply(o) ==
  /\ call[o].stage = "answered"
  /\ Report(o, call[o].status, call[o].qty)
  /\ call' = [call EXCEPT ![o] = NoCall]
  /\ UNCHANGED <<frozen, phase, todo, query, world, crashes>>

(* Bug: a request without an answer counts as refused.                     *)
FailedRejected(o) ==
  /\ call[o].stage \in {"await", "answered"}
  /\ Report(o, "REJECTED", 0)
  /\ call' = [call EXCEPT ![o] = NoCall]
  /\ UNCHANGED <<frozen, phase, todo, query, world, crashes>>

(* No answer, a 503 or -1007: the outcome is unknown.  The user stream may *)
(* have told us before; otherwise the symbol is frozen.                    *)
Failed(o) ==
  /\ call[o].stage \in {"await", "answered"}
  /\ Report(o, "UNKNOWN", 0)
  /\ frozen' = IF row'[o] = "UNKNOWN" THEN frozen \cup {Sym[o]} ELSE frozen
  /\ call' = [call EXCEPT ![o] = NoCall]
  /\ UNCHANGED <<phase, todo, query, world, crashes>>

-----------------------------------------------------------------------------
(* The exchange and the network.                                           *)

Room == up => Len(stream) < MaxStream

(* A change of the order, reported on the stream while it is connected.    *)
Becomes(o, s, n) ==
  /\ Room
  /\ ex' = [ex EXCEPT ![o] = s]
  /\ exQty' = [exQty EXCEPT ![o] = n]
  /\ stream' = IF up THEN Append(stream, [order |-> o, status |-> s, qty |-> n]) ELSE stream

(* The order request reaches the matching engine or is refused there, or it*)
(* is lost; a request outside recvWindow counts as lost.                   *)
Arrive(o) ==
  /\ net[o] = "wire"
  /\ net' = [net EXCEPT ![o] = "gone"]
  /\ Becomes(o, "NEW", 0)
  /\ UNCHANGED <<table, memory, signed, age, up, crashes>>

Refuse(o) ==
  /\ net[o] = "wire"
  /\ net' = [net EXCEPT ![o] = "gone"]
  /\ ex' = [ex EXCEPT ![o] = "REJECTED"]
  /\ UNCHANGED <<table, memory, signed, age, exQty, up, stream, crashes>>

Lose(o) ==
  /\ net[o] = "wire"
  /\ net' = [net EXCEPT ![o] = "gone"]
  /\ UNCHANGED <<table, memory, signed, age, ex, exQty, up, stream, crashes>>

(* The answer to the order request: what the order is by now.              *)
Respond(o) ==
  /\ call[o].stage = "await"
  /\ ex[o] # "NONE"
  /\ call' = [call EXCEPT ![o] = [stage |-> "answered", status |-> ex[o], qty |-> exQty[o]]]
  /\ UNCHANGED <<table, frozen, phase, todo, query, world, crashes>>

Fill(o) ==
  /\ ex[o] \in OPEN
  /\ \/ o \in Algo /\ Becomes(o, "FILLED", 0)          \* triggered
     \/ /\ o \notin Algo
        /\ \E n \in (exQty[o] + 1)..MaxQty :
             Becomes(o, IF n = MaxQty THEN "FILLED" ELSE "PARTIALLY_FILLED", n)
  /\ UNCHANGED <<table, memory, net, signed, age, up, crashes>>

(* The exchange ends the order: IOC remainder, dead-man switch, a person.  *)
Expire(o) ==
  /\ ex[o] \in OPEN
  /\ \E s \in {"EXPIRED", "CANCELED"} : Becomes(o, s, exQty[o])
  /\ UNCHANGED <<table, memory, net, signed, age, up, crashes>>

Disconnect ==
  /\ up
  /\ up' = FALSE
  /\ stream' = <<>>
  /\ UNCHANGED <<table, memory, net, signed, age, ex, exQty, crashes>>

Connect ==
  /\ ~ up
  /\ up' = TRUE
  /\ UNCHANGED <<table, memory, net, signed, age, ex, exQty, stream, crashes>>

OnEvent ==
  /\ stream # <<>>
  /\ LET e == Head(stream) IN Report(e.order, e.status, e.qty)
  /\ stream' = Tail(stream)
  /\ UNCHANGED <<memory, net, signed, age, ex, exQty, up, crashes>>

(* Five seconds more.  A signed request is either processed within         *)
(* recvWindow (5 s) or refused, and its answer is awaited for timeout_s    *)
(* (10 s); it is signed at once unless request weight was short.           *)
Tick(o) ==
  /\ row[o] # "NONE"
  /\ age[o] < 2
  /\ net[o] = "wire" => BudgetBlocks /\ age[o] = signed[o]
  /\ call[o].stage = "budget" => BudgetBlocks
  /\ call[o].stage \in {"await", "answered"} => BudgetBlocks \/ age[o] = signed[o]
  /\ \A p \in Askers :
       (query[p].stage = "answered" /\ query[p].order = o) => (SlowAnswers \/ query[p].at = age[o])
  /\ age' = [age EXCEPT ![o] = @ + 1]
  /\ UNCHANGED <<table, memory, net, signed, ex, exQty, up, stream, crashes>>

-----------------------------------------------------------------------------
(* Asking the exchange: resolve_unknown, reconcile and cancel.             *)

(* Start-up resolves, then reconciles, then the trader is ready.           *)
PhaseAfter(p, left) ==
  IF left = {} /\ p = "resolver" /\ phase = "resolve" THEN "reconcile"
  ELSE IF left = {} /\ p = "reconciler" THEN "ready"
  ELSE phase

(* Bugs: the end of a pass thaws everything; it thaws nothing.             *)
ContinueThawsAll(p, left) ==
  /\ todo' = [todo EXCEPT ![p] = left]
  /\ query' = [query EXCEPT ![p] = NoQuery]
  /\ frozen' = IF p = "resolver" /\ left = {} THEN {} ELSE frozen
  /\ phase' = PhaseAfter(p, left)

ContinueNeverThaws(p, left) ==
  /\ todo' = [todo EXCEPT ![p] = left]
  /\ query' = [query EXCEPT ![p] = NoQuery]
  /\ phase' = PhaseAfter(p, left)
  /\ UNCHANGED frozen

(* What a coroutine does when `left` is still to be asked: after the last  *)
(* order of resolve_unknown the symbols without an open question thaw.     *)
Continue(p, left) ==
  /\ todo' = [todo EXCEPT ![p] = left]
  /\ query' = [query EXCEPT ![p] = NoQuery]
  /\ frozen' = IF p = "resolver" /\ left = {}
               THEN frozen \cap {Sym[o] : o \in {u \in Orders : row'[u] \in {"SENT", "UNKNOWN"}}}
               ELSE frozen
  /\ phase' = PhaseAfter(p, left)

(* Bug: only UNKNOWN orders are queried.                                   *)
ResolveUnknownOnly ==
  /\ UNCHANGED <<table, call, world, crashes>>
  /\ todo["resolver"] = {}
  /\ phase = "resolve" \/ unresolved # {} \/ frozen # {}
  /\ Continue("resolver", {o \in unresolved : row[o] = "UNKNOWN"})

ResolveUnknown ==
  /\ UNCHANGED <<table, call, world, crashes>>
  /\ todo["resolver"] = {}
  /\ phase = "resolve" \/ unresolved # {} \/ frozen # {}
  /\ Continue("resolver", {o \in unresolved : row[o] = "UNKNOWN" \/ age[o] > 0})

(* The rows that were not in the list of open orders; the list is older    *)
(* than the rows, so any of them may be missing.                           *)
Reconcile ==
  /\ UNCHANGED <<table, call, world, crashes>>
  /\ phase \in {"reconcile", "ready"}
  /\ todo["reconciler"] = {}
  /\ \E missing \in SUBSET {o \in Orders : row[o] \in OPEN \cup {"SENT", "UNKNOWN"}} :
       Continue("reconciler", missing)

(* A failing call aborts the reconciliation; start-up begins again.        *)
ReconcileFails ==
  /\ phase \in {"reconcile", "ready"}
  /\ query["reconciler"].stage \in {"idle", "asked"}
  /\ todo' = [todo EXCEPT !["reconciler"] = {}]
  /\ query' = [query EXCEPT !["reconciler"] = NoQuery]
  /\ phase' = IF phase = "reconcile" THEN "resolve" ELSE phase
  /\ UNCHANGED <<table, frozen, call, world, crashes>>

Cancel(o) ==
  /\ row[o] \notin TERMINAL \cup {"NONE"}
  /\ todo["canceller"] = {}
  /\ todo' = [todo EXCEPT !["canceller"] = {o}]
  /\ query' = [query EXCEPT !["canceller"] = [NoQuery EXCEPT !.stage = "delete", !.order = o]]
  /\ UNCHANGED <<table, frozen, phase, call, world, crashes>>

(* The exchange handles the cancel request.                                *)
CancelArrives ==
  LET q == query["canceller"]
      o == q.order
  IN /\ q.stage = "delete"
     /\ IF ex[o] \in OPEN
        THEN /\ Becomes(o, "CANCELED", exQty[o])
             /\ query' = [query EXCEPT !["canceller"] =
                            [@ EXCEPT !.stage = "deleted", !.status = "CANCELED", !.qty = exQty[o]]]
        ELSE /\ query' = [query EXCEPT !["canceller"] =
                            [@ EXCEPT !.stage = "deleted", !.status = "NOT_FOUND"]]
             /\ UNCHANGED <<ex, exQty, stream>>
     /\ UNCHANGED <<table, frozen, phase, call, todo, net, signed, age, up, crashes>>

(* An order the exchange does not have open is queried: how did it end?    *)
CancelReply ==
  LET q == query["canceller"]
  IN /\ q.stage = "deleted"
     /\ IF q.status = "NOT_FOUND"
        THEN /\ query' = [query EXCEPT !["canceller"].stage = "asked"]
             /\ UNCHANGED <<table, frozen, phase, todo>>
        ELSE /\ Report(q.order, q.status, q.qty)
             /\ Continue("canceller", {})
     /\ UNCHANGED <<call, world, crashes>>

CancelFails ==
  /\ UNCHANGED <<table, call, world, crashes>>
  /\ query["canceller"].stage \in {"delete", "deleted"}
  /\ Continue("canceller", {})

Ask(p) ==
  /\ query[p].stage = "idle"
  /\ \E o \in todo[p] :
       query' = [query EXCEPT ![p] = [NoQuery EXCEPT !.stage = "asked", !.order = o]]
  /\ UNCHANGED <<table, frozen, phase, call, todo, world, crashes>>

(* The exchange's answer.  A conditional order is looked up in the list of *)
(* armed ones, a regular one by its client order id.  Request weight is    *)
(* handed out in order, so the order itself is signed before its query.    *)
Found(o) == IF o \in Algo THEN ex[o] = "NEW" ELSE ex[o] \notin {"NONE", "REJECTED"}

Answer(p) ==
  LET o == query[p].order
  IN /\ query[p].stage = "asked"
     /\ call[o].stage # "budget"
     /\ query' = [query EXCEPT ![p] =
                    [@ EXCEPT !.stage = "answered",
                              !.status = IF Found(o) THEN ex[o] ELSE "NOT_FOUND",
                              !.qty = IF Found(o) THEN exQty[o] ELSE 0,
                              !.at = age[o]]]
     /\ UNCHANGED <<table, frozen, phase, call, todo, world, crashes>>

QueryFails(p) ==
  /\ UNCHANGED <<table, call, world, crashes>>
  /\ query[p].stage \in {"asked", "answered"}
  /\ Continue(p, todo[p] \ {query[p].order})

(* Bug: an order not found is given up at once.                            *)
QueryReplyHasty(p) ==
  LET q == query[p]
      o == q.order
  IN /\ q.stage = "answered"
     /\ Report(o, IF q.status # "NOT_FOUND" THEN q.status
                  ELSE IF o \in Algo THEN "EXPIRED" ELSE "REJECTED", q.qty)
     /\ Continue(p, todo[p] \ {o})
     /\ UNCHANGED <<call, world, crashes>>

(* _query: an order not found is believed never to have arrived, or to be  *)
(* over, only after the grace period.                                      *)
QueryReply(p) ==
  LET q == query[p]
      o == q.order
  IN /\ q.stage = "answered"
     /\ \/ q.status # "NOT_FOUND" /\ Report(o, q.status, q.qty)
        \/ q.status = "NOT_FOUND" /\ age[o] < 2 /\ UNCHANGED table
        \/ /\ q.status = "NOT_FOUND" /\ age[o] = 2
           /\ Report(o, IF o \in Algo THEN "EXPIRED" ELSE "REJECTED", 0)
     /\ Continue(p, todo[p] \ {o})
     /\ UNCHANGED <<call, world, crashes>>

-----------------------------------------------------------------------------
(* The process dies and starts again: a request without a signature never  *)
(* leaves, one on the wire goes its way, and nothing in memory survives.   *)
Restart ==
  /\ crashes < MaxCrashes
  /\ crashes' = crashes + 1
  /\ frozen' = {}
  /\ phase' = "resolve"
  /\ call' = [o \in Orders |-> NoCall]
  /\ todo' = [p \in Askers |-> {}]
  /\ query' = [p \in Askers |-> NoQuery]
  /\ up' = FALSE
  /\ stream' = <<>>
  /\ UNCHANGED <<filled, anomalies, net, signed, age, ex, exQty>>

Crash == Restart /\ UNCHANGED row

(* Bug: the request leaves before the row says so.                         *)
CrashAfterSending(o) ==
  /\ Accepts(o)
  /\ crashes < MaxCrashes
  /\ crashes' = crashes + 1
  /\ frozen' = {} /\ phase' = "resolve"
  /\ call' = [p \in Orders |-> NoCall]
  /\ todo' = [p \in Askers |-> {}]
  /\ query' = [p \in Askers |-> NoQuery]
  /\ up' = FALSE /\ stream' = <<>>
  /\ row' = [row EXCEPT ![o] = "PENDING"]
  /\ net' = [net EXCEPT ![o] = "wire"]
  /\ UNCHANGED <<filled, anomalies, signed, age, ex, exQty>>

(* ... in the middle of submit: the row is there and still PENDING.        *)
CrashInSubmit(o) ==
  /\ Accepts(o)
  /\ Restart
  /\ row' = [row EXCEPT ![o] = "PENDING"]

OrderStep(o) ==
  \/ Submit(o) \/ Sign(o) \/ SubmitReply(o) \/ Failed(o)
  \/ Arrive(o) \/ Refuse(o) \/ Lose(o) \/ Respond(o) \/ Fill(o) \/ Expire(o)
  \/ Tick(o) \/ Cancel(o) \/ CrashInSubmit(o)

AskStep(p) == Ask(p) \/ Answer(p) \/ QueryFails(p) \/ QueryReply(p)

Next ==
  \/ \E o \in Orders : OrderStep(o)
  \/ \E p \in Askers : AskStep(p)
  \/ OnEvent \/ Disconnect \/ Connect
  \/ ResolveUnknown \/ Reconcile \/ ReconcileFails
  \/ CancelArrives \/ CancelReply \/ CancelFails
  \/ Crash

Spec == Init /\ [][Next]_vars

(* The loop keeps resolving, time passes, requests end or time out, and    *)
(* the exchange answers a query that is asked again and again.             *)
Fairness ==
  /\ \A o \in Orders : /\ WF_vars(Sign(o))
                       /\ WF_vars(Arrive(o) \/ Refuse(o) \/ Lose(o))
                       /\ WF_vars(SubmitReply(o) \/ Failed(o))
                       /\ WF_vars(Tick(o))
  /\ WF_vars(OnEvent)
  /\ WF_vars(ResolveUnknown)
  /\ WF_vars(Ask("resolver"))
  /\ SF_vars(Answer("resolver"))
  /\ SF_vars(QueryReply("resolver"))
  /\ \A p \in Askers : WF_vars(QueryFails(p) \/ QueryReply(p))

FairSpec == Spec /\ Fairness

-----------------------------------------------------------------------------
(* Properties.                                                             *)

Event == [order : Orders, status : OPEN \cup TERMINAL, qty : 0..MaxQty]

TypeOK ==
  /\ row \in [Orders -> RowStatus]
  /\ filled \in [Orders -> 0..MaxQty]
  /\ anomalies \in SUBSET Orders
  /\ frozen \in SUBSET Symbols
  /\ phase \in {"resolve", "reconcile", "ready"}
  /\ call \in [Orders -> Call]
  /\ \A o \in Orders : call[o].stage = "answered" => call[o].status # "NOT_FOUND"
  /\ todo \in [Askers -> SUBSET Orders]
  /\ query \in [Askers -> Query]
  /\ \A p \in Askers : query[p].stage # "idle" => query[p].order \in Orders
  /\ net \in [Orders -> {"none", "wire", "gone"}]
  /\ signed \in [Orders -> 0..2]
  /\ age \in [Orders -> 0..2]
  /\ ex \in [Orders -> ExStatus]
  /\ exQty \in [Orders -> 0..MaxQty]
  /\ up \in BOOLEAN
  /\ stream \in Seq(Event)
  /\ crashes \in Nat

(* Write-ahead (oms.py "on disk before the request leaves"): whatever the  *)
(* exchange has, or may still receive, has a row that says it was sent -   *)
(* also after a crash at any point.                                        *)
WriteAhead ==
  \A o \in Orders : (ex[o] # "NONE" \/ net[o] = "wire") => row[o] \notin {"NONE", "PENDING"}

(* What the table calls finished is finished: no order in a terminal status*)
(* is open at the exchange or on its way there (the grace period of        *)
(* UNKNOWN_GRACE_NS against recvWindow, late answers and crashes).         *)
ClosedIsClosed ==
  \A o \in Orders : row[o] \in TERMINAL =>
    /\ ex[o] \notin OPEN
    /\ net[o] # "wire"
    /\ call[o].stage # "budget"

(* A regular order's final status and quantity are the exchange's,         *)
(* whichever of answer, event, query and cancel told us last.              *)
Settled ==
  \A o \in Orders \ Algo : row[o] \in TERMINAL =>
    /\ row[o] = "REJECTED" => ex[o] \in {"NONE", "REJECTED"}
    /\ row[o] # "REJECTED" => ex[o] = row[o]
    /\ filled[o] = exQty[o]

(* "its symbol is frozen (no new orders)": no order is sent on a symbol    *)
(* that has an order with an unknown outcome.  Holds as long as the process*)
(* lives: the set is only in memory.                                       *)
NoOrderWhileUnknown ==
  [][\A o, p \in Orders :
       (row[o] = "NONE" /\ row'[o] = "SENT" /\ Sym[p] = Sym[o]) => row[p] # "UNKNOWN"]_vars

(* Two intents with one key never both reach the exchange, whatever is     *)
(* retried after a timeout or a restart.                                   *)
OneOrderPerKey ==
  \A o, p \in Orders : (o # p /\ Key[o] = Key[p] /\ Key[o] # None) =>
    ~ (ex[o] # "NONE" /\ ex[p] # "NONE")

(* A regular order never contradicts itself: no report the exchange can    *)
(* produce raises IllegalTransition, in any order of arrival.              *)
NoAnomaly == anomalies \subseteq Algo

(* What the table says of an order is what became of it at the exchange.   *)
TableIsTrue == ClosedIsClosed /\ Settled /\ NoAnomaly

(* The table keeps the promises of OrderTruth.                             *)
Truth == INSTANCE OrderTruth WITH row <- row, ex <- ex
Refines == Truth!Spec

(* The same claim for every order: a report that contradicts a terminal    *)
(* status "would be a bug or an exchange anomaly" (state.py, advance).     *)
NoContradiction == anomalies = {}

(* Every order whose outcome is open is resolved in the end.               *)
EventuallyResolved ==
  \A o \in Orders : row[o] \in {"SENT", "UNKNOWN"} ~> row[o] \notin {"SENT", "UNKNOWN"}

(* A frozen symbol thaws in the end.                                       *)
EventuallyThawed == \A s \in Symbols : s \in frozen ~> s \notin frozen

-----------------------------------------------------------------------------
(* What makes the safety properties inductive.                             *)

(* Nothing waits: requests are signed at once and queries answered within  *)
(* one age step.  The grace period is only sound then.                     *)
Prompt == ~ BudgetBlocks /\ ~ SlowAnswers

(* An order is nowhere before its request has left, its request leaves     *)
(* once, after the row was written, and only orders with a row are asked   *)
(* for.                                                                    *)
SentOnce ==
  /\ \A o \in Orders :
       /\ (net[o] # "none" \/ call[o].stage # "idle") => row[o] \notin {"NONE", "PENDING"}
       /\ call[o].stage = "budget" => net[o] = "none"
       /\ ex[o] # "NONE" => net[o] = "gone"
  /\ \A p \in Askers :
       /\ \A o \in todo[p] : row[o] # "NONE"
       /\ query[p].stage # "idle" => row[query[p].order] # "NONE"

(* A report (s, n) under way for o was true when it was made.              *)
Told(o, s, n) ==
  /\ s \in OPEN \cup TERMINAL
  /\ ex[o] # "NONE"
  /\ n <= exQty[o]
  /\ s \in OPEN => ex[o] # "REJECTED"
  /\ s = "PARTIALLY_FILLED" => ex[o] # "NEW"
  /\ s \in TERMINAL => ex[o] = s /\ n = exQty[o]

ReportsAreTrue ==
  /\ \A o \in Orders : call[o].stage = "answered" => Told(o, call[o].status, call[o].qty)
  /\ \A p \in Askers :
       (query[p].stage \in {"deleted", "answered"} /\ query[p].status # "NOT_FOUND") =>
         Told(query[p].order, query[p].status, query[p].qty)
  /\ \A i \in 1..Len(stream) : Told(stream[i].order, stream[i].status, stream[i].qty)

Gone(o) ==
  /\ ex[o] \notin OPEN
  /\ net[o] # "wire"
  /\ call[o].stage # "budget"
  /\ o \notin Algo => ex[o] \in {"NONE", "REJECTED"}

(* An order that is not sent yet or under way is young; a query that found *)
(* nothing an age step after the order was sent is right for good.         *)
NotFoundIsGone ==
  /\ \A o \in Orders :
       (row[o] = "NONE" \/ net[o] = "wire" \/ call[o].stage = "budget") => age[o] = 0
  /\ \A p \in Askers : query[p].stage = "answered" =>
       /\ age[query[p].order] <= query[p].at + 1
       /\ (query[p].status = "NOT_FOUND" /\ query[p].at > 0) => Gone(query[p].order)

(* The row lags behind the exchange and never runs ahead of it.            *)
RowLags ==
  \A o \in Orders :
    /\ row[o] \in OPEN => ex[o] \notin {"NONE", "REJECTED"}
    /\ filled[o] <= exQty[o]
    /\ ex[o] \in {"NONE", "REJECTED"} => exQty[o] = 0
    /\ o \in Algo => ex[o] # "PARTIALLY_FILLED" /\ exQty[o] = 0

IInv ==
  /\ WriteAhead
  /\ SentOnce
  /\ Prompt => /\ ReportsAreTrue
               /\ NotFoundIsGone
               /\ RowLags
               /\ ClosedIsClosed
               /\ Settled
               /\ NoAnomaly

=============================================================================

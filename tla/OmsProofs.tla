----------------------------- MODULE OmsProofs -----------------------------
(***************************************************************************)
(* Theorems about Oms for every set of orders, every assignment of symbols *)
(* and keys, every quantity and any number of crashes.                     *)
(***************************************************************************)
EXTENDS Oms, TLAPS

-----------------------------------------------------------------------------
(* The state machine.                                                      *)

(* A report leaves the status or replaces it.                              *)
LEMMA AdvanceResult ==
  ASSUME NEW c, NEW s
  PROVE  /\ advance(c, s) \in {c, s}
         /\ Illegal(c, s) => advance(c, s) = c
  BY DEF advance

(* A final report on an order that is not final, and legal, is taken over. *)
LEMMA AdvanceFinal ==
  ASSUME NEW c \in OrderStatus \ TERMINAL, NEW s \in TERMINAL, ~ Illegal(c, s)
  PROVE  advance(c, s) = s
  BY DEF advance, Stale, Illegal, TERMINAL, OPEN, RANK, OrderStatus

(* A final status stays.                                                   *)
LEMMA AdvanceStays ==
  ASSUME NEW c \in TERMINAL, NEW s \in OrderStatus
  PROVE  advance(c, s) = c
  BY DEF advance, Stale, Illegal, TERMINAL, ALLOWED, OrderStatus

(* Reports that raise contradict what is known: the order's end, or that   *)
(* it exists.                                                              *)
LEMMA ReportIsLegal ==
  ASSUME NEW c \in OrderStatus \ {"PENDING"}, NEW s \in OPEN \cup TERMINAL,
         c \in TERMINAL /\ s \in TERMINAL => s = c,
         c \in OPEN => s # "REJECTED"
  PROVE  ~ Illegal(c, s)
  BY DEF Stale, Illegal, TERMINAL, OPEN, ALLOWED, RANK, OrderStatus

LEMMA DoubtIsLegal ==
  ASSUME NEW c \in OrderStatus \ {"PENDING"}
  PROVE  ~ Illegal(c, "UNKNOWN")
  BY DEF Stale, Illegal, TERMINAL, OPEN, ALLOWED, RANK, OrderStatus

LEMMA RefusalIsLegal ==
  ASSUME NEW c \in (OrderStatus \ (OPEN \cup TERMINAL)) \cup {"REJECTED"}
  PROVE  ~ Illegal(c, "REJECTED")
  BY DEF Stale, Illegal, TERMINAL, OPEN, ALLOWED, RANK, OrderStatus

-----------------------------------------------------------------------------
(* Types.                                                                  *)

USE OmsAssumption

LEMMA ReportType ==
  ASSUME TypeOK, NEW o \in Orders, NEW s \in OrderStatus, NEW n \in 0..MaxQty, Report(o, s, n)
  PROVE  /\ row' \in [Orders -> RowStatus]
         /\ filled' \in [Orders -> 0..MaxQty]
         /\ anomalies' \in SUBSET Orders
<1>1. advance(row[o], s) \in {row[o], s}
  BY AdvanceResult
<1>. QED
  BY <1>1 DEF Report, TypeOK, RowStatus

LEMMA ContinueType ==
  ASSUME TypeOK, NEW p \in Askers, NEW left \in SUBSET Orders, Continue(p, left)
  PROVE  /\ todo' \in [Askers -> SUBSET Orders]
         /\ query' \in [Askers -> Query]
         /\ \A a \in Askers : query'[a].stage # "idle" => query'[a].order \in Orders
         /\ frozen' \in SUBSET Symbols
         /\ phase' \in {"resolve", "reconcile", "ready"}
<1>1. NoQuery \in Query /\ NoQuery.stage = "idle"
  BY DEF NoQuery, Query, Reply
<1>. QED
  BY <1>1 DEF Continue, PhaseAfter, TypeOK

LEMMA BecomesType ==
  ASSUME TypeOK, NEW o \in Orders, NEW s \in OPEN \cup TERMINAL, NEW n \in 0..MaxQty,
         Becomes(o, s, n)
  PROVE  /\ ex' \in [Orders -> ExStatus]
         /\ exQty' \in [Orders -> 0..MaxQty]
         /\ stream' \in Seq(Event)
<1>1. ex' \in [Orders -> ExStatus] /\ exQty' \in [Orders -> 0..MaxQty]
  BY DEF Becomes, TypeOK, ExStatus
<1>2. [order |-> o, status |-> s, qty |-> n] \in Event
  BY DEF Event
<1>3. stream \in Seq(Event)
  BY DEF TypeOK
<1>4. Append(stream, [order |-> o, status |-> s, qty |-> n]) \in Seq(Event)
  BY <1>2, <1>3
<1>5. \/ stream' = stream
      \/ stream' = Append(stream, [order |-> o, status |-> s, qty |-> n])
  BY DEF Becomes
<1>. QED
  BY <1>1, <1>3, <1>4, <1>5

LEMMA NoQueryType == NoQuery \in Query /\ NoQuery.stage = "idle"
  BY DEF NoQuery, Query, Reply

LEMMA NoCallType == NoCall \in Call /\ NoCall.stage = "idle"
  BY DEF NoCall, Call, Reply

LEMMA EmptyStream == <<>> \in Seq(Event)
  OBVIOUS

LEMMA RestartType ==
  ASSUME TypeOK, Restart
  PROVE  /\ frozen' \in SUBSET Symbols
         /\ phase' \in {"resolve", "reconcile", "ready"}
         /\ call' \in [Orders -> Call]
         /\ \A o \in Orders : call'[o].stage = "idle"
         /\ todo' \in [Askers -> SUBSET Orders]
         /\ query' \in [Askers -> Query]
         /\ \A p \in Askers : query'[p].stage = "idle"
         /\ up' \in BOOLEAN
         /\ stream' \in Seq(Event)
         /\ crashes' \in Nat
         /\ UNCHANGED <<filled, anomalies, net, signed, age, ex, exQty>>
<1>1. /\ call' \in [Orders -> Call]
      /\ \A o \in Orders : call'[o].stage = "idle"
  BY NoCallType DEF Restart
<1>2. /\ query' \in [Askers -> Query]
      /\ \A p \in Askers : query'[p].stage = "idle"
  BY NoQueryType DEF Restart
<1>3. stream' \in Seq(Event)
  BY EmptyStream DEF Restart
<1>4. crashes' \in Nat
  BY DEF Restart, TypeOK
<1>. QED
  BY <1>1, <1>2, <1>3, <1>4 DEF Restart

LEMMA InitType == Init => TypeOK
<1>. SUFFICES ASSUME Init PROVE TypeOK
  OBVIOUS
<1>1. /\ call \in [Orders -> Call]
      /\ \A o \in Orders : call[o].stage = "idle"
  BY NoCallType DEF Init
<1>2. /\ query \in [Askers -> Query]
      /\ \A p \in Askers : query[p].stage = "idle"
  BY NoQueryType DEF Init
<1>3. stream \in Seq(Event)
  BY EmptyStream DEF Init
<1>4. /\ row \in [Orders -> RowStatus]
      /\ ex \in [Orders -> ExStatus]
      /\ filled \in [Orders -> 0..MaxQty]
      /\ exQty \in [Orders -> 0..MaxQty]
  BY DEF Init, RowStatus, ExStatus
<1>5. /\ todo \in [Askers -> SUBSET Orders]
      /\ net \in [Orders -> {"none", "wire", "gone"}]
      /\ signed \in [Orders -> 0..2]
      /\ age \in [Orders -> 0..2]
  BY DEF Init
<1>6. /\ anomalies \in SUBSET Orders
      /\ frozen \in SUBSET Symbols
      /\ phase \in {"resolve", "reconcile", "ready"}
      /\ up \in BOOLEAN
      /\ crashes \in Nat
  BY DEF Init
<1>. QED
  BY <1>1, <1>2, <1>3, <1>4, <1>5, <1>6 DEF TypeOK

(* Every variable keeps its type: in particular a row never takes a status *)
(* outside the state machine and a quantity never exceeds the order's.     *)
THEOREM TypeCorrect == Spec => []TypeOK
<1>1. Init => TypeOK
  BY InitType
<1>2. TypeOK /\ [Next]_vars => TypeOK'
  <2>. SUFFICES ASSUME TypeOK, [Next]_vars PROVE TypeOK'
    OBVIOUS
  <2>. USE DEF table, memory, world
  <2>1. ASSUME NEW o \in Orders, Submit(o) PROVE TypeOK'
    <3>1. row' \in [Orders -> RowStatus]
      BY <2>1 DEF Submit, TypeOK, RowStatus, OrderStatus
    <3>2. /\ call' \in [Orders -> Call]
          /\ \A u \in Orders : call'[u].stage = "answered" => call'[u].status # "NOT_FOUND"
      <4>0. call[o] \in Call
        BY DEF TypeOK
      <4>1. [call[o] EXCEPT !.stage = "budget"] \in Call
        BY <4>0 DEF Call
      <4>2. call' = [call EXCEPT ![o] = [call[o] EXCEPT !.stage = "budget"]]
        BY <2>1 DEF Submit
      <4>3. [call[o] EXCEPT !.stage = "budget"].stage = "budget"
        BY <4>0 DEF Call
      <4>. QED
        BY <4>1, <4>2, <4>3 DEF TypeOK
    <3>. QED
      BY <2>1, <3>1, <3>2 DEF Submit, TypeOK
  <2>2. ASSUME NEW o \in Orders, Sign(o) PROVE TypeOK'
    BY <2>2 DEF Sign, TypeOK, Call
  <2>3. ASSUME NEW o \in Orders, SubmitReply(o) PROVE TypeOK'
    <3>1. call[o].status \in OrderStatus /\ call[o].qty \in 0..MaxQty
      BY <2>3 DEF SubmitReply, TypeOK, Call, Reply, OrderStatus, OPEN, TERMINAL
    <3>. QED
      BY <2>3, <3>1, ReportType, NoCallType DEF SubmitReply, TypeOK
  <2>4. ASSUME NEW o \in Orders, Failed(o) PROVE TypeOK'
    <3>1. "UNKNOWN" \in OrderStatus /\ 0 \in 0..MaxQty
      BY DEF OrderStatus
    <3>2. frozen' \in SUBSET Symbols
      BY <2>4 DEF Failed, TypeOK, Symbols
    <3>. QED
      BY <2>4, <3>1, <3>2, ReportType, NoCallType DEF Failed, TypeOK
  <2>5. ASSUME NEW o \in Orders, Arrive(o) PROVE TypeOK'
    <3>1. "NEW" \in OPEN \cup TERMINAL /\ 0 \in 0..MaxQty
      BY DEF OPEN
    <3>. QED
      BY <2>5, <3>1, BecomesType DEF Arrive, TypeOK
  <2>6. ASSUME NEW o \in Orders, Refuse(o) PROVE TypeOK'
    BY <2>6 DEF Refuse, TypeOK, ExStatus, TERMINAL
  <2>7. ASSUME NEW o \in Orders, Lose(o) PROVE TypeOK'
    BY <2>7 DEF Lose, TypeOK
  <2>8. ASSUME NEW o \in Orders, Respond(o) PROVE TypeOK'
    <3>1. ex[o] \in OPEN \cup TERMINAL /\ "NOT_FOUND" \notin OPEN \cup TERMINAL
      BY <2>8 DEF Respond, TypeOK, ExStatus, OPEN, TERMINAL
    <3>2. [stage |-> "answered", status |-> ex[o], qty |-> exQty[o]] \in Call
      BY <3>1 DEF TypeOK, Call, Reply
    <3>. QED
      BY <2>8, <3>1, <3>2 DEF Respond, TypeOK
  <2>9. ASSUME NEW o \in Orders, Fill(o) PROVE TypeOK'
    <3>1. PICK s \in OPEN \cup TERMINAL, n \in 0..MaxQty : Becomes(o, s, n)
      BY <2>9 DEF Fill, TypeOK, OPEN, TERMINAL
    <3>. QED
      BY <2>9, <3>1, BecomesType DEF Fill, TypeOK
  <2>10. ASSUME NEW o \in Orders, Expire(o) PROVE TypeOK'
    <3>1. PICK s \in OPEN \cup TERMINAL : Becomes(o, s, exQty[o])
      BY <2>10 DEF Expire, TERMINAL
    <3>2. exQty[o] \in 0..MaxQty
      BY DEF TypeOK
    <3>. QED
      BY <2>10, <3>1, <3>2, BecomesType DEF Expire, TypeOK
  <2>11. ASSUME NEW o \in Orders, Tick(o) PROVE TypeOK'
    <3>1. age' = [age EXCEPT ![o] = @ + 1] /\ age[o] < 2
      BY <2>11 DEF Tick
    <3>2. age \in [Orders -> 0..2]
      BY DEF TypeOK
    <3>3. age' \in [Orders -> 0..2]
      BY <3>1, <3>2
    <3>. QED
      BY <2>11, <3>3 DEF Tick, TypeOK
  <2>12. ASSUME NEW o \in Orders, Cancel(o) PROVE TypeOK'
    BY <2>12, NoQueryType DEF Cancel, TypeOK, Query, Askers
  <2>13. ASSUME NEW o \in Orders, CrashInSubmit(o) PROVE TypeOK'
    BY <2>13, RestartType DEF CrashInSubmit, TypeOK, RowStatus, OrderStatus
  <2>14. ASSUME NEW p \in Askers, Ask(p) PROVE TypeOK'
    <3>1. PICK o \in Orders : query' = [query EXCEPT ![p] =
                                          [NoQuery EXCEPT !.stage = "asked", !.order = o]]
      BY <2>14 DEF Ask, TypeOK
    <3>2. [NoQuery EXCEPT !.stage = "asked", !.order = o] \in Query
      BY NoQueryType DEF Query
    <3>. QED
      BY <2>14, <3>1, <3>2, NoQueryType DEF Ask, TypeOK, Query
  <2>15. ASSUME NEW p \in Askers, Answer(p) PROVE TypeOK'
    <3>1. query[p].order \in Orders
      BY <2>15 DEF Answer, TypeOK
    <3>. DEFINE o == query[p].order
                a == [query[p] EXCEPT !.stage = "answered",
                                      !.status = IF Found(o) THEN ex[o] ELSE "NOT_FOUND",
                                      !.qty = IF Found(o) THEN exQty[o] ELSE 0,
                                      !.at = age[o]]
    <3>2. Found(o) => ex[o] \in OPEN \cup TERMINAL
      BY <3>1 DEF Found, TypeOK, ExStatus, OPEN
    <3>3. a \in Query /\ a.order \in Orders
      <4>1. query[p] \in Query /\ exQty[o] \in 0..MaxQty /\ age[o] \in 0..2
        BY <3>1 DEF TypeOK
      <4>2. CASE Found(o)
        BY <3>1, <3>2, <4>1, <4>2 DEF Query, Reply
      <4>3. CASE ~ Found(o)
        <5>1. "NOT_FOUND" \in Reply /\ 0 \in 0..MaxQty
          BY DEF Reply
        <5>. QED
          BY <3>1, <4>1, <4>3, <5>1 DEF Query
      <4>. QED
        BY <4>2, <4>3
    <3>4. query' = [query EXCEPT ![p] = a]
      BY <2>15 DEF Answer
    <3>. HIDE DEF a
    <3>5. /\ query' \in [Askers -> Query]
          /\ \A b \in Askers : query'[b].stage # "idle" => query'[b].order \in Orders
      BY <3>3, <3>4 DEF TypeOK
    <3>. QED
      BY <2>15, <3>5 DEF Answer, TypeOK
  <2>16. ASSUME NEW p \in Askers, QueryFails(p) PROVE TypeOK'
    <3>1. todo[p] \ {query[p].order} \in SUBSET Orders
      BY DEF TypeOK
    <3>. QED
      BY <2>16, <3>1, ContinueType DEF QueryFails, TypeOK
  <2>17. ASSUME NEW p \in Askers, QueryReply(p) PROVE TypeOK'
    <3>1. query[p].order \in Orders /\ todo[p] \ {query[p].order} \in SUBSET Orders
      BY <2>17 DEF QueryReply, TypeOK
    <3>2. {"EXPIRED", "REJECTED"} \subseteq OrderStatus /\ 0 \in 0..MaxQty
      BY DEF OrderStatus
    <3>3. query[p].status # "NOT_FOUND" =>
            query[p].status \in OrderStatus /\ query[p].qty \in 0..MaxQty
      BY DEF TypeOK, Query, Reply, OPEN, TERMINAL, OrderStatus
    <3>4. /\ row' \in [Orders -> RowStatus]
          /\ filled' \in [Orders -> 0..MaxQty]
          /\ anomalies' \in SUBSET Orders
      BY <2>17, <3>1, <3>2, <3>3, ReportType DEF QueryReply, TypeOK
    <3>. QED
      BY <2>17, <3>1, <3>4, ContinueType DEF QueryReply, TypeOK
  <2>18. ASSUME OnEvent PROVE TypeOK'
    <3>. DEFINE e == Head(stream)
    <3>1. e \in Event /\ Tail(stream) \in Seq(Event)
      BY <2>18 DEF OnEvent, TypeOK
    <3>2. e.order \in Orders /\ e.status \in OrderStatus /\ e.qty \in 0..MaxQty
      BY <3>1 DEF Event, OPEN, TERMINAL, OrderStatus
    <3>3. Report(e.order, e.status, e.qty)
      BY <2>18 DEF OnEvent
    <3>. QED
      BY <2>18, <3>1, <3>2, <3>3, ReportType DEF OnEvent, TypeOK
  <2>19. ASSUME Disconnect PROVE TypeOK'
    BY <2>19, EmptyStream DEF Disconnect, TypeOK
  <2>20. ASSUME Connect PROVE TypeOK'
    BY <2>20 DEF Connect, TypeOK
  <2>21. ASSUME ResolveUnknown PROVE TypeOK'
    <3>1. {o \in unresolved : row[o] = "UNKNOWN" \/ age[o] > 0} \in SUBSET Orders
      BY DEF unresolved
    <3>. QED
      BY <2>21, <3>1, ContinueType DEF ResolveUnknown, TypeOK, Askers
  <2>22. ASSUME Reconcile PROVE TypeOK'
    <3>1. PICK missing \in SUBSET Orders : Continue("reconciler", missing)
      BY <2>22 DEF Reconcile
    <3>. QED
      BY <2>22, <3>1, ContinueType DEF Reconcile, TypeOK, Askers
  <2>23. ASSUME ReconcileFails PROVE TypeOK'
    BY <2>23, NoQueryType DEF ReconcileFails, TypeOK
  <2>24. ASSUME CancelArrives PROVE TypeOK'
    <3>. DEFINE o == query["canceller"].order
    <3>1. o \in Orders /\ exQty[o] \in 0..MaxQty /\ "CANCELED" \in OPEN \cup TERMINAL
      BY <2>24 DEF CancelArrives, TypeOK, Askers, TERMINAL
    <3>2. /\ ex' \in [Orders -> ExStatus]
          /\ exQty' \in [Orders -> 0..MaxQty]
          /\ stream' \in Seq(Event)
      BY <2>24, <3>1, BecomesType DEF CancelArrives, TypeOK
    <3>3. /\ query' \in [Askers -> Query]
          /\ \A p \in Askers : query'[p].stage # "idle" => query'[p].order \in Orders
      <4>1. PICK a \in Query : /\ query' = [query EXCEPT !["canceller"] = a]
                               /\ a.order = o
        <5>. DEFINE q == query["canceller"]
                    a == [q EXCEPT !.stage = "deleted", !.status = "CANCELED", !.qty = exQty[o]]
                    b == [q EXCEPT !.stage = "deleted", !.status = "NOT_FOUND"]
        <5>1. q \in Query
          BY DEF TypeOK, Askers
        <5>2. a \in Query /\ a.order = o /\ b \in Query /\ b.order = o
          BY <3>1, <5>1 DEF Query, Reply, TERMINAL
        <5>3. \/ query' = [query EXCEPT !["canceller"] = a]
              \/ query' = [query EXCEPT !["canceller"] = b]
          BY <2>24 DEF CancelArrives
        <5>. QED
          BY <5>2, <5>3
      <4>. QED
        BY <3>1, <4>1 DEF TypeOK, Askers
    <3>. QED
      BY <2>24, <3>2, <3>3 DEF CancelArrives, TypeOK
  <2>25. ASSUME CancelReply PROVE TypeOK'
    <3>. DEFINE q == query["canceller"]
    <3>1. CASE q.status = "NOT_FOUND"
      <4>1. /\ query' \in [Askers -> Query]
            /\ \A p \in Askers : query'[p].stage # "idle" => query'[p].order \in Orders
        <5>1. q \in Query /\ q.order \in Orders
          BY <2>25 DEF CancelReply, TypeOK, Askers
        <5>2. /\ [q EXCEPT !.stage = "asked"] \in Query
              /\ [q EXCEPT !.stage = "asked"].order = q.order
          BY <5>1 DEF Query
        <5>3. query' = [query EXCEPT !["canceller"] = [q EXCEPT !.stage = "asked"]]
          BY <2>25, <3>1 DEF CancelReply
        <5>. QED
          BY <5>1, <5>2, <5>3 DEF TypeOK
      <4>. QED
        BY <2>25, <3>1, <4>1 DEF CancelReply, TypeOK
    <3>2. CASE q.status # "NOT_FOUND"
      <4>1. q.order \in Orders /\ q.status \in OrderStatus /\ q.qty \in 0..MaxQty
        BY <2>25, <3>2 DEF CancelReply, TypeOK, Askers, Query, Reply, OPEN, TERMINAL, OrderStatus
      <4>2. Report(q.order, q.status, q.qty) /\ Continue("canceller", {})
        BY <2>25, <3>2 DEF CancelReply
      <4>. QED
        BY <2>25, <4>1, <4>2, ReportType, ContinueType DEF CancelReply, TypeOK, Askers
    <3>. QED
      BY <3>1, <3>2
  <2>26. ASSUME CancelFails PROVE TypeOK'
    BY <2>26, ContinueType DEF CancelFails, TypeOK, Askers
  <2>27. ASSUME Crash PROVE TypeOK'
    BY <2>27, RestartType DEF Crash, TypeOK
  <2>28. ASSUME UNCHANGED vars PROVE TypeOK'
    BY <2>28 DEF vars, TypeOK
  <2>. QED
    BY <2>1, <2>2, <2>3, <2>4, <2>5, <2>6, <2>7, <2>8, <2>9, <2>10, <2>11, <2>12, <2>13, <2>14,
       <2>15, <2>16, <2>17, <2>18, <2>19, <2>20, <2>21, <2>22, <2>23, <2>24, <2>25, <2>26, <2>27,
       <2>28 DEF Next, OrderStep, AskStep
<1>. QED
  BY <1>1, <1>2, PTL DEF Spec

-----------------------------------------------------------------------------
(* Write-ahead: the part of the invariant that needs no assumption about   *)
(* time.                                                                   *)

Inv1 == TypeOK /\ WriteAhead /\ SentOnce

(* What every step but the sending of an order does to rows, requests and  *)
(* the exchange.                                                           *)
NothingSent ==
  /\ \A o \in Orders :
       /\ row[o] \notin {"NONE", "PENDING"} => row'[o] \notin {"NONE", "PENDING"}
       /\ row[o] # "NONE" => row'[o] # "NONE"
       /\ call'[o].stage # "idle" => call[o].stage # "idle"
       /\ call'[o].stage = "budget" => call[o].stage = "budget"
       /\ ex'[o] # "NONE" => ex[o] # "NONE"
       /\ net[o] = "none" => net'[o] = "none"
       /\ net[o] = "gone" => net'[o] = "gone"
       /\ net'[o] # "none" => net[o] # "none"
       /\ net'[o] = "wire" => net[o] = "wire"

NothingAsked ==
  \A p \in Askers :
    /\ \A o \in todo'[p] : o \in todo[p] \/ row[o] # "NONE"
    /\ query'[p].stage # "idle" =>
         \/ query[p].stage # "idle" /\ query'[p].order = query[p].order
         \/ query'[p].order \in Orders /\ row[query'[p].order] # "NONE"

LEMMA WriteAheadFrame ==
  ASSUME Inv1, TypeOK', NothingSent, NothingAsked
  PROVE  WriteAhead' /\ SentOnce'
<1>1. WriteAhead'
  BY DEF Inv1, WriteAhead, NothingSent
<1>2. ASSUME NEW o \in Orders
      PROVE  /\ (net'[o] # "none" \/ call'[o].stage # "idle") => row'[o] \notin {"NONE", "PENDING"}
             /\ call'[o].stage = "budget" => net'[o] = "none"
             /\ ex'[o] # "NONE" => net'[o] = "gone"
  BY DEF Inv1, SentOnce, NothingSent
<1>3. ASSUME NEW p \in Askers
      PROVE  /\ \A o \in todo'[p] : row'[o] # "NONE"
             /\ query'[p].stage # "idle" => row'[query'[p].order] # "NONE"
  <2>1. \A o \in Orders : row[o] # "NONE" => row'[o] # "NONE"
    BY DEF NothingSent
  <2>2. ASSUME NEW o \in todo'[p] PROVE row'[o] # "NONE"
    <3>1. o \in Orders
      BY DEF TypeOK
    <3>2. row[o] # "NONE"
      BY DEF Inv1, SentOnce, NothingAsked
    <3>. QED
      BY <2>1, <3>1, <3>2
  <2>3. ASSUME query'[p].stage # "idle" PROVE row'[query'[p].order] # "NONE"
    <3>1. query'[p].order \in Orders
      BY <2>3 DEF TypeOK
    <3>2. row[query'[p].order] # "NONE"
      BY <2>3 DEF Inv1, SentOnce, NothingAsked
    <3>. QED
      BY <2>1, <3>1, <3>2
  <2>. QED
    BY <2>2, <2>3
<1>. QED
  BY <1>1, <1>2, <1>3 DEF SentOnce

(* A report never turns a row into one that was not sent.                  *)
LEMMA ReportSent ==
  ASSUME TypeOK, NEW o \in Orders, NEW s \in OPEN \cup TERMINAL \cup {"UNKNOWN"}, NEW n,
         Report(o, s, n)
  PROVE  \A u \in Orders :
           /\ row[u] \notin {"NONE", "PENDING"} => row'[u] \notin {"NONE", "PENDING"}
           /\ row[u] # "NONE" => row'[u] # "NONE"
<1>1. s \notin {"NONE", "PENDING"}
  BY DEF OPEN, TERMINAL
<1>2. advance(row[o], s) \in {row[o], s}
  BY AdvanceResult
<1>. QED
  BY <1>1, <1>2 DEF Report, TypeOK

LEMMA ContinueAsked ==
  ASSUME TypeOK, NEW p \in Askers, NEW left \in SUBSET Orders, Continue(p, left),
         \A o \in left : o \in todo[p] \/ row[o] # "NONE"
  PROVE  NothingAsked
  BY NoQueryType DEF Continue, NothingAsked, TypeOK

(* A report changes no request and nothing at the exchange.                *)
LEMMA ReportFrame ==
  ASSUME TypeOK, NEW o \in Orders, NEW s \in OPEN \cup TERMINAL \cup {"UNKNOWN"}, NEW n,
         Report(o, s, n), UNCHANGED world,
         \A u \in Orders : call'[u].stage \in {"idle", call[u].stage}
  PROVE  NothingSent
<1>1. \A u \in Orders :
        /\ row[u] \notin {"NONE", "PENDING"} => row'[u] \notin {"NONE", "PENDING"}
        /\ row[u] # "NONE" => row'[u] # "NONE"
  BY ReportSent
<1>. QED
  BY <1>1 DEF NothingSent, world

(* Everything sent has a row that says so, for good.                       *)
LEMMA Inv1Holds == Spec => []Inv1
<1>1. Init => Inv1
  <2>. SUFFICES ASSUME Init PROVE WriteAhead /\ SentOnce
    BY TypeCorrect, InitType DEF Inv1
  <2>1. /\ \A o \in Orders : call[o].stage = "idle"
        /\ \A p \in Askers : query[p].stage = "idle" /\ todo[p] = {}
    BY NoCallType, NoQueryType DEF Init
  <2>2. \A o \in Orders : net[o] = "none" /\ ex[o] = "NONE"
    BY DEF Init
  <2>. QED
    BY <2>1, <2>2 DEF WriteAhead, SentOnce
<1>2. Inv1 /\ TypeOK' /\ [Next]_vars => Inv1'
  <2>. SUFFICES ASSUME Inv1, TypeOK', [Next]_vars PROVE WriteAhead' /\ SentOnce'
    BY DEF Inv1
  <2>. USE DEF table, memory, world
  <2>0. TypeOK
    BY DEF Inv1
  <2>1. ASSUME NEW o \in Orders, Submit(o) PROVE WriteAhead' /\ SentOnce'
    <3>1. /\ row[o] = "NONE" /\ row' = [row EXCEPT ![o] = "SENT"]
          /\ UNCHANGED <<net, ex, todo, query>>
          /\ call' = [call EXCEPT ![o].stage = "budget"]
      BY <2>1 DEF Submit, Accepts
    <3>2. net[o] = "none" /\ ex[o] = "NONE"
      BY <3>1 DEF Inv1, SentOnce, WriteAhead, TypeOK
    <3>3. \A u \in Orders : u # o => row'[u] = row[u] /\ call'[u] = call[u]
      BY <3>1, <2>0 DEF TypeOK
    <3>4. row'[o] = "SENT"
      BY <3>1, <2>0 DEF TypeOK
    <3>5. WriteAhead'
      BY <3>1, <3>2, <3>3, <3>4 DEF Inv1, WriteAhead
    <3>6. ASSUME NEW u \in Orders
          PROVE  /\ (net'[u] # "none" \/ call'[u].stage # "idle") => row'[u] \notin {"NONE", "PENDING"}
                 /\ call'[u].stage = "budget" => net'[u] = "none"
                 /\ ex'[u] # "NONE" => net'[u] = "gone"
      BY <3>1, <3>2, <3>3, <3>4 DEF Inv1, SentOnce
    <3>7. ASSUME NEW p \in Askers
          PROVE  /\ \A u \in todo'[p] : row'[u] # "NONE"
                 /\ query'[p].stage # "idle" => row'[query'[p].order] # "NONE"
      <4>1. \A u \in Orders : row[u] # "NONE" => row'[u] # "NONE"
        BY <3>1, <3>3
      <4>2. todo[p] \subseteq Orders /\ (query[p].stage # "idle" => query[p].order \in Orders)
        BY <2>0 DEF TypeOK
      <4>. QED
        BY <3>1, <4>1, <4>2 DEF Inv1, SentOnce
    <3>. QED
      BY <3>5, <3>6, <3>7 DEF SentOnce
  <2>2. ASSUME NEW o \in Orders, Sign(o) PROVE WriteAhead' /\ SentOnce'
    <3>1. /\ call[o].stage = "budget" /\ net' = [net EXCEPT ![o] = "wire"]
          /\ UNCHANGED <<row, ex, todo, query>>
          /\ call' = [call EXCEPT ![o].stage = "await"]
      BY <2>2 DEF Sign
    <3>2. row[o] \notin {"NONE", "PENDING"} /\ net[o] = "none" /\ ex[o] = "NONE"
      BY <3>1 DEF Inv1, SentOnce
    <3>3. \A u \in Orders : u # o => net'[u] = net[u] /\ call'[u] = call[u]
      BY <3>1, <2>0 DEF TypeOK
    <3>4. call'[o].stage = "await"
      BY <3>1, <2>0 DEF TypeOK, Call
    <3>5. WriteAhead'
      BY <3>1, <3>2, <3>3 DEF Inv1, WriteAhead
    <3>6. ASSUME NEW u \in Orders
          PROVE  /\ (net'[u] # "none" \/ call'[u].stage # "idle") => row'[u] \notin {"NONE", "PENDING"}
                 /\ call'[u].stage = "budget" => net'[u] = "none"
                 /\ ex'[u] # "NONE" => net'[u] = "gone"
      BY <3>1, <3>2, <3>3, <3>4 DEF Inv1, SentOnce
    <3>. QED
      BY <3>1, <3>5, <3>6 DEF Inv1, SentOnce
  <2>3. ASSUME NEW o \in Orders, SubmitReply(o) PROVE WriteAhead' /\ SentOnce'
    <3>1. call[o].status \in OPEN \cup TERMINAL
      BY <2>3, <2>0 DEF SubmitReply, TypeOK, Call, Reply
    <3>2. \A u \in Orders : call'[u].stage \in {"idle", call[u].stage}
      BY <2>3, <2>0, NoCallType DEF SubmitReply, TypeOK
    <3>3. NothingSent
      BY <2>3, <2>0, <3>1, <3>2, ReportFrame DEF SubmitReply
    <3>4. NothingAsked
      BY <2>3 DEF SubmitReply, NothingAsked
    <3>. QED
      BY <3>3, <3>4, WriteAheadFrame
  <2>4. ASSUME NEW o \in Orders, Failed(o) PROVE WriteAhead' /\ SentOnce'
    <3>2. \A u \in Orders : call'[u].stage \in {"idle", call[u].stage}
      BY <2>4, <2>0, NoCallType DEF Failed, TypeOK
    <3>3. NothingSent
      BY <2>4, <2>0, <3>2, ReportFrame DEF Failed
    <3>4. NothingAsked
      BY <2>4 DEF Failed, NothingAsked
    <3>. QED
      BY <3>3, <3>4, WriteAheadFrame
  <2>5. ASSUME NEW o \in Orders, Arrive(o) \/ Refuse(o) PROVE WriteAhead' /\ SentOnce'
    <3>1. /\ net[o] = "wire" /\ net' = [net EXCEPT ![o] = "gone"]
          /\ UNCHANGED <<row, call, todo, query>>
          /\ \E s : ex' = [ex EXCEPT ![o] = s]
      BY <2>5 DEF Arrive, Refuse, Becomes
    <3>2. row[o] \notin {"NONE", "PENDING"}
      BY <3>1 DEF Inv1, SentOnce
    <3>3. \A u \in Orders : u # o => net'[u] = net[u] /\ ex'[u] = ex[u]
      BY <3>1, <2>0 DEF TypeOK
    <3>4. net'[o] = "gone"
      BY <3>1, <2>0 DEF TypeOK
    <3>5. call[o].stage # "budget"
      BY <3>1 DEF Inv1, SentOnce
    <3>6. WriteAhead'
      BY <3>1, <3>2, <3>3, <3>4 DEF Inv1, WriteAhead
    <3>7. ASSUME NEW u \in Orders
          PROVE  /\ (net'[u] # "none" \/ call'[u].stage # "idle") => row'[u] \notin {"NONE", "PENDING"}
                 /\ call'[u].stage = "budget" => net'[u] = "none"
                 /\ ex'[u] # "NONE" => net'[u] = "gone"
      BY <3>1, <3>2, <3>3, <3>4, <3>5 DEF Inv1, SentOnce
    <3>. QED
      BY <3>1, <3>6, <3>7 DEF Inv1, SentOnce
  <2>6. ASSUME NEW o \in Orders, Lose(o) PROVE WriteAhead' /\ SentOnce'
    BY <2>6, <2>0, WriteAheadFrame DEF Lose, NothingSent, NothingAsked, TypeOK
  <2>7. ASSUME NEW o \in Orders, Respond(o) PROVE WriteAhead' /\ SentOnce'
    <3>1. \A u \in Orders : u = o \/ call'[u].stage = call[u].stage
      <4>1. call \in [Orders -> Call]
        BY <2>0 DEF TypeOK
      <4>. QED
        BY <2>7, <4>1 DEF Respond
    <3>2. call[o].stage = "await" /\ call'[o].stage = "answered"
      BY <2>7, <2>0 DEF Respond, TypeOK
    <3>3. NothingSent
      BY <2>7, <3>1, <3>2 DEF Respond, NothingSent
    <3>. QED
      BY <2>7, <3>3, WriteAheadFrame DEF Respond, NothingAsked
  <2>8. ASSUME NEW o \in Orders, Fill(o) \/ Expire(o) PROVE WriteAhead' /\ SentOnce'
    <3>1. /\ UNCHANGED <<row, call, todo, query, net>>
          /\ ex[o] # "NONE"
          /\ \E s : ex' = [ex EXCEPT ![o] = s]
      BY <2>8 DEF Fill, Expire, Becomes, OPEN
    <3>2. NothingSent
      BY <3>1, <2>0 DEF NothingSent, TypeOK
    <3>. QED
      BY <3>1, <3>2, WriteAheadFrame DEF NothingAsked
  <2>9. ASSUME NEW o \in Orders, Tick(o) PROVE WriteAhead' /\ SentOnce'
    BY <2>9, WriteAheadFrame DEF Tick, NothingSent, NothingAsked
  <2>10. ASSUME NEW o \in Orders, Cancel(o) PROVE WriteAhead' /\ SentOnce'
    <3>1. NothingSent
      BY <2>10 DEF Cancel, NothingSent
    <3>2. row[o] # "NONE"
      BY <2>10 DEF Cancel
    <3>3. [NoQuery EXCEPT !.stage = "delete", !.order = o].order = o
      BY DEF NoQuery
    <3>4. NothingAsked
      BY <2>10, <2>0, <3>2, <3>3 DEF Cancel, NothingAsked, TypeOK
    <3>. QED
      BY <3>1, <3>4, WriteAheadFrame
  <2>11. ASSUME Restart, \A u \in Orders : row[u] # "NONE" => row'[u] = row[u]
         PROVE  WriteAhead' /\ SentOnce'
    <3>1. NothingSent
      BY <2>11, <2>0, RestartType DEF NothingSent, Restart
    <3>2. NothingAsked
      BY <2>11, <2>0, RestartType DEF NothingAsked, Restart
    <3>. QED
      BY <3>1, <3>2, WriteAheadFrame
  <2>12. ASSUME NEW o \in Orders, CrashInSubmit(o) PROVE WriteAhead' /\ SentOnce'
    BY <2>12, <2>11, <2>0 DEF CrashInSubmit, Accepts, TypeOK
  <2>13. ASSUME Crash PROVE WriteAhead' /\ SentOnce'
    BY <2>13, <2>11 DEF Crash
  <2>14. ASSUME NEW p \in Askers, Ask(p) PROVE WriteAhead' /\ SentOnce'
    <3>1. PICK o \in todo[p] : query' = [query EXCEPT ![p] =
                                          [NoQuery EXCEPT !.stage = "asked", !.order = o]]
      BY <2>14 DEF Ask
    <3>2. o \in Orders /\ row[o] # "NONE"
      BY <2>0, <3>1 DEF Inv1, SentOnce, TypeOK
    <3>3. [NoQuery EXCEPT !.stage = "asked", !.order = o].order = o
      BY DEF NoQuery
    <3>4. NothingAsked
      BY <2>14, <2>0, <3>1, <3>2, <3>3 DEF Ask, NothingAsked, TypeOK
    <3>. QED
      BY <2>14, <3>4, WriteAheadFrame DEF Ask, NothingSent
  <2>15. ASSUME NEW p \in Askers, Answer(p) PROVE WriteAhead' /\ SentOnce'
    <3>1. \A a \in Askers : \/ query'[a] = query[a]
                            \/ query[a].stage # "idle" /\ query'[a].order = query[a].order
      <4>1. query[p] \in Query /\ query \in [Askers -> Query]
        BY <2>0 DEF TypeOK
      <4>2. query'[p].order = query[p].order /\ query[p].stage # "idle"
        BY <2>15, <4>1 DEF Answer, Query
      <4>3. \A a \in Askers : a # p => query'[a] = query[a]
        BY <2>15, <4>1 DEF Answer
      <4>. QED
        BY <4>2, <4>3
    <3>2. NothingAsked
      BY <2>15, <3>1 DEF Answer, NothingAsked
    <3>. QED
      BY <2>15, <3>2, WriteAheadFrame DEF Answer, NothingSent
  <2>16. ASSUME NEW p \in Askers, QueryFails(p) PROVE WriteAhead' /\ SentOnce'
    <3>1. todo[p] \ {query[p].order} \in SUBSET Orders
      BY <2>0 DEF TypeOK
    <3>2. NothingAsked
      BY <2>16, <2>0, <3>1, ContinueAsked DEF QueryFails
    <3>. QED
      BY <2>16, <3>2, WriteAheadFrame DEF QueryFails, NothingSent
  <2>17. ASSUME NEW p \in Askers, QueryReply(p) PROVE WriteAhead' /\ SentOnce'
    <3>0. todo[p] \ {query[p].order} \in SUBSET Orders
      BY <2>0 DEF TypeOK
    <3>1. NothingAsked
      BY <2>17, <2>0, <3>0, ContinueAsked DEF QueryReply
    <3>2. query[p].order \in Orders
      BY <2>17, <2>0 DEF QueryReply, TypeOK
    <3>3. query[p].status # "NOT_FOUND" => query[p].status \in OPEN \cup TERMINAL
      BY <2>0 DEF TypeOK, Query, Reply
    <3>4. {"EXPIRED", "REJECTED"} \subseteq OPEN \cup TERMINAL \cup {"UNKNOWN"}
      BY DEF TERMINAL
    <3>5. \/ UNCHANGED table
          \/ \E s \in OPEN \cup TERMINAL \cup {"UNKNOWN"}, n \in Int : Report(query[p].order, s, n)
      <4>1. query[p].qty \in Int
        BY <2>0 DEF TypeOK, Query
      <4>. QED
        BY <2>17, <3>3, <3>4, <4>1 DEF QueryReply
    <3>6. NothingSent
      BY <2>17, <2>0, <3>2, <3>5, ReportFrame DEF QueryReply, NothingSent
    <3>. QED
      BY <3>1, <3>6, WriteAheadFrame
  <2>18. ASSUME OnEvent PROVE WriteAhead' /\ SentOnce'
    <3>1. Head(stream) \in Event
      BY <2>18, <2>0 DEF OnEvent, TypeOK
    <3>2. \A u \in Orders :
            /\ row[u] \notin {"NONE", "PENDING"} => row'[u] \notin {"NONE", "PENDING"}
            /\ row[u] # "NONE" => row'[u] # "NONE"
      BY <2>18, <2>0, <3>1, ReportSent DEF OnEvent, Event
    <3>3. NothingSent
      BY <2>18, <3>2 DEF OnEvent, NothingSent
    <3>. QED
      BY <2>18, <3>3, WriteAheadFrame DEF OnEvent, NothingAsked
  <2>19. ASSUME Disconnect \/ Connect PROVE WriteAhead' /\ SentOnce'
    BY <2>19, WriteAheadFrame DEF Disconnect, Connect, NothingSent, NothingAsked
  <2>20. ASSUME ResolveUnknown PROVE WriteAhead' /\ SentOnce'
    <3>. DEFINE left == {o \in unresolved : row[o] = "UNKNOWN" \/ age[o] > 0}
    <3>0. left \in SUBSET Orders /\ \A o \in left : row[o] # "NONE"
      BY DEF unresolved
    <3>1. NothingAsked
      BY <2>20, <2>0, <3>0, ContinueAsked DEF ResolveUnknown, Askers
    <3>. QED
      BY <2>20, <3>1, WriteAheadFrame DEF ResolveUnknown, NothingSent
  <2>21. ASSUME Reconcile PROVE WriteAhead' /\ SentOnce'
    <3>1. PICK missing \in SUBSET {o \in Orders : row[o] \in OPEN \cup {"SENT", "UNKNOWN"}} :
            Continue("reconciler", missing)
      BY <2>21 DEF Reconcile
    <3>2. missing \in SUBSET Orders /\ \A o \in missing : row[o] # "NONE"
      BY DEF OPEN
    <3>3. NothingAsked
      BY <2>0, <3>1, <3>2, ContinueAsked DEF Askers
    <3>. QED
      BY <2>21, <3>3, WriteAheadFrame DEF Reconcile, NothingSent
  <2>22. ASSUME ReconcileFails PROVE WriteAhead' /\ SentOnce'
    <3>1. NothingAsked
      BY <2>22, <2>0, NoQueryType DEF ReconcileFails, NothingAsked, TypeOK
    <3>. QED
      BY <2>22, <3>1, WriteAheadFrame DEF ReconcileFails, NothingSent
  <2>23. ASSUME CancelArrives PROVE WriteAhead' /\ SentOnce'
    <3>. DEFINE o == query["canceller"].order
    <3>1. o \in Orders
      BY <2>23, <2>0 DEF CancelArrives, TypeOK, Askers
    <3>2. query["canceller"].stage # "idle" /\ query["canceller"] \in Query
      BY <2>23, <2>0 DEF CancelArrives, TypeOK, Askers
    <3>3. \A a \in Askers : a # "canceller" => query'[a] = query[a]
      BY <2>23, <2>0 DEF CancelArrives, TypeOK
    <3>4. query'["canceller"].order = o
      <4>1. query \in [Askers -> Query] /\ "canceller" \in Askers
        BY <2>0 DEF TypeOK, Askers
      <4>2. CASE ex[o] \in OPEN
        BY <2>23, <3>2, <4>1, <4>2 DEF CancelArrives, Query
      <4>3. CASE ex[o] \notin OPEN
        BY <2>23, <3>2, <4>1, <4>3 DEF CancelArrives, Query
      <4>. QED
        BY <4>2, <4>3
    <3>5. NothingAsked
      BY <2>23, <3>2, <3>3, <3>4 DEF CancelArrives, NothingAsked
    <3>6. \A u \in Orders : ex'[u] # "NONE" => ex[u] # "NONE"
      <4>1. CASE ex[o] \in OPEN
        BY <2>23, <2>0, <4>1 DEF CancelArrives, Becomes, TypeOK, OPEN
      <4>2. CASE ex[o] \notin OPEN
        BY <2>23, <4>2 DEF CancelArrives
      <4>. QED
        BY <4>1, <4>2
    <3>. QED
      BY <2>23, <3>5, <3>6, WriteAheadFrame DEF CancelArrives, NothingSent
  <2>24. ASSUME CancelReply PROVE WriteAhead' /\ SentOnce'
    <3>. DEFINE q == query["canceller"]
    <3>0. q.order \in Orders /\ q \in Query /\ q.stage # "idle"
      BY <2>24, <2>0 DEF CancelReply, TypeOK, Askers
    <3>1. CASE q.status = "NOT_FOUND"
      <4>1. [q EXCEPT !.stage = "asked"].order = q.order
        BY <3>0 DEF Query
      <4>2. query' = [query EXCEPT !["canceller"] = [q EXCEPT !.stage = "asked"]]
        BY <2>24, <3>1 DEF CancelReply
      <4>3. \A a \in Askers : query'[a].stage # "idle" =>
                                query[a].stage # "idle" /\ query'[a].order = query[a].order
        BY <2>0, <3>0, <4>1, <4>2 DEF TypeOK
      <4>4. NothingAsked
        BY <2>24, <3>1, <4>3 DEF CancelReply, NothingAsked
      <4>. QED
        BY <2>24, <3>1, <4>4, WriteAheadFrame DEF CancelReply, NothingSent
    <3>2. CASE q.status # "NOT_FOUND"
      <4>1. q.status \in OPEN \cup TERMINAL
        BY <3>0, <3>2 DEF Query, Reply
      <4>2. Report(q.order, q.status, q.qty) /\ Continue("canceller", {})
        BY <2>24, <3>2 DEF CancelReply
      <4>3. NothingSent
        BY <2>24, <2>0, <3>0, <4>1, <4>2, ReportFrame DEF CancelReply
      <4>4. NothingAsked
        BY <2>0, <4>2, ContinueAsked DEF Askers
      <4>. QED
        BY <4>3, <4>4, WriteAheadFrame
    <3>. QED
      BY <3>1, <3>2
  <2>25. ASSUME CancelFails PROVE WriteAhead' /\ SentOnce'
    <3>1. NothingAsked
      BY <2>25, <2>0, ContinueAsked DEF CancelFails, Askers
    <3>. QED
      BY <2>25, <3>1, WriteAheadFrame DEF CancelFails, NothingSent
  <2>26. ASSUME UNCHANGED vars PROVE WriteAhead' /\ SentOnce'
    BY <2>26, WriteAheadFrame DEF vars, NothingSent, NothingAsked
  <2>. QED
    BY <2>1, <2>2, <2>3, <2>4, <2>5, <2>6, <2>7, <2>8, <2>9, <2>10, <2>12, <2>13, <2>14,
       <2>15, <2>16, <2>17, <2>18, <2>19, <2>20, <2>21, <2>22, <2>23, <2>24, <2>25, <2>26
    DEF Next, OrderStep, AskStep
<1>. QED
  BY <1>1, <1>2, TypeCorrect, PTL DEF Spec

(* Whatever reached the exchange, or still may, has a row that says it was *)
(* sent - for any number of orders and crashes.                            *)
THEOREM WriteAheadHolds == Spec => []WriteAhead
<1>1. Inv1 => WriteAhead
  BY DEF Inv1
<1>. QED
  BY <1>1, Inv1Holds, PTL

-----------------------------------------------------------------------------
(* One order per key: a key is taken by the first row, and rows stay.      *)

KeyTaken ==
  \A o, p \in Orders : (o # p /\ Key[o] = Key[p] /\ Key[o] # None) =>
    row[o] = "NONE" \/ row[p] = "NONE"

StreamKnown == \A i \in 1..Len(stream) : ex[stream[i].order] # "NONE"

NoNewRow == \A u \in Orders : row'[u] # "NONE" => row[u] # "NONE"

(* A row the process adds takes a key nobody has.                          *)
LEMMA NewRowKey ==
  ASSUME TypeOK, KeyTaken, NEW o \in Orders, Accepts(o), NEW s, row' = [row EXCEPT ![o] = s]
  PROVE  KeyTaken'
<1>1. \A p \in Orders : row[p] # "NONE" => Key[p] # Key[o] \/ Key[o] = None
  BY DEF Accepts, intent_exists
<1>2. \A u \in Orders : u # o => row'[u] = row[u]
  BY DEF TypeOK
<1>. QED
  BY <1>1, <1>2 DEF KeyTaken

LEMMA ReportNoRow ==
  ASSUME TypeOK, NEW o \in Orders, row[o] # "NONE", NEW s, NEW n, Report(o, s, n)
  PROVE  NoNewRow
  BY DEF Report, NoNewRow, TypeOK

LEMMA StreamOrders ==
  ASSUME TypeOK
  PROVE  \A i \in 1..Len(stream) : stream[i].order \in Orders
<1>. SUFFICES ASSUME NEW i \in 1..Len(stream) PROVE stream[i].order \in Orders
  OBVIOUS
<1>1. stream \in Seq(Event)
  BY DEF TypeOK
<1>2. stream[i] \in Event
  BY <1>1
<1>. QED
  BY <1>2 DEF Event

LEMMA BecomesKnown ==
  ASSUME TypeOK, StreamKnown, NEW o \in Orders, NEW s \in OPEN \cup TERMINAL,
         NEW n \in 0..MaxQty, Becomes(o, s, n)
  PROVE  StreamKnown'
<1>. DEFINE e == [order |-> o, status |-> s, qty |-> n]
<1>1. e \in Event /\ stream \in Seq(Event)
  BY DEF Event, TypeOK
<1>2. s # "NONE"
  BY DEF OPEN, TERMINAL
<1>3. \A u \in Orders : ex[u] # "NONE" => ex'[u] # "NONE"
  BY <1>2 DEF Becomes, TypeOK
<1>4. ex'[o] # "NONE"
  BY <1>2 DEF Becomes, TypeOK
<1>5. CASE stream' = stream
  <2>1. \A i \in 1..Len(stream) : stream[i].order \in Orders
    BY StreamOrders
  <2>. QED
    BY <1>3, <1>5, <2>1 DEF StreamKnown
<1>6. CASE stream' = Append(stream, e)
  <2>. SUFFICES ASSUME NEW i \in 1..Len(stream') PROVE ex'[stream'[i].order] # "NONE"
    BY DEF StreamKnown
  <2>1. \/ i \in 1..Len(stream) /\ stream'[i] = stream[i]
        \/ stream'[i] = e
    BY <1>1, <1>6
  <2>2. CASE i \in 1..Len(stream) /\ stream'[i] = stream[i]
    <3>1. stream[i].order \in Orders
      BY <2>2, StreamOrders
    <3>. QED
      BY <1>3, <2>2, <3>1 DEF StreamKnown
  <2>3. CASE stream'[i] = e
    BY <1>4, <2>3
  <2>. QED
    BY <2>1, <2>2, <2>3
<1>. QED
  BY <1>5, <1>6 DEF Becomes

(* Two intents with one key never both reach the exchange, whatever is     *)
(* retried, for any number of orders, keys and crashes.                    *)
THEOREM OneOrderPerKeyHolds == Spec => []OneOrderPerKey
<1>1. Init => KeyTaken /\ StreamKnown
  <2>. SUFFICES ASSUME Init PROVE KeyTaken /\ StreamKnown
    OBVIOUS
  <2>1. \A o \in Orders : row[o] = "NONE"
    BY DEF Init
  <2>2. Len(stream) = 0
    BY DEF Init
  <2>. QED
    BY <2>1, <2>2 DEF KeyTaken, StreamKnown
<1>2. Inv1 /\ KeyTaken /\ StreamKnown /\ [Next]_vars => KeyTaken' /\ StreamKnown'
  <2>. SUFFICES ASSUME Inv1, KeyTaken, StreamKnown, [Next]_vars PROVE KeyTaken' /\ StreamKnown'
    OBVIOUS
  <2>. USE DEF table, memory, world
  <2>0. TypeOK
    BY DEF Inv1
  <2>1. ASSUME NoNewRow PROVE KeyTaken'
    BY <2>1 DEF KeyTaken, NoNewRow
  <2>2. ASSUME UNCHANGED row PROVE KeyTaken'
    BY <2>2 DEF KeyTaken
  <2>3. ASSUME UNCHANGED <<ex, stream>> PROVE StreamKnown'
    BY <2>3 DEF StreamKnown
  <2>4. ASSUME Restart PROVE StreamKnown'
    BY <2>4 DEF Restart, StreamKnown
  <2>5. ASSUME NEW o \in Orders, Submit(o) PROVE KeyTaken' /\ StreamKnown'
    BY <2>0, <2>3, <2>5, NewRowKey DEF Submit
  <2>6. ASSUME NEW o \in Orders, CrashInSubmit(o) PROVE KeyTaken' /\ StreamKnown'
    BY <2>0, <2>4, <2>6, NewRowKey DEF CrashInSubmit
  <2>7. ASSUME Crash PROVE KeyTaken' /\ StreamKnown'
    BY <2>2, <2>4, <2>7 DEF Crash
  <2>8. ASSUME NEW o \in Orders, SubmitReply(o) \/ Failed(o) PROVE KeyTaken' /\ StreamKnown'
    <3>1. row[o] # "NONE"
      BY <2>8 DEF Inv1, SentOnce, SubmitReply, Failed
    <3>. QED
      BY <2>0, <2>1, <2>3, <2>8, <3>1, ReportNoRow DEF SubmitReply, Failed
  <2>9. ASSUME NEW p \in Askers, QueryReply(p) PROVE KeyTaken' /\ StreamKnown'
    <3>1. query[p].order \in Orders /\ row[query[p].order] # "NONE"
      BY <2>0, <2>9 DEF Inv1, SentOnce, QueryReply, TypeOK
    <3>2. \/ UNCHANGED row
          \/ \E s, n : Report(query[p].order, s, n)
      BY <2>9 DEF QueryReply
    <3>3. KeyTaken'
      BY <2>0, <2>1, <2>2, <3>1, <3>2, ReportNoRow
    <3>. QED
      BY <2>3, <2>9, <3>3 DEF QueryReply
  <2>10. ASSUME CancelReply PROVE KeyTaken' /\ StreamKnown'
    <3>. DEFINE q == query["canceller"]
    <3>1. q.order \in Orders /\ row[q.order] # "NONE"
      BY <2>0, <2>10 DEF Inv1, SentOnce, CancelReply, TypeOK, Askers
    <3>2. \/ UNCHANGED row
          \/ Report(q.order, q.status, q.qty)
      BY <2>10 DEF CancelReply
    <3>3. KeyTaken'
      BY <2>0, <2>1, <2>2, <3>1, <3>2, ReportNoRow
    <3>4. UNCHANGED <<ex, stream>>
      BY <2>10 DEF CancelReply
    <3>. QED
      BY <2>3, <3>3, <3>4
  <2>11. ASSUME OnEvent PROVE KeyTaken' /\ StreamKnown'
    <3>. DEFINE e == Head(stream)
    <3>1. /\ stream \in Seq(Event) /\ stream # <<>>
          /\ stream' = Tail(stream) /\ UNCHANGED ex
          /\ Report(e.order, e.status, e.qty)
      BY <2>0, <2>11 DEF OnEvent, TypeOK
    <3>2. e = stream[1] /\ Len(stream) >= 1 /\ e \in Event
      BY <3>1
    <3>3. e.order \in Orders /\ ex[e.order] # "NONE"
      BY <3>2 DEF StreamKnown, Event
    <3>4. row[e.order] # "NONE"
      BY <3>3 DEF Inv1, WriteAhead
    <3>5. KeyTaken'
      BY <2>0, <2>1, <3>1, <3>3, <3>4, ReportNoRow
    <3>6. StreamKnown'
      BY <3>1, <3>2 DEF StreamKnown
    <3>. QED
      BY <3>5, <3>6
  <2>12. ASSUME NEW o \in Orders, Arrive(o) PROVE KeyTaken' /\ StreamKnown'
    <3>1. "NEW" \in OPEN \cup TERMINAL /\ 0 \in 0..MaxQty
      BY DEF OPEN
    <3>. QED
      BY <2>0, <2>2, <2>12, <3>1, BecomesKnown DEF Arrive
  <2>13. ASSUME NEW o \in Orders, Fill(o) PROVE KeyTaken' /\ StreamKnown'
    <3>1. PICK s \in OPEN \cup TERMINAL, n \in 0..MaxQty : Becomes(o, s, n)
      BY <2>0, <2>13 DEF Fill, TypeOK, OPEN, TERMINAL
    <3>. QED
      BY <2>0, <2>2, <2>13, <3>1, BecomesKnown DEF Fill
  <2>14. ASSUME NEW o \in Orders, Expire(o) PROVE KeyTaken' /\ StreamKnown'
    <3>1. PICK s \in OPEN \cup TERMINAL : Becomes(o, s, exQty[o])
      BY <2>14 DEF Expire, TERMINAL
    <3>2. exQty[o] \in 0..MaxQty
      BY <2>0 DEF TypeOK
    <3>. QED
      BY <2>0, <2>2, <2>14, <3>1, <3>2, BecomesKnown DEF Expire
  <2>15. ASSUME CancelArrives PROVE KeyTaken' /\ StreamKnown'
    <3>. DEFINE o == query["canceller"].order
    <3>1. o \in Orders /\ exQty[o] \in 0..MaxQty /\ "CANCELED" \in OPEN \cup TERMINAL
      BY <2>0, <2>15 DEF CancelArrives, TypeOK, Askers, TERMINAL
    <3>2. UNCHANGED row
      BY <2>15 DEF CancelArrives
    <3>3. CASE ex[o] \in OPEN
      BY <2>0, <2>2, <2>15, <3>1, <3>2, <3>3, BecomesKnown DEF CancelArrives
    <3>4. CASE ex[o] \notin OPEN
      BY <2>2, <2>3, <2>15, <3>2, <3>4 DEF CancelArrives
    <3>. QED
      BY <3>3, <3>4
  <2>16. ASSUME NEW o \in Orders, Refuse(o) PROVE KeyTaken' /\ StreamKnown'
    <3>1. \A u \in Orders : ex[u] # "NONE" => ex'[u] # "NONE"
      BY <2>0, <2>16 DEF Refuse, TypeOK
    <3>2. StreamKnown'
      BY <2>0, <2>16, <3>1, StreamOrders DEF Refuse, StreamKnown
    <3>. QED
      BY <2>2, <2>16, <3>2 DEF Refuse
  <2>17. ASSUME Disconnect PROVE KeyTaken' /\ StreamKnown'
    BY <2>2, <2>17 DEF Disconnect, StreamKnown
  <2>18. ASSUME UNCHANGED <<row, ex, stream>> PROVE KeyTaken' /\ StreamKnown'
    BY <2>2, <2>3, <2>18
  <2>19. ASSUME NEW o \in Orders, Sign(o) \/ Lose(o) \/ Respond(o) \/ Tick(o) \/ Cancel(o)
         PROVE  UNCHANGED <<row, ex, stream>>
    BY <2>19 DEF Sign, Lose, Respond, Tick, Cancel
  <2>20. ASSUME NEW p \in Askers, Ask(p) \/ Answer(p) \/ QueryFails(p)
         PROVE  UNCHANGED <<row, ex, stream>>
    BY <2>20 DEF Ask, Answer, QueryFails
  <2>21. ASSUME \/ Connect \/ ResolveUnknown \/ Reconcile \/ ReconcileFails \/ CancelFails
                \/ UNCHANGED vars
         PROVE  UNCHANGED <<row, ex, stream>>
    BY <2>21 DEF Connect, ResolveUnknown, Reconcile, ReconcileFails, CancelFails, vars
  <2>. QED
    BY <2>5, <2>6, <2>7, <2>8, <2>9, <2>10, <2>11, <2>12, <2>13, <2>14, <2>15, <2>16, <2>17,
       <2>18, <2>19, <2>20, <2>21 DEF Next, OrderStep, AskStep
<1>3. Inv1 /\ KeyTaken => OneOrderPerKey
  BY DEF Inv1, WriteAhead, KeyTaken, OneOrderPerKey
<1>. QED
  BY <1>1, <1>2, <1>3, Inv1Holds, PTL DEF Spec

-----------------------------------------------------------------------------
(* The table and the exchange.  Only a process that does not wait for      *)
(* request weight and gets its answers within an age step may trust the    *)
(* grace period; nothing else is assumed.                                  *)

TableTrue == RowLags /\ ClosedIsClosed /\ Settled /\ NoAnomaly

Inv2 == Inv1 /\ ReportsAreTrue /\ NotFoundIsGone /\ TableTrue

(* The reports that reach the table: one that was true when it was made,   *)
(* doubt, or the verdict on an order that is gone.                         *)
Credible(o, s, n) ==
  \/ Told(o, s, n)
  \/ s = "UNKNOWN" /\ n = 0 /\ row[o] # "PENDING"
  \/ Gone(o) /\ n = 0 /\ s = IF o \in Algo THEN "EXPIRED" ELSE "REJECTED"

LEMMA Statuses ==
  /\ OPEN \cap TERMINAL = {}
  /\ "NONE" \notin OPEN \cup TERMINAL
  /\ "NOT_FOUND" \notin OPEN \cup TERMINAL
  /\ OPEN \cup TERMINAL \subseteq OrderStatus
  /\ {"PENDING", "SENT", "UNKNOWN"} \cap (OPEN \cup TERMINAL) = {}
  /\ OrderStatus = OPEN \cup TERMINAL \cup {"PENDING", "SENT", "UNKNOWN"}
  /\ "REJECTED" \in TERMINAL /\ "EXPIRED" \in TERMINAL /\ "CANCELED" \in TERMINAL
  /\ "FILLED" \in TERMINAL /\ "NEW" \in OPEN /\ "PARTIALLY_FILLED" \in OPEN
  BY DEF OPEN, TERMINAL, OrderStatus

(* No credible report on a regular order is refused.                       *)
LEMMA CredibleIsLegal ==
  ASSUME Inv1, TableTrue, NEW o \in Orders \ Algo, row[o] # "NONE", NEW s, NEW n,
         Credible(o, s, n)
  PROVE  ~ Illegal(row[o], s)
<1>1. row[o] \in OrderStatus /\ ex[o] \in ExStatus
  BY DEF Inv1, TypeOK, RowStatus
<1>2. CASE Told(o, s, n)
  <2>1. row[o] # "PENDING"
    BY <1>2 DEF Inv1, WriteAhead, Told
  <2>2. s \in OPEN \cup TERMINAL
    BY <1>2 DEF Told
  <2>3. row[o] \in TERMINAL /\ s \in TERMINAL => s = row[o]
    <3>. SUFFICES ASSUME row[o] \in TERMINAL, s \in TERMINAL PROVE s = row[o]
      OBVIOUS
    <3>1. ex[o] = s /\ ex[o] # "NONE"
      BY <1>2 DEF Told
    <3>. QED
      BY <3>1 DEF TableTrue, Settled
  <2>4. row[o] \in OPEN => s # "REJECTED"
    BY <1>2, Statuses DEF Told, TableTrue, RowLags
  <2>. QED
    BY <1>1, <2>1, <2>2, <2>3, <2>4, ReportIsLegal
<1>3. CASE s = "UNKNOWN" /\ row[o] # "PENDING"
  BY <1>1, <1>3, DoubtIsLegal
<1>4. CASE Gone(o) /\ s = "REJECTED"
  <2>1. ex[o] \in {"NONE", "REJECTED"}
    BY <1>4 DEF Gone
  <2>2. row[o] \notin OPEN
    BY <2>1 DEF TableTrue, RowLags
  <2>3. row[o] \in TERMINAL => row[o] = "REJECTED"
    BY <2>1, Statuses DEF TableTrue, Settled
  <2>4. row[o] \in (OrderStatus \ (OPEN \cup TERMINAL)) \cup {"REJECTED"}
    BY <1>1, <2>2, <2>3
  <2>. QED
    BY <1>4, <2>4, RefusalIsLegal
<1>. QED
  BY <1>2, <1>3, <1>4 DEF Credible

(* A credible report leaves the table true, while nothing else happens.    *)
LEMMA ReportKeepsTrue ==
  ASSUME Inv1, TableTrue, NEW o \in Orders, row[o] # "NONE",
         NEW s \in OrderStatus, NEW n \in 0..MaxQty, Credible(o, s, n), Report(o, s, n),
         UNCHANGED <<net, ex, exQty>>,
         \A u \in Orders : call'[u].stage = "budget" => call[u].stage = "budget"
  PROVE  TableTrue'
<1>0. /\ row \in [Orders -> RowStatus] /\ filled \in [Orders -> 0..MaxQty]
      /\ exQty \in [Orders -> 0..MaxQty]
  BY DEF Inv1, TypeOK
<1>1. \A u \in Orders : u # o => row'[u] = row[u] /\ filled'[u] = filled[u]
  BY <1>0 DEF Report
<1>2. /\ row'[o] = advance(row[o], s)
      /\ filled'[o] = IF ~ Illegal(row[o], s) /\ n >= filled[o] THEN n ELSE filled[o]
  BY <1>0 DEF Report
<1>3. row'[o] \in {row[o], s}
  BY <1>2, AdvanceResult
<1>4. n <= exQty[o] /\ filled'[o] <= exQty[o]
  <2>1. n <= exQty[o]
    BY <1>0 DEF Credible, Told
  <2>2. filled[o] <= exQty[o]
    BY DEF TableTrue, RowLags
  <2>. QED
    BY <1>2, <2>1, <2>2
<1>5. RowLags'
  <2>1. row'[o] \in OPEN => ex[o] \notin {"NONE", "REJECTED"}
    BY <1>3, Statuses DEF TableTrue, RowLags, Credible, Told
  <2>. QED
    BY <1>1, <1>4, <2>1 DEF TableTrue, RowLags
<1>6. ClosedIsClosed'
  <2>. SUFFICES ASSUME row'[o] \in TERMINAL
                PROVE  ex[o] \notin OPEN /\ net[o] # "wire" /\ call[o].stage # "budget"
    BY <1>1 DEF TableTrue, ClosedIsClosed
  <2>1. CASE row[o] \in TERMINAL
    BY <2>1 DEF TableTrue, ClosedIsClosed
  <2>2. CASE row[o] \notin TERMINAL
    <3>1. s \in TERMINAL
      BY <1>3, <2>2
    <3>2. CASE Told(o, s, n)
      BY <3>1, <3>2, Statuses DEF Told, Inv1, SentOnce
    <3>3. CASE Gone(o)
      BY <3>3 DEF Gone
    <3>. QED
      BY <3>1, <3>2, <3>3, Statuses DEF Credible
  <2>. QED
    BY <2>1, <2>2
<1>7. Settled'
  <2>. SUFFICES ASSUME o \notin Algo, row'[o] \in TERMINAL
                PROVE  /\ row'[o] = "REJECTED" => ex[o] \in {"NONE", "REJECTED"}
                       /\ row'[o] # "REJECTED" => ex[o] = row'[o]
                       /\ filled'[o] = exQty[o]
    BY <1>1 DEF TableTrue, Settled
  <2>0. ~ Illegal(row[o], s)
    BY CredibleIsLegal
  <2>1. CASE row[o] \in TERMINAL
    <3>1. row'[o] = row[o]
      BY <1>2, <2>1, AdvanceStays
    <3>2. filled[o] = exQty[o]
      BY <2>1 DEF TableTrue, Settled
    <3>3. filled'[o] = exQty[o]
      BY <1>0, <1>2, <1>4, <3>2
    <3>. QED
      BY <2>1, <3>1, <3>3 DEF TableTrue, Settled
  <2>2. CASE row[o] \notin TERMINAL
    <3>1. s \in TERMINAL /\ row'[o] = s
      BY <1>3, <2>2
    <3>2. CASE Told(o, s, n)
      <4>1. ex[o] = s /\ n = exQty[o]
        BY <3>1, <3>2 DEF Told
      <4>2. filled'[o] = exQty[o]
        BY <1>0, <1>2, <1>4, <2>0, <4>1 DEF TableTrue, RowLags
      <4>. QED
        BY <3>1, <4>1, <4>2
    <3>3. CASE Gone(o) /\ n = 0 /\ s = "REJECTED"
      <4>1. ex[o] \in {"NONE", "REJECTED"}
        BY <3>3 DEF Gone
      <4>2. exQty[o] = 0
        BY <4>1 DEF TableTrue, RowLags
      <4>. QED
        BY <1>0, <1>2, <1>4, <3>1, <3>3, <4>1, <4>2 DEF TableTrue, RowLags
    <3>. QED
      BY <3>1, <3>2, <3>3, Statuses DEF Credible
  <2>. QED
    BY <2>1, <2>2
<1>8. NoAnomaly'
  BY CredibleIsLegal DEF Report, TableTrue, NoAnomaly
<1>. QED
  BY <1>5, <1>6, <1>7, <1>8 DEF TableTrue

(* A question is put, dropped, or answered truly.                          *)
TrueAnswers ==
  \A p \in Askers :
    \/ query'[p] = query[p]
    \/ query'[p].stage \in {"idle", "delete", "asked"}
    \/ /\ query'[p].status # "NOT_FOUND" =>
            Told(query[p].order, query[p].status, query[p].qty)'
       /\ query'[p].stage = "answered" =>
            /\ age'[query'[p].order] <= query'[p].at + 1
            /\ (query'[p].status = "NOT_FOUND" /\ query'[p].at > 0) => Gone(query[p].order)'

TrueCalls ==
  \A o \in Orders :
    \/ call'[o] = call[o]
    \/ call'[o].stage = "answered" => Told(o, call[o].status, call[o].qty)'

QuietStream ==
  stream' = stream \/ stream' = <<>> \/ (stream # <<>> /\ stream' = Tail(stream))

(* A report that was true stays true, and nothing returns from the dead.   *)
ToldStays ==
  \A u \in Orders : \A s : \A n \in 0..MaxQty : Told(u, s, n) => Told(u, s, n)'

GoneStays == \A u \in Orders : row[u] # "NONE" /\ Gone(u) => Gone(u)'

StreamStep ==
  /\ stream' \in Seq(Event)
  /\ \A i \in 1..Len(stream') :
       \/ \E j \in 1..Len(stream) : stream'[i] = stream[j]
       \/ Told(stream[i].order, stream[i].status, stream[i].qty)'

LEMMA StreamEvents ==
  ASSUME TypeOK, NEW i \in 1..Len(stream)
  PROVE  /\ stream[i] \in Event /\ stream[i].order \in Orders
         /\ stream[i].status \in OPEN \cup TERMINAL /\ stream[i].qty \in 0..MaxQty
<1>1. stream \in Seq(Event)
  BY DEF TypeOK
<1>2. stream[i] \in Event
  BY <1>1
<1>. QED
  BY <1>2 DEF Event

LEMMA QuietStreamStep ==
  ASSUME TypeOK, QuietStream
  PROVE  StreamStep
<1>1. stream \in Seq(Event)
  BY DEF TypeOK
<1>2. CASE stream' = stream
  BY <1>1, <1>2 DEF StreamStep
<1>3. CASE stream' = <<>>
  BY <1>3, EmptyStream DEF StreamStep
<1>4. CASE stream # <<>> /\ stream' = Tail(stream)
  <2>1. stream' \in Seq(Event) /\ \A i \in 1..Len(stream') : stream'[i] = stream[i + 1]
    BY <1>1, <1>4
  <2>2. \A i \in 1..Len(stream') : i + 1 \in 1..Len(stream)
    BY <1>1, <1>4
  <2>. QED
    BY <2>1, <2>2 DEF StreamStep
<1>. QED
  BY <1>2, <1>3, <1>4 DEF QuietStream

(* Reports under way stay true if what they say does.                      *)
LEMMA ReportsFrame ==
  ASSUME TypeOK, ReportsAreTrue, TrueAnswers, TrueCalls, StreamStep, ToldStays
  PROVE  ReportsAreTrue'
<1>1. ASSUME NEW o \in Orders, call'[o].stage = "answered"
      PROVE  Told(o, call[o].status, call[o].qty)'
  <2>. SUFFICES ASSUME call'[o] = call[o]
                PROVE  Told(o, call[o].status, call[o].qty)'
    BY <1>1 DEF TrueCalls
  <2>1. call[o].qty \in 0..MaxQty
    BY DEF TypeOK, Call
  <2>2. Told(o, call[o].status, call[o].qty)
    BY <1>1 DEF ReportsAreTrue
  <2>. QED
    BY <2>1, <2>2 DEF ToldStays
<1>2. ASSUME NEW p \in Askers, query'[p].stage \in {"deleted", "answered"},
             query'[p].status # "NOT_FOUND"
      PROVE  Told(query[p].order, query[p].status, query[p].qty)'
  <2>. SUFFICES ASSUME query'[p] = query[p]
                PROVE  Told(query[p].order, query[p].status, query[p].qty)'
    BY <1>2 DEF TrueAnswers
  <2>1. query[p].order \in Orders /\ query[p].qty \in 0..MaxQty
    BY <1>2 DEF TypeOK, Query
  <2>2. Told(query[p].order, query[p].status, query[p].qty)
    BY <1>2 DEF ReportsAreTrue
  <2>. QED
    BY <2>1, <2>2 DEF ToldStays
<1>3. ASSUME NEW i \in 1..Len(stream')
      PROVE  Told(stream[i].order, stream[i].status, stream[i].qty)'
  <2>1. CASE \E j \in 1..Len(stream) : stream'[i] = stream[j]
    <3>1. PICK j \in 1..Len(stream) : stream'[i] = stream[j]
      BY <2>1
    <3>2. stream[j].order \in Orders /\ stream[j].qty \in 0..MaxQty
      BY StreamEvents
    <3>3. Told(stream[j].order, stream[j].status, stream[j].qty)
      BY DEF ReportsAreTrue
    <3>. QED
      BY <3>1, <3>2, <3>3 DEF ToldStays
  <2>. QED
    BY <1>3, <2>1 DEF StreamStep
<1>. QED
  BY <1>1, <1>2, <1>3 DEF ReportsAreTrue

LEMMA NotFoundFrame ==
  ASSUME Inv1, NotFoundIsGone, TrueAnswers, GoneStays, UNCHANGED age,
         \A o \in Orders :
           (row'[o] = "NONE" \/ net'[o] = "wire" \/ call'[o].stage = "budget") =>
             (row[o] = "NONE" \/ net[o] = "wire" \/ call[o].stage = "budget")
  PROVE  NotFoundIsGone'
<1>1. ASSUME NEW o \in Orders, row'[o] = "NONE" \/ net'[o] = "wire" \/ call'[o].stage = "budget"
      PROVE  age'[o] = 0
  BY <1>1 DEF NotFoundIsGone
<1>2. ASSUME NEW p \in Askers, query'[p].stage = "answered"
      PROVE  /\ age'[query'[p].order] <= query'[p].at + 1
             /\ (query'[p].status = "NOT_FOUND" /\ query'[p].at > 0) => Gone(query[p].order)'
  <2>1. CASE query'[p] # query[p]
    BY <1>2, <2>1 DEF TrueAnswers
  <2>. SUFFICES ASSUME query'[p] = query[p]
                PROVE  /\ age[query[p].order] <= query[p].at + 1
                       /\ (query[p].status = "NOT_FOUND" /\ query[p].at > 0) =>
                            Gone(query[p].order)'
    BY <2>1
  <2>2. query[p].order \in Orders /\ row[query[p].order] # "NONE"
    BY <1>2 DEF Inv1, TypeOK, SentOnce
  <2>3. Gone(query[p].order) => Gone(query[p].order)'
    BY <2>2 DEF GoneStays
  <2>. QED
    BY <1>2, <2>3 DEF NotFoundIsGone
<1>. QED
  BY <1>1, <1>2 DEF NotFoundIsGone

(* What the exchange does not see leaves the reports as they are.          *)
LEMMA QuietFrame ==
  ASSUME Inv2, TrueAnswers, TrueCalls, QuietStream, UNCHANGED <<net, age, ex, exQty>>,
         \A u \in Orders : /\ row'[u] = "NONE" => row[u] = "NONE"
                           /\ call'[u].stage = "budget" => call[u].stage = "budget"
  PROVE  ReportsAreTrue' /\ NotFoundIsGone'
<1>1. ToldStays
  BY DEF ToldStays, Told
<1>2. GoneStays
  BY DEF GoneStays, Gone
<1>. QED
  BY <1>1, <1>2, ReportsFrame, NotFoundFrame, QuietStreamStep DEF Inv2, Inv1

LEMMA TableFrame ==
  ASSUME Inv2, UNCHANGED <<table, ex, exQty>>,
         \A u \in Orders : row[u] \in TERMINAL => net'[u] # "wire" /\ call'[u].stage # "budget"
  PROVE  TableTrue'
  BY DEF table, Inv2, TableTrue, RowLags, ClosedIsClosed, Settled, NoAnomaly

(* Steps that only put or drop questions.                                  *)
LEMMA AskingFrame ==
  ASSUME Inv2, TrueAnswers, UNCHANGED <<table, call, world>>
  PROVE  ReportsAreTrue' /\ NotFoundIsGone' /\ TableTrue'
<1>1. TableTrue'
  BY TableFrame DEF world, Inv2, TableTrue, ClosedIsClosed
<1>. QED
  BY <1>1, QuietFrame DEF table, world, TrueCalls, QuietStream

LEMMA ContinueAnswers ==
  ASSUME NEW p \in Askers, NEW left, Inv2, Continue(p, left)
  PROVE  TrueAnswers
  BY NoQueryType DEF Continue, TrueAnswers, Inv2, Inv1, TypeOK

(* The exchange takes an order that was under way, or goes on with one.    *)
LEMMA BecomesKeeps ==
  ASSUME Inv2, NEW o \in Orders, NEW s \in (OPEN \cup TERMINAL) \ {"REJECTED"},
         NEW n \in 0..MaxQty, Becomes(o, s, n), exQty[o] <= n,
         \/ ex[o] \in OPEN /\ s # "NEW"
         \/ net[o] = "wire" /\ s = "NEW",
         o \in Algo => s # "PARTIALLY_FILLED" /\ n = 0,
         UNCHANGED <<table, call, age>>, TrueAnswers,
         \A u \in Orders : net'[u] = "wire" => net[u] = "wire"
  PROVE  ReportsAreTrue' /\ NotFoundIsGone' /\ TableTrue'
<1>. USE DEF table
<1>0. TypeOK /\ s # "NONE" /\ s # "REJECTED"
  BY Statuses DEF Inv2, Inv1
<1>1. /\ ex'[o] = s /\ exQty'[o] = n
      /\ \A u \in Orders : u # o => ex'[u] = ex[u] /\ exQty'[u] = exQty[u]
  BY <1>0 DEF Becomes, TypeOK
<1>2. \A t, m : Told(o, t, m) => ex[o] \in OPEN /\ t \in OPEN /\ s # "NEW"
  BY Statuses DEF Told, Inv2, Inv1, SentOnce
<1>3. ToldStays
  <2>1. ASSUME NEW u \in Orders, u # o, NEW t, NEW m \in 0..MaxQty, Told(u, t, m) PROVE Told(u, t, m)'
    BY <1>1, <2>1 DEF Told
  <2>2. ASSUME NEW t, NEW m \in 0..MaxQty, Told(o, t, m) PROVE Told(o, t, m)'
    <3>1. m <= exQty[o] /\ exQty[o] \in 0..MaxQty
      BY <1>0, <2>2 DEF Told, TypeOK
    <3>2. t \in OPEN /\ t \notin TERMINAL /\ s # "NEW"
      BY <1>2, <2>2, Statuses
    <3>. QED
      BY <1>0, <1>1, <2>2, <3>1, <3>2 DEF Told
  <2>. QED
    BY <2>1, <2>2 DEF ToldStays
<1>4. GoneStays
  BY <1>1, Statuses DEF GoneStays, Gone, Inv2, Inv1
<1>5. StreamStep
  <2>. DEFINE e == [order |-> o, status |-> s, qty |-> n]
  <2>1. e \in Event /\ stream \in Seq(Event)
    BY <1>0 DEF Event, TypeOK
  <2>2. Told(o, s, n)'
    BY <1>0, <1>1 DEF Told
  <2>3. CASE stream' = stream
    BY <2>1, <2>3 DEF StreamStep
  <2>4. CASE stream' = Append(stream, e)
    <3>1. stream' \in Seq(Event)
      BY <2>1, <2>4
    <3>2. ASSUME NEW i \in 1..Len(stream')
          PROVE  \/ \E j \in 1..Len(stream) : stream'[i] = stream[j]
                 \/ stream'[i] = e
      BY <2>1, <2>4
    <3>. QED
      BY <2>2, <3>1, <3>2 DEF StreamStep
  <2>. QED
    BY <2>3, <2>4 DEF Becomes
<1>6. ReportsAreTrue' /\ NotFoundIsGone'
  BY <1>0, <1>3, <1>4, <1>5, ReportsFrame, NotFoundFrame DEF Inv2, TrueCalls
<1>7. TableTrue'
  <2>1. row[o] \notin TERMINAL
    BY DEF Inv2, TableTrue, ClosedIsClosed
  <2>2. filled[o] <= exQty[o] /\ filled[o] \in 0..MaxQty /\ exQty[o] \in 0..MaxQty
    BY <1>0 DEF Inv2, TableTrue, RowLags, TypeOK
  <2>3. RowLags'
    BY <1>0, <1>1, <2>2 DEF Inv2, TableTrue, RowLags
  <2>4. ClosedIsClosed' /\ Settled'
    BY <1>1, <2>1 DEF Inv2, TableTrue, ClosedIsClosed, Settled
  <2>. QED
    BY <2>3, <2>4 DEF Inv2, TableTrue, NoAnomaly
<1>. QED
  BY <1>6, <1>7

(* The steps that bring a report to the table.                             *)
LEMMA ReportStep ==
  ASSUME Inv2, NEW o \in Orders, row[o] # "NONE", NEW s \in OrderStatus, NEW n \in 0..MaxQty,
         Credible(o, s, n), Report(o, s, n), TrueAnswers, TrueCalls, QuietStream,
         UNCHANGED <<net, age, ex, exQty>>,
         \A u \in Orders : call'[u].stage = "budget" => call[u].stage = "budget"
  PROVE  ReportsAreTrue' /\ NotFoundIsGone' /\ TableTrue'
<1>1. \A u \in Orders : row'[u] = "NONE" => row[u] = "NONE"
  BY AdvanceResult, Statuses DEF Report, Inv2, Inv1, TypeOK
<1>. QED
  BY <1>1, ReportKeepsTrue, QuietFrame DEF Inv2

LEMMA NoCallBudget ==
  ASSUME TypeOK, NEW o \in Orders, call' = [call EXCEPT ![o] = NoCall]
  PROVE  /\ TrueCalls
         /\ \A u \in Orders : call'[u].stage = "budget" => call[u].stage = "budget"
  BY NoCallType DEF TrueCalls, TypeOK

LEMMA RestartQuiet ==
  ASSUME TypeOK, Restart
  PROVE  /\ TrueAnswers /\ TrueCalls /\ QuietStream
         /\ \A u \in Orders : call'[u].stage # "budget"
         /\ UNCHANGED <<filled, anomalies, net, age, ex, exQty>>
  BY RestartType DEF Restart, TrueAnswers, TrueCalls, QuietStream

(* Inv2 is inductive, step by step.                                        *)
LEMMA Inv2Step ==
  ASSUME ~ BudgetBlocks, ~ SlowAnswers, Inv2, [Next]_vars
  PROVE  ReportsAreTrue' /\ NotFoundIsGone' /\ TableTrue'
<1>. DEFINE Goal == ReportsAreTrue' /\ NotFoundIsGone' /\ TableTrue'
<1>0. TypeOK /\ WriteAhead /\ SentOnce
  BY DEF Inv2, Inv1
<1>. USE DEF world
<1>1. ASSUME NEW o \in Orders, Submit(o) PROVE Goal
  <2>1. /\ row[o] = "NONE" /\ row'[o] = "SENT" /\ call'[o].stage = "budget"
        /\ \A u \in Orders : u # o => row'[u] = row[u] /\ call'[u] = call[u]
        /\ UNCHANGED <<filled, anomalies, query, net, age, ex, exQty, stream>>
    BY <1>0, <1>1 DEF Submit, Accepts, TypeOK, Call
  <2>2. ToldStays /\ TrueCalls /\ TrueAnswers /\ QuietStream
    BY <2>1 DEF ToldStays, Told, TrueCalls, TrueAnswers, QuietStream
  <2>3. GoneStays
    BY <2>1 DEF GoneStays, Gone
  <2>4. ReportsAreTrue'
    BY <1>0, <2>2, ReportsFrame, QuietStreamStep DEF Inv2
  <2>5. NotFoundIsGone'
    BY <2>1, <2>2, <2>3, NotFoundFrame DEF Inv2
  <2>6. TableTrue'
    BY <2>1, Statuses DEF Inv2, TableTrue, RowLags, ClosedIsClosed, Settled, NoAnomaly
  <2>. QED
    BY <2>4, <2>5, <2>6
<1>2. ASSUME NEW o \in Orders, Sign(o) PROVE Goal
  <2>1. /\ call[o].stage = "budget" /\ call'[o].stage = "await"
        /\ \A u \in Orders : u # o => net'[u] = net[u] /\ call'[u] = call[u]
        /\ UNCHANGED <<table, query, age, ex, exQty, stream>>
    BY <1>0, <1>2 DEF Sign, TypeOK, Call
  <2>2. ToldStays /\ TrueCalls /\ TrueAnswers /\ QuietStream
    BY <2>1 DEF ToldStays, Told, TrueCalls, TrueAnswers, QuietStream
  <2>3. GoneStays
    BY <2>1 DEF GoneStays, Gone
  <2>4. ReportsAreTrue'
    BY <1>0, <2>2, ReportsFrame, QuietStreamStep DEF Inv2
  <2>5. NotFoundIsGone'
    BY <2>1, <2>2, <2>3, NotFoundFrame DEF Inv2, table
  <2>6. TableTrue'
    BY <2>1, TableFrame DEF Inv2, TableTrue, ClosedIsClosed
  <2>. QED
    BY <2>4, <2>5, <2>6
<1>3. ASSUME NEW o \in Orders, SubmitReply(o) PROVE Goal
  <2>1. /\ Told(o, call[o].status, call[o].qty)
        /\ call[o].status \in OrderStatus /\ call[o].qty \in 0..MaxQty
        /\ row[o] # "NONE"
    BY <1>0, <1>3, Statuses DEF SubmitReply, Inv2, ReportsAreTrue, Told, TypeOK, Call, SentOnce
  <2>. QED
    BY <1>0, <1>3, <2>1, ReportStep, NoCallBudget
    DEF SubmitReply, Credible, TrueAnswers, QuietStream
<1>4. ASSUME NEW o \in Orders, Failed(o) PROVE Goal
  <2>1. row[o] \notin {"NONE", "PENDING"} /\ "UNKNOWN" \in OrderStatus
    BY <1>0, <1>4, Statuses DEF Failed, SentOnce
  <2>2. Credible(o, "UNKNOWN", 0) /\ 0 \in 0..MaxQty
    BY <2>1 DEF Credible
  <2>3. /\ Report(o, "UNKNOWN", 0) /\ call' = [call EXCEPT ![o] = NoCall]
        /\ UNCHANGED <<query, net, age, ex, exQty, stream>>
    BY <1>4 DEF Failed
  <2>. QED
    BY <1>0, <2>1, <2>2, <2>3, ReportStep, NoCallBudget DEF TrueAnswers, QuietStream
<1>5. ASSUME NEW o \in Orders, Arrive(o) PROVE Goal
  <2>1. ex[o] = "NONE" /\ exQty[o] = 0
    BY <1>0, <1>5 DEF Arrive, SentOnce, Inv2, TableTrue, RowLags
  <2>2. \A u \in Orders : net'[u] = "wire" => net[u] = "wire"
    BY <1>0, <1>5 DEF Arrive, TypeOK
  <2>. QED
    BY <1>5, <2>1, <2>2, BecomesKeeps, Statuses DEF Arrive, memory, TrueAnswers
<1>6. ASSUME NEW o \in Orders, Refuse(o) PROVE Goal
  <2>1. /\ net[o] = "wire" /\ ex[o] = "NONE" /\ ex'[o] = "REJECTED" /\ net'[o] = "gone"
        /\ \A u \in Orders : u # o => ex'[u] = ex[u] /\ net'[u] = net[u]
        /\ UNCHANGED <<row, filled, anomalies, call, query, age, exQty, stream>>
    BY <1>0, <1>6 DEF Refuse, TypeOK, SentOnce, table, memory
  <2>2. ToldStays /\ TrueCalls /\ TrueAnswers /\ QuietStream
    BY <2>1 DEF ToldStays, Told, TrueCalls, TrueAnswers, QuietStream
  <2>3. GoneStays
    BY <2>1 DEF GoneStays, Gone
  <2>4. ReportsAreTrue'
    BY <1>0, <2>2, ReportsFrame, QuietStreamStep DEF Inv2
  <2>5. NotFoundIsGone'
    BY <2>1, <2>2, <2>3, NotFoundFrame DEF Inv2
  <2>6. TableTrue'
    BY <2>1, Statuses DEF Inv2, TableTrue, RowLags, ClosedIsClosed, Settled, NoAnomaly
  <2>. QED
    BY <2>4, <2>5, <2>6
<1>7. ASSUME NEW o \in Orders, Lose(o) PROVE Goal
  <2>1. /\ \A u \in Orders : net'[u] = "wire" => net[u] = "wire"
        /\ UNCHANGED <<table, call, query, age, ex, exQty, stream>>
    BY <1>0, <1>7 DEF Lose, TypeOK, memory
  <2>2. ToldStays /\ TrueCalls /\ TrueAnswers /\ QuietStream
    BY <2>1 DEF ToldStays, Told, TrueCalls, TrueAnswers, QuietStream
  <2>3. GoneStays
    BY <2>1 DEF GoneStays, Gone
  <2>4. ReportsAreTrue'
    BY <1>0, <2>2, ReportsFrame, QuietStreamStep DEF Inv2
  <2>5. NotFoundIsGone'
    BY <2>1, <2>2, <2>3, NotFoundFrame DEF Inv2, table
  <2>6. TableTrue'
    BY <2>1, TableFrame DEF Inv2, TableTrue, ClosedIsClosed
  <2>. QED
    BY <2>4, <2>5, <2>6
<1>8. ASSUME NEW o \in Orders, Respond(o) PROVE Goal
  <2>1. /\ call'[o] = [stage |-> "answered", status |-> ex[o], qty |-> exQty[o]]
        /\ \A u \in Orders : u # o => call'[u] = call[u]
        /\ UNCHANGED <<table, query, world>>
        /\ ex[o] \in OPEN \cup TERMINAL /\ exQty[o] \in 0..MaxQty
    BY <1>0, <1>8 DEF Respond, TypeOK, ExStatus
  <2>2. Told(o, call[o].status, call[o].qty)'
    BY <2>1, Statuses DEF Told
  <2>3. TrueCalls
    BY <2>1, <2>2 DEF TrueCalls
  <2>4. TableTrue'
    BY <2>1, TableFrame DEF Inv2, TableTrue, ClosedIsClosed
  <2>. QED
    BY <2>1, <2>3, <2>4, QuietFrame DEF table, TrueAnswers, QuietStream
<1>9. ASSUME NEW o \in Orders, Fill(o) PROVE Goal
  <2>1. ex[o] \in OPEN /\ exQty[o] \in 0..MaxQty /\ (o \in Algo => exQty[o] = 0)
    BY <1>0, <1>9 DEF Fill, Inv2, TableTrue, RowLags, TypeOK
  <2>2. PICK s \in {"FILLED", "PARTIALLY_FILLED"}, n \in 0..MaxQty :
          Becomes(o, s, n) /\ exQty[o] <= n /\ (o \in Algo => s = "FILLED" /\ n = 0)
    BY <1>9, <2>1 DEF Fill
  <2>3. UNCHANGED <<table, call, query, net, age>>
    BY <1>9 DEF Fill, memory
  <2>. QED
    BY <2>1, <2>2, <2>3, BecomesKeeps, Statuses DEF TrueAnswers
<1>10. ASSUME NEW o \in Orders, Expire(o) PROVE Goal
  <2>1. ex[o] \in OPEN /\ exQty[o] \in 0..MaxQty /\ (o \in Algo => exQty[o] = 0)
    BY <1>0, <1>10 DEF Expire, Inv2, TableTrue, RowLags, TypeOK
  <2>2. PICK s \in {"EXPIRED", "CANCELED"} : Becomes(o, s, exQty[o])
    BY <1>10 DEF Expire
  <2>3. UNCHANGED <<table, call, query, net, age>>
    BY <1>10 DEF Expire, memory
  <2>. QED
    BY <2>1, <2>2, <2>3, BecomesKeeps, Statuses DEF TrueAnswers
<1>11. ASSUME NEW o \in Orders, Tick(o) PROVE Goal
  <2>1. /\ row[o] # "NONE" /\ net[o] # "wire" /\ call[o].stage # "budget"
        /\ \A p \in Askers : (query[p].stage = "answered" /\ query[p].order = o) =>
                              query[p].at = age[o]
        /\ age'[o] = age[o] + 1
        /\ \A u \in Orders : u # o => age'[u] = age[u]
        /\ UNCHANGED <<table, memory, net, ex, exQty, stream>>
    <3>1. age \in [Orders -> 0..2]
      BY <1>0 DEF TypeOK
    <3>. QED
      BY <1>11, <3>1 DEF Tick
  <2>2. ReportsAreTrue'
    BY <2>1 DEF Inv2, ReportsAreTrue, Told, memory
  <2>3. NotFoundIsGone'
    <3>1. ASSUME NEW u \in Orders,
                 row'[u] = "NONE" \/ net'[u] = "wire" \/ call'[u].stage = "budget"
          PROVE  age'[u] = 0
      BY <2>1, <3>1 DEF Inv2, NotFoundIsGone, table, memory
    <3>2. ASSUME NEW p \in Askers, query'[p].stage = "answered"
          PROVE  /\ age'[query'[p].order] <= query'[p].at + 1
                 /\ (query'[p].status = "NOT_FOUND" /\ query'[p].at > 0) =>
                      Gone(query[p].order)'
      <4>1. query' = query /\ query[p].order \in Orders
        BY <1>0, <2>1, <3>2 DEF memory, TypeOK
      <4>2. /\ age[query[p].order] <= query[p].at + 1
            /\ (query[p].status = "NOT_FOUND" /\ query[p].at > 0) => Gone(query[p].order)
        BY <3>2, <4>1 DEF Inv2, NotFoundIsGone
      <4>3. age'[query[p].order] <= query[p].at + 1
        <5>1. query[p].at \in 0..2
          BY <1>0 DEF TypeOK, Query
        <5>. QED
          BY <2>1, <3>2, <4>1, <4>2, <5>1
      <4>4. Gone(query[p].order) => Gone(query[p].order)'
        BY <2>1 DEF Gone, memory
      <4>. QED
        BY <4>1, <4>2, <4>3, <4>4
    <3>. QED
      BY <3>1, <3>2 DEF NotFoundIsGone
  <2>4. TableTrue'
    BY <2>1, TableFrame DEF Inv2, TableTrue, ClosedIsClosed, memory
  <2>. QED
    BY <2>2, <2>3, <2>4
<1>12. ASSUME NEW o \in Orders, Cancel(o) PROVE Goal
  <2>1. TrueAnswers
    BY <1>0, <1>12, NoQueryType DEF Cancel, TrueAnswers, TypeOK, NoQuery
  <2>. QED
    BY <1>12, <2>1, AskingFrame DEF Cancel
<1>13. ASSUME NEW p \in Askers, Ask(p) PROVE Goal
  <2>1. TrueAnswers
    BY <1>0, <1>13 DEF Ask, TrueAnswers, TypeOK, NoQuery
  <2>. QED
    BY <1>13, <2>1, AskingFrame DEF Ask
<1>14. ASSUME NEW p \in Askers, QueryFails(p) PROVE Goal
  BY <1>14, ContinueAnswers, AskingFrame DEF QueryFails
<1>15. ASSUME ResolveUnknown \/ Reconcile \/ ReconcileFails \/ CancelFails PROVE Goal
  <2>1. TrueAnswers
    <3>1. CASE ReconcileFails
      BY <1>0, <3>1, NoQueryType DEF ReconcileFails, TrueAnswers, TypeOK
    <3>. QED
      BY <1>15, <3>1, ContinueAnswers DEF ResolveUnknown, Reconcile, CancelFails, Askers
  <2>. QED
    BY <1>15, <2>1, AskingFrame DEF ResolveUnknown, Reconcile, ReconcileFails, CancelFails
<1>16. ASSUME NEW p \in Askers, Answer(p) PROVE Goal
  <2>. DEFINE o == query[p].order
  <2>1. /\ o \in Orders /\ call[o].stage # "budget" /\ row[o] # "NONE"
        /\ UNCHANGED <<table, call, world>>
        /\ \A a \in Askers : a # p => query'[a] = query[a]
        /\ query'[p].stage = "answered" /\ query'[p].order = o /\ query'[p].at = age[o]
        /\ query'[p].status = IF Found(o) THEN ex[o] ELSE "NOT_FOUND"
        /\ query'[p].qty = IF Found(o) THEN exQty[o] ELSE 0
    <3>1. query[p] \in Query /\ query \in [Askers -> Query]
      BY <1>0 DEF TypeOK
    <3>. QED
      BY <1>0, <1>16, <3>1 DEF Answer, TypeOK, Query, SentOnce
  <2>2. /\ ex[o] \in OPEN \cup TERMINAL \cup {"NONE"}
        /\ exQty[o] \in 0..MaxQty /\ age[o] \in 0..2
    BY <1>0, <2>1 DEF TypeOK, ExStatus
  <2>3. Found(o) => Told(o, ex[o], exQty[o])'
    BY <2>1, <2>2, Statuses DEF Found, Told
  <2>4. ~ Found(o) /\ age[o] > 0 => Gone(o)'
    <3>. SUFFICES ASSUME ~ Found(o), age[o] > 0 PROVE Gone(o)
      BY <2>1 DEF Gone
    <3>1. net[o] # "wire"
      BY <2>1, <2>2 DEF Inv2, NotFoundIsGone
    <3>2. ex[o] \notin OPEN
      BY <2>1 DEF Found, Inv2, TableTrue, RowLags, OPEN
    <3>. QED
      BY <2>1, <3>1, <3>2 DEF Found, Gone
  <2>5. TrueAnswers
    BY <2>1, <2>2, <2>3, <2>4, Statuses DEF TrueAnswers
  <2>. QED
    BY <2>1, <2>5, AskingFrame
<1>17. ASSUME NEW p \in Askers, QueryReply(p) PROVE Goal
  <2>. DEFINE q == query[p]
              o == q.order
  <2>1. /\ o \in Orders /\ row[o] # "NONE" /\ q.qty \in 0..MaxQty /\ 0 \in 0..MaxQty
        /\ q.stage = "answered" /\ TrueAnswers /\ UNCHANGED <<call, world>>
    BY <1>0, <1>17, ContinueAnswers DEF QueryReply, TypeOK, SentOnce, Query
  <2>2. CASE q.status # "NOT_FOUND" /\ Report(o, q.status, q.qty)
    <3>1. Told(o, q.status, q.qty)
      BY <2>1, <2>2 DEF Inv2, ReportsAreTrue
    <3>2. Credible(o, q.status, q.qty) /\ q.status \in OrderStatus
      BY <3>1, Statuses DEF Credible, Told
    <3>. QED
      BY <2>1, <2>2, <3>2, ReportStep DEF TrueCalls, QuietStream
  <2>3. CASE q.status = "NOT_FOUND" /\ UNCHANGED table
    BY <2>1, <2>3, AskingFrame
  <2>4. CASE /\ q.status = "NOT_FOUND" /\ age[o] = 2
             /\ Report(o, IF o \in Algo THEN "EXPIRED" ELSE "REJECTED", 0)
    <3>1. q.at > 0
      <4>1. age[o] <= q.at + 1 /\ q.at \in 0..2
        BY <1>0, <2>1 DEF Inv2, NotFoundIsGone, TypeOK, Query
      <4>. QED
        BY <2>4, <4>1
    <3>2. Gone(o)
      BY <2>1, <2>4, <3>1 DEF Inv2, NotFoundIsGone
    <3>. DEFINE s == IF o \in Algo THEN "EXPIRED" ELSE "REJECTED"
    <3>3. Credible(o, s, 0) /\ s \in OrderStatus
      BY <3>2, Statuses DEF Credible
    <3>4. Report(o, s, 0)
      BY <2>4
    <3>. HIDE DEF s
    <3>. QED
      BY <2>1, <3>3, <3>4, ReportStep DEF TrueCalls, QuietStream
  <2>. QED
    BY <1>17, <2>2, <2>3, <2>4 DEF QueryReply
<1>18. ASSUME OnEvent PROVE Goal
  <2>. DEFINE e == Head(stream)
  <2>1. /\ stream # <<>> /\ stream' = Tail(stream) /\ Report(e.order, e.status, e.qty)
        /\ UNCHANGED <<call, query, net, age, ex, exQty>>
    BY <1>18 DEF OnEvent, memory
  <2>2. stream \in Seq(Event)
    BY <1>0 DEF TypeOK
  <2>3. e = stream[1] /\ 1 \in 1..Len(stream)
    BY <2>1, <2>2
  <2>4. e.order \in Orders /\ e.status \in OrderStatus /\ e.qty \in 0..MaxQty
    BY <1>0, <2>3, StreamEvents, Statuses
  <2>5. Told(e.order, e.status, e.qty)
    BY <2>3 DEF Inv2, ReportsAreTrue
  <2>6. Credible(e.order, e.status, e.qty) /\ row[e.order] # "NONE"
    BY <1>0, <2>4, <2>5 DEF Credible, Told, WriteAhead
  <2>. QED
    BY <2>1, <2>4, <2>6, ReportStep DEF TrueAnswers, TrueCalls, QuietStream
<1>19. ASSUME Disconnect \/ Connect \/ UNCHANGED vars PROVE Goal
  <2>1. UNCHANGED <<table, call, query, net, age, ex, exQty>> /\ QuietStream
    BY <1>19 DEF Disconnect, Connect, vars, memory, QuietStream
  <2>2. TableTrue'
    BY <2>1, TableFrame DEF Inv2, TableTrue, ClosedIsClosed
  <2>. QED
    BY <2>1, <2>2, QuietFrame DEF table, TrueAnswers, TrueCalls
<1>20. ASSUME CancelArrives PROVE Goal
  <2>. DEFINE q == query["canceller"]
              o == q.order
  <2>1. /\ o \in Orders /\ q.stage = "delete" /\ q \in Query /\ query \in [Askers -> Query]
        /\ "canceller" \in Askers
        /\ exQty[o] \in 0..MaxQty /\ UNCHANGED <<table, call, net, age>>
    BY <1>0, <1>20 DEF CancelArrives, TypeOK, Askers
  <2>2. CASE ex[o] \in OPEN
    <3>1. /\ Becomes(o, "CANCELED", exQty[o])
          /\ query' = [query EXCEPT !["canceller"] =
                         [q EXCEPT !.stage = "deleted", !.status = "CANCELED", !.qty = exQty[o]]]
      BY <1>20, <2>2 DEF CancelArrives
    <3>2. /\ query'["canceller"].stage = "deleted" /\ query'["canceller"].order = o
          /\ query'["canceller"].status = "CANCELED" /\ query'["canceller"].qty = exQty[o]
          /\ \A a \in Askers : a # "canceller" => query'[a] = query[a]
      BY <2>1, <3>1 DEF Query
    <3>3. Told(o, "CANCELED", exQty[o])'
      BY <1>0, <2>1, <3>1, Statuses DEF Becomes, Told, TypeOK
    <3>4. TrueAnswers
      BY <2>1, <3>1, <3>2, <3>3 DEF TrueAnswers, Becomes, Told
    <3>5. o \in Algo => exQty[o] = 0
      BY <2>1 DEF Inv2, TableTrue, RowLags
    <3>. QED
      BY <2>1, <2>2, <3>1, <3>4, <3>5, BecomesKeeps, Statuses
  <2>3. CASE ex[o] \notin OPEN
    <3>1. /\ query' = [query EXCEPT !["canceller"] =
                         [q EXCEPT !.stage = "deleted", !.status = "NOT_FOUND"]]
          /\ UNCHANGED <<ex, exQty, stream>>
      BY <1>20, <2>3 DEF CancelArrives
    <3>2. /\ query'["canceller"].stage = "deleted" /\ query'["canceller"].status = "NOT_FOUND"
          /\ \A a \in Askers : a # "canceller" => query'[a] = query[a]
      BY <2>1, <3>1 DEF Query
    <3>3. TrueAnswers
      BY <3>2 DEF TrueAnswers
    <3>4. TableTrue'
      BY <2>1, <3>1, TableFrame DEF Inv2, TableTrue, ClosedIsClosed
    <3>. QED
      BY <2>1, <3>1, <3>3, <3>4, QuietFrame DEF table, TrueCalls, QuietStream
  <2>. QED
    BY <2>2, <2>3
<1>21. ASSUME CancelReply PROVE Goal
  <2>. DEFINE q == query["canceller"]
  <2>1. /\ "canceller" \in Askers /\ q.stage = "deleted" /\ UNCHANGED <<call, world>>
        /\ q.order \in Orders /\ row[q.order] # "NONE" /\ q \in Query
        /\ query \in [Askers -> Query]
    BY <1>0, <1>21 DEF CancelReply, Askers, TypeOK, SentOnce
  <2>2. CASE q.status = "NOT_FOUND"
    <3>1. query' = [query EXCEPT !["canceller"].stage = "asked"] /\ UNCHANGED table
      BY <1>21, <2>2 DEF CancelReply
    <3>2. TrueAnswers
      BY <2>1, <3>1 DEF TrueAnswers, Query
    <3>. QED
      BY <2>1, <3>1, <3>2, AskingFrame
  <2>3. CASE q.status # "NOT_FOUND"
    <3>1. Report(q.order, q.status, q.qty) /\ Continue("canceller", {})
      BY <1>21, <2>3 DEF CancelReply
    <3>2. Told(q.order, q.status, q.qty)
      BY <2>1, <2>3 DEF Inv2, ReportsAreTrue
    <3>3. /\ Credible(q.order, q.status, q.qty) /\ q.status \in OrderStatus
          /\ q.qty \in 0..MaxQty
      BY <2>1, <3>2, Statuses DEF Credible, Told, Query
    <3>4. TrueAnswers
      BY <2>1, <3>1, ContinueAnswers
    <3>. QED
      BY <2>1, <3>1, <3>3, <3>4, ReportStep DEF TrueCalls, QuietStream
  <2>. QED
    BY <2>2, <2>3
<1>22. ASSUME Crash PROVE Goal
  <2>1. TableTrue'
    BY <1>0, <1>22, RestartQuiet, TableFrame DEF Crash, table, Inv2, TableTrue, ClosedIsClosed
  <2>. QED
    BY <1>0, <1>22, <2>1, RestartQuiet, QuietFrame DEF Crash
<1>23. ASSUME NEW o \in Orders, CrashInSubmit(o) PROVE Goal
  <2>1. /\ row[o] = "NONE" /\ row'[o] = "PENDING"
        /\ \A u \in Orders : u # o => row'[u] = row[u]
        /\ Restart
    BY <1>0, <1>23 DEF CrashInSubmit, Accepts, TypeOK
  <2>2. ReportsAreTrue' /\ NotFoundIsGone'
    BY <1>0, <2>1, RestartQuiet, QuietFrame
  <2>3. TableTrue'
    BY <1>0, <2>1, RestartQuiet, Statuses
    DEF Inv2, TableTrue, RowLags, ClosedIsClosed, Settled, NoAnomaly
  <2>. QED
    BY <2>2, <2>3
<1>. QED
  BY <1>1, <1>2, <1>3, <1>4, <1>5, <1>6, <1>7, <1>8, <1>9, <1>10, <1>11, <1>12, <1>13, <1>14,
     <1>15, <1>16, <1>17, <1>18, <1>19, <1>20, <1>21, <1>22, <1>23 DEF Next, OrderStep, AskStep

LEMMA Inv2Holds == ASSUME Prompt PROVE Spec => []Inv2
<1>1. Init => ReportsAreTrue /\ NotFoundIsGone /\ TableTrue
  <2>. SUFFICES ASSUME Init PROVE ReportsAreTrue /\ NotFoundIsGone /\ TableTrue
    OBVIOUS
  <2>1. /\ \A o \in Orders : /\ row[o] = "NONE" /\ filled[o] = 0 /\ net[o] = "none"
                             /\ age[o] = 0 /\ ex[o] = "NONE" /\ exQty[o] = 0
                             /\ call[o].stage = "idle"
        /\ \A p \in Askers : query[p].stage = "idle"
        /\ Len(stream) = 0 /\ anomalies = {}
    BY NoCallType, NoQueryType DEF Init
  <2>2. ReportsAreTrue /\ NotFoundIsGone
    BY <2>1 DEF ReportsAreTrue, NotFoundIsGone
  <2>3. TableTrue
    BY <2>1, Statuses DEF TableTrue, RowLags, ClosedIsClosed, Settled, NoAnomaly
  <2>. QED
    BY <2>2, <2>3
<1>2. /\ Inv1 /\ Inv1' /\ ReportsAreTrue /\ NotFoundIsGone /\ TableTrue /\ [Next]_vars
      => ReportsAreTrue' /\ NotFoundIsGone' /\ TableTrue'
  BY Inv2Step DEF Prompt, Inv2
<1>3. Inv1 /\ ReportsAreTrue /\ NotFoundIsGone /\ TableTrue <=> Inv2
  BY DEF Inv2
<1>. QED
  BY <1>1, <1>2, <1>3, Inv1Holds, PTL DEF Spec

(* What the table says of an order is what became of it at the exchange,   *)
(* for any number of orders, quantities, events and crashes - of a process *)
(* that signs at once and whose answers take no more than five seconds.    *)
THEOREM TableIsTrueHolds == ASSUME Prompt PROVE Spec => []TableIsTrue
<1>1. Inv2 => TableIsTrue
  BY DEF Inv2, TableTrue, TableIsTrue
<1>. QED
  BY <1>1, Inv2Holds, PTL

-----------------------------------------------------------------------------
(* Oms implements OrderTruth.                                              *)

LEMMA SameStates ==
  Truth!OPEN = OPEN /\ Truth!TERMINAL = TERMINAL /\ Truth!RANK = RANK
  BY DEF Truth!OPEN, OPEN, Truth!TERMINAL, TERMINAL, Truth!RANK, RANK, Truth!OrderStatus, OrderStatus

(* A report that changes the status moves it forward, or doubts.           *)
LEMMA AdvanceRises ==
  ASSUME NEW c \in OrderStatus, NEW s \in OPEN \cup TERMINAL, advance(c, s) # c
  PROVE  c \notin TERMINAL /\ RANK[s] > RANK[c]
  BY DEF advance, Stale, Illegal, OPEN, TERMINAL, ALLOWED, RANK, OrderStatus

LEMMA AdvanceDoubts ==
  ASSUME NEW c \in OrderStatus, advance(c, "UNKNOWN") # c
  PROVE  c = "SENT"
  BY DEF advance, Stale, Illegal, OPEN, TERMINAL, ALLOWED, RANK, OrderStatus

(* What a credible report says of an order is true of it.                  *)
LEMMA CredibleIsTrue ==
  ASSUME NEW o \in Orders, NEW s \in OPEN \cup TERMINAL, NEW n, Credible(o, s, n)
  PROVE  Truth!True(o, s)
<1>1. CASE Told(o, s, n)
  BY <1>1, SameStates DEF Told, Truth!True, OPEN, TERMINAL
<1>2. CASE Gone(o) /\ s = IF o \in Algo THEN "EXPIRED" ELSE "REJECTED"
  BY <1>2, SameStates DEF Gone, Truth!True
<1>. QED
  BY <1>1, <1>2, Statuses DEF Credible

LEMMA ReportRefines ==
  ASSUME Inv2, NEW o \in Orders, row[o] # "NONE", NEW s, NEW n, Credible(o, s, n),
         Report(o, s, n), UNCHANGED ex
  PROVE  [Truth!Next]_<<row, ex>>
<1>1. row \in [Orders -> RowStatus] /\ ex \in [Orders -> ExStatus] /\ row[o] \in OrderStatus
  BY DEF Inv2, Inv1, TypeOK, RowStatus
<1>2. row' = [row EXCEPT ![o] = advance(row[o], s)]
  BY DEF Report
<1>3. CASE advance(row[o], s) = row[o]
  BY <1>1, <1>2, <1>3
<1>4. CASE advance(row[o], s) # row[o]
  <2>1. advance(row[o], s) = s
    BY <1>4, AdvanceResult
  <2>2. Truth!Is(o, s, ex[o])
    BY <1>1, <1>2, <2>1 DEF Truth!Is
  <2>3. CASE s = "UNKNOWN"
    BY <1>1, <1>4, <2>2, <2>3, AdvanceDoubts DEF Truth!Next, Truth!Doubt
  <2>4. CASE s \in OPEN \cup TERMINAL
    <3>1. row[o] \notin TERMINAL /\ RANK[s] > RANK[row[o]]
      BY <1>1, <1>4, <2>4, AdvanceRises
    <3>2. Truth!Learn(o)
      BY <2>2, <2>4, <3>1, CredibleIsTrue, SameStates DEF Truth!Learn
    <3>. QED
      BY <3>2 DEF Truth!Next
  <2>. QED
    BY <2>3, <2>4, Statuses DEF Credible, Told
<1>. QED
  BY <1>3, <1>4

LEMMA PlaceRefines ==
  ASSUME Inv2, NEW o \in Orders, net[o] = "wire", NEW s \in {"NEW", "REJECTED"},
         ex' = [ex EXCEPT ![o] = s], UNCHANGED row
  PROVE  [Truth!Next]_<<row, ex>>
<1>1. row[o] \notin TERMINAL \cup {"NONE", "PENDING"} /\ ex[o] = "NONE"
  BY DEF Inv2, Inv1, SentOnce, TableTrue, ClosedIsClosed
<1>2. Truth!Is(o, row[o], s)
  BY DEF Truth!Is, Inv2, Inv1, TypeOK
<1>. QED
  BY <1>1, <1>2, SameStates DEF Truth!Next, Truth!Place

LEMMA ProgressRefines ==
  ASSUME Inv2, NEW o \in Orders, ex[o] \in OPEN,
         NEW s \in {"PARTIALLY_FILLED", "FILLED", "CANCELED", "EXPIRED"}, NEW n,
         Becomes(o, s, n), UNCHANGED row
  PROVE  [Truth!Next]_<<row, ex>>
<1>1. Truth!Is(o, row[o], s)
  BY DEF Truth!Is, Inv2, Inv1, TypeOK, Becomes
<1>. QED
  BY <1>1, SameStates DEF Truth!Next, Truth!Progress

LEMMA WriteRefines ==
  ASSUME Inv2, NEW o \in Orders, row[o] = "NONE", NEW s \in {"PENDING", "SENT"},
         row' = [row EXCEPT ![o] = s], UNCHANGED ex
  PROVE  [Truth!Next]_<<row, ex>>
<1>1. ex[o] = "NONE"
  BY DEF Inv2, Inv1, WriteAhead
<1>2. Truth!Is(o, s, "NONE")
  BY <1>1 DEF Truth!Is, Inv2, Inv1, TypeOK
<1>. QED
  BY <1>1, <1>2 DEF Truth!Next, Truth!Write

LEMMA RefinesStep ==
  ASSUME Inv2, [Next]_vars
  PROVE  [Truth!Next]_<<row, ex>>
<1>. DEFINE Goal == [Truth!Next]_<<row, ex>>
<1>0. TypeOK /\ WriteAhead /\ SentOnce
  BY DEF Inv2, Inv1
<1>. USE DEF table, world
<1>1. ASSUME NEW o \in Orders, Submit(o) \/ CrashInSubmit(o) PROVE Goal
  BY <1>1, WriteRefines DEF Submit, CrashInSubmit, Restart, Accepts
<1>2. ASSUME NEW o \in Orders, SubmitReply(o) PROVE Goal
  <2>1. Told(o, call[o].status, call[o].qty) /\ row[o] # "NONE"
    BY <1>0, <1>2 DEF SubmitReply, Inv2, ReportsAreTrue, SentOnce
  <2>. QED
    BY <1>2, <2>1, ReportRefines DEF SubmitReply, Credible
<1>3. ASSUME NEW o \in Orders, Failed(o) PROVE Goal
  <2>1. row[o] \notin {"NONE", "PENDING"}
    BY <1>0, <1>3 DEF Failed, SentOnce
  <2>2. Credible(o, "UNKNOWN", 0)
    BY <2>1 DEF Credible
  <2>. QED
    BY <1>3, <2>1, <2>2, ReportRefines DEF Failed
<1>4. ASSUME NEW o \in Orders, Arrive(o) \/ Refuse(o) PROVE Goal
  BY <1>4, PlaceRefines DEF Arrive, Refuse, Becomes
<1>5. ASSUME NEW o \in Orders, Fill(o) \/ Expire(o) PROVE Goal
  <2>1. PICK s \in {"PARTIALLY_FILLED", "FILLED", "CANCELED", "EXPIRED"}, n \in Int :
          Becomes(o, s, n)
    BY <1>0, <1>5 DEF Fill, Expire, TypeOK
  <2>. QED
    BY <1>5, <2>1, ProgressRefines DEF Fill, Expire
<1>6. ASSUME CancelArrives PROVE Goal
  <2>. DEFINE o == query["canceller"].order
  <2>1. o \in Orders /\ UNCHANGED row
    BY <1>0, <1>6 DEF CancelArrives, TypeOK, Askers
  <2>2. CASE ex[o] \in OPEN
    <3>1. Becomes(o, "CANCELED", exQty[o])
      BY <1>6, <2>2 DEF CancelArrives
    <3>. QED
      BY <2>1, <2>2, <3>1, ProgressRefines
  <2>3. CASE ex[o] \notin OPEN
    BY <1>6, <2>1, <2>3 DEF CancelArrives
  <2>. QED
    BY <2>2, <2>3
<1>7. ASSUME CancelReply PROVE Goal
  <2>. DEFINE q == query["canceller"]
  <2>1. q.order \in Orders /\ row[q.order] # "NONE" /\ UNCHANGED ex /\ q.stage = "deleted"
    BY <1>0, <1>7 DEF CancelReply, Askers, TypeOK, SentOnce
  <2>2. CASE q.status = "NOT_FOUND"
    BY <1>7, <2>2 DEF CancelReply
  <2>3. CASE q.status # "NOT_FOUND"
    <3>1. Report(q.order, q.status, q.qty)
      BY <1>7, <2>3 DEF CancelReply
    <3>2. Told(q.order, q.status, q.qty)
      BY <2>1, <2>3 DEF Inv2, ReportsAreTrue, Askers
    <3>. QED
      BY <2>1, <3>1, <3>2, ReportRefines DEF Credible
  <2>. QED
    BY <2>2, <2>3
<1>8. ASSUME NEW p \in Askers, QueryReply(p) PROVE Goal
  <2>. DEFINE q == query[p]
              o == q.order
              verdict == IF o \in Algo THEN "EXPIRED" ELSE "REJECTED"
  <2>1. o \in Orders /\ row[o] # "NONE" /\ UNCHANGED ex /\ q.stage = "answered"
    BY <1>0, <1>8 DEF QueryReply, TypeOK, SentOnce
  <2>2. CASE q.status # "NOT_FOUND" /\ Report(o, q.status, q.qty)
    <3>1. Told(o, q.status, q.qty)
      BY <2>1, <2>2 DEF Inv2, ReportsAreTrue
    <3>. QED
      BY <2>1, <2>2, <3>1, ReportRefines DEF Credible
  <2>3. CASE UNCHANGED table
    BY <2>1, <2>3
  <2>4. CASE q.status = "NOT_FOUND" /\ age[o] = 2 /\ Report(o, verdict, 0)
    <3>1. q.at > 0
      <4>1. age[o] <= q.at + 1 /\ q.at \in 0..2
        BY <1>0, <2>1 DEF Inv2, NotFoundIsGone, TypeOK, Query
      <4>. QED
        BY <2>4, <4>1
    <3>2. Credible(o, verdict, 0)
      BY <2>1, <2>4, <3>1 DEF Inv2, NotFoundIsGone, Credible
    <3>. HIDE DEF verdict
    <3>. QED
      BY <2>1, <2>4, <3>2, ReportRefines
  <2>. QED
    BY <1>8, <2>2, <2>3, <2>4 DEF QueryReply
<1>9. ASSUME OnEvent PROVE Goal
  <2>. DEFINE e == Head(stream)
  <2>1. /\ stream # <<>> /\ stream \in Seq(Event) /\ UNCHANGED ex
        /\ Report(e.order, e.status, e.qty)
    BY <1>0, <1>9 DEF OnEvent, TypeOK
  <2>2. e = stream[1] /\ 1 \in 1..Len(stream)
    BY <2>1
  <2>3. e.order \in Orders /\ Told(e.order, e.status, e.qty)
    BY <1>0, <2>2, StreamEvents DEF Inv2, ReportsAreTrue
  <2>4. Credible(e.order, e.status, e.qty) /\ row[e.order] # "NONE"
    BY <1>0, <2>3 DEF Credible, Told, WriteAhead
  <2>. QED
    BY <2>1, <2>3, <2>4, ReportRefines
<1>10. ASSUME NEW o \in Orders, Sign(o) \/ Lose(o) \/ Respond(o) \/ Tick(o) \/ Cancel(o) PROVE Goal
  BY <1>10 DEF Sign, Lose, Respond, Tick, Cancel
<1>11. ASSUME NEW p \in Askers, Ask(p) \/ Answer(p) \/ QueryFails(p) PROVE Goal
  BY <1>11 DEF Ask, Answer, QueryFails
<1>12. ASSUME \/ Disconnect \/ Connect \/ ResolveUnknown \/ Reconcile \/ ReconcileFails
              \/ CancelFails \/ Crash \/ UNCHANGED vars
       PROVE  Goal
  BY <1>12 DEF Disconnect, Connect, ResolveUnknown, Reconcile, ReconcileFails, CancelFails, Crash,
               Restart, vars
<1>. QED
  BY <1>1, <1>2, <1>3, <1>4, <1>5, <1>6, <1>7, <1>8, <1>9, <1>10, <1>11, <1>12
  DEF Next, OrderStep, AskStep

(* The order table implements OrderTruth: a row is written before the      *)
(* exchange can have the order, only says what is or was true of it, only  *)
(* moves forward, and a finished order never comes to life.                *)
THEOREM RefinesHolds == ASSUME Prompt PROVE Spec => Refines
<1>1. Init => Truth!Init
  BY DEF Init, Truth!Init
<1>2. Inv2 /\ [Next]_vars => [Truth!Next]_<<row, ex>>
  BY RefinesStep
<1>. QED
  BY <1>1, <1>2, Inv2Holds, PTL DEF Spec, Refines, Truth!Spec

-----------------------------------------------------------------------------
(* No order on a symbol with an open question, while the process lives.    *)

Blocked == \A p \in Orders : row[p] = "UNKNOWN" => Sym[p] \in frozen

NoDoubtAdded == \A u \in Orders : row'[u] \in {"SENT", "UNKNOWN"} => row'[u] = row[u]

LEMMA ReportNoDoubt ==
  ASSUME TypeOK, NEW o \in Orders, NEW s, s \notin {"SENT", "UNKNOWN"}, NEW n, Report(o, s, n)
  PROVE  NoDoubtAdded
  BY AdvanceResult DEF Report, NoDoubtAdded, TypeOK

LEMMA ContinueBlocked ==
  ASSUME Blocked, NoDoubtAdded, NEW p, NEW left, Continue(p, left)
  PROVE  Blocked'
  BY DEF Blocked, NoDoubtAdded, Continue

(* Every step but a submission and a request without an answer.            *)
LEMMA BlockedStep ==
  ASSUME MaxCrashes = 0, TypeOK, Blocked, Next,
         ~ \E o \in Orders : Submit(o) \/ Failed(o)
  PROVE  Blocked' /\ NoDoubtAdded
<1>. DEFINE Goal == Blocked' /\ NoDoubtAdded
<1>0. "SENT" \notin Reply /\ "UNKNOWN" \notin Reply /\ {"EXPIRED", "REJECTED"} \subseteq Reply
  BY DEF Reply, OPEN, TERMINAL
<1>1. ASSUME UNCHANGED <<table, frozen>> PROVE Goal
  BY <1>1 DEF table, Blocked, NoDoubtAdded
<1>2. ASSUME NoDoubtAdded, UNCHANGED frozen PROVE Goal
  BY <1>2 DEF Blocked, NoDoubtAdded
<1>3. ASSUME UNCHANGED table, NEW p, NEW left, Continue(p, left) PROVE Goal
  BY <1>3, ContinueBlocked DEF table, NoDoubtAdded
<1>4. ASSUME NEW o \in Orders, SubmitReply(o) PROVE Goal
  <2>1. call[o].status \in Reply
    BY DEF TypeOK, Call
  <2>. QED
    BY <1>0, <1>2, <1>4, <2>1, ReportNoDoubt DEF SubmitReply
<1>5. ASSUME OnEvent PROVE Goal
  <2>. DEFINE e == Head(stream)
  <2>1. stream \in Seq(Event) /\ stream # <<>>
    BY <1>5 DEF OnEvent, TypeOK
  <2>2. e \in Event
    BY <2>1
  <2>3. e.order \in Orders /\ e.status \in Reply
    BY <2>2 DEF Event, Reply
  <2>. QED
    BY <1>0, <1>2, <1>5, <2>3, ReportNoDoubt DEF OnEvent, memory
<1>6. ASSUME CancelReply PROVE Goal
  <2>. DEFINE q == query["canceller"]
  <2>1. q.order \in Orders /\ q.status \in Reply
    BY <1>6 DEF CancelReply, TypeOK, Askers, Query
  <2>2. CASE q.status = "NOT_FOUND"
    BY <1>1, <1>6, <2>2 DEF CancelReply
  <2>3. CASE q.status # "NOT_FOUND"
    BY <1>0, <1>6, <2>1, <2>3, ReportNoDoubt, ContinueBlocked DEF CancelReply
  <2>. QED
    BY <2>2, <2>3
<1>7. ASSUME NEW p \in Askers, QueryReply(p) PROVE Goal
  <2>. DEFINE q == query[p]
  <2>1. /\ q.order \in Orders /\ q.status \in Reply
        /\ Continue(p, todo[p] \ {q.order})
    BY <1>7 DEF QueryReply, TypeOK, Query
  <2>2. CASE UNCHANGED table
    BY <1>3, <2>1, <2>2
  <2>3. CASE \E s \in Reply : \E n : Report(q.order, s, n)
    BY <1>0, <2>1, <2>3, ReportNoDoubt, ContinueBlocked
  <2>. QED
    BY <1>0, <1>7, <2>1, <2>2, <2>3 DEF QueryReply
<1>8. ~ Restart
  BY DEF Restart, TypeOK
<1>9. ASSUME NEW o \in Orders,
             \/ Sign(o) \/ Arrive(o) \/ Refuse(o) \/ Lose(o) \/ Respond(o) \/ Fill(o)
             \/ Expire(o) \/ Tick(o) \/ Cancel(o)
      PROVE  UNCHANGED <<table, frozen>>
  BY <1>9 DEF Sign, Arrive, Refuse, Lose, Respond, Fill, Expire, Tick, Cancel, memory
<1>10. ASSUME NEW p \in Askers, Ask(p) \/ Answer(p) PROVE UNCHANGED <<table, frozen>>
  BY <1>10 DEF Ask, Answer
<1>11. ASSUME Disconnect \/ Connect \/ ReconcileFails \/ CancelArrives
       PROVE  UNCHANGED <<table, frozen>>
  BY <1>11 DEF Disconnect, Connect, ReconcileFails, CancelArrives, memory
<1>12. ASSUME NEW p \in Askers, QueryFails(p) PROVE Goal
  BY <1>3, <1>12 DEF QueryFails
<1>13. ASSUME ResolveUnknown \/ Reconcile \/ CancelFails PROVE Goal
  BY <1>3, <1>13 DEF ResolveUnknown, Reconcile, CancelFails
<1>. QED
  BY <1>1, <1>4, <1>5, <1>6, <1>7, <1>8, <1>9, <1>10, <1>11, <1>12, <1>13
  DEF Next, OrderStep, AskStep, Crash, CrashInSubmit

(* "Its symbol is frozen (no new orders)": while the process lives, no     *)
(* order is sent on a symbol that has an order with an unknown outcome, for*)
(* any orders, symbols, lost answers and late reports.                     *)
THEOREM FrozenHolds == ASSUME MaxCrashes = 0 PROVE Spec => NoOrderWhileUnknown
<1>1. Init => Blocked
  BY DEF Init, Blocked
<1>2. TypeOK /\ Blocked /\ [Next]_vars => Blocked'
  <2>. SUFFICES ASSUME TypeOK, Blocked, [Next]_vars PROVE Blocked'
    OBVIOUS
  <2>1. ASSUME NEW o \in Orders, Submit(o) PROVE Blocked'
    BY <2>1 DEF Submit, Blocked, TypeOK
  <2>2. ASSUME NEW o \in Orders, Failed(o) PROVE Blocked'
    <3>1. \A u \in Orders : u # o => row'[u] = row[u]
      BY <2>2 DEF Failed, Report, TypeOK
    <3>2. frozen \subseteq frozen' /\ (row'[o] = "UNKNOWN" => Sym[o] \in frozen')
      BY <2>2 DEF Failed
    <3>. QED
      BY <3>1, <3>2 DEF Blocked
  <2>3. CASE UNCHANGED vars
    BY <2>3 DEF vars, table, memory, Blocked
  <2>. QED
    BY <2>1, <2>2, <2>3, BlockedStep
<1>3. TypeOK /\ Blocked /\ [Next]_vars =>
        [\A o, p \in Orders :
           (row[o] = "NONE" /\ row'[o] = "SENT" /\ Sym[p] = Sym[o]) => row[p] # "UNKNOWN"]_vars
  <2>. SUFFICES ASSUME TypeOK, Blocked, Next, NEW o \in Orders, NEW p \in Orders,
                       row[o] = "NONE", row'[o] = "SENT", Sym[p] = Sym[o]
                PROVE  row[p] # "UNKNOWN"
    OBVIOUS
  <2>1. ASSUME NEW u \in Orders, Submit(u) PROVE row[p] # "UNKNOWN"
    <3>1. u = o
      BY <2>1 DEF Submit, TypeOK
    <3>. QED
      BY <2>1, <3>1 DEF Submit, Accepts, Blocked
  <2>2. ASSUME NEW u \in Orders, Failed(u) PROVE FALSE
    <3>1. \A x \in Orders : row'[x] \in {row[x], "UNKNOWN"}
      BY <2>2, AdvanceResult DEF Failed, Report, TypeOK
    <3>. QED
      BY <3>1
  <2>. QED
    BY <2>1, <2>2, BlockedStep DEF NoDoubtAdded
<1>. QED
  BY <1>1, <1>2, <1>3, TypeCorrect, PTL DEF Spec, NoOrderWhileUnknown

=============================================================================

----------------------------- MODULE OrderState -----------------------------
(***************************************************************************)
(* The order state machine of quanta.oms.state: the local statuses of an   *)
(* order and the function every report goes through.  A report is a status *)
(* an answer of the REST interface, an event of the user stream or the     *)
(* process itself claims for an order.                                     *)
(***************************************************************************)
EXTENDS Integers

OrderStatus == {"PENDING", "SENT", "UNKNOWN", "NEW", "PARTIALLY_FILLED",
                "FILLED", "CANCELED", "EXPIRED", "REJECTED"}

TERMINAL == {"FILLED", "CANCELED", "EXPIRED", "REJECTED"}

OPEN == {"NEW", "PARTIALLY_FILLED"}

(* How far an order has come; equal ranks exclude each other.              *)
RANK == [s \in OrderStatus |->
           IF s = "PENDING" THEN 0
           ELSE IF s \in {"SENT", "UNKNOWN"} THEN 1
           ELSE IF s = "NEW" THEN 2
           ELSE IF s = "PARTIALLY_FILLED" THEN 3
           ELSE 4]

(* The statuses a report may move an order to.  The code's table has no    *)
(* entry for a terminal status, which is the empty set here.               *)
ALLOWED == [s \in OrderStatus |->
              IF s = "PENDING" THEN {"SENT", "REJECTED"}
              ELSE IF s = "SENT" THEN OrderStatus \ {"PENDING", "SENT"}
              ELSE IF s = "UNKNOWN" THEN OPEN \cup TERMINAL
              ELSE IF s = "NEW" THEN {"PARTIALLY_FILLED"} \cup (TERMINAL \ {"REJECTED"})
              ELSE IF s = "PARTIALLY_FILLED"
                   THEN {"PARTIALLY_FILLED", "FILLED", "CANCELED", "EXPIRED"}
              ELSE {}]

(* Bug for the mutants: a late report of an open order is not recognised.  *)
StaleOnlyTerminal(current, reported) ==
  \/ reported = current
  \/ current \in TERMINAL /\ reported \notin TERMINAL
  \/ current \in OPEN /\ reported = "UNKNOWN"

(* A duplicate, a late report of an earlier state, or doubt about an order *)
(* already known to exist: the status stays.                               *)
Stale(current, reported) ==
  \/ reported = current
  \/ current \in TERMINAL /\ reported \notin TERMINAL
  \/ /\ current \notin TERMINAL
     /\ RANK[reported] < RANK[current]
     /\ reported # "UNKNOWN"
  \/ current \in OPEN /\ reported = "UNKNOWN"

(* The report contradicts the status: advance raises IllegalTransition.    *)
Illegal(current, reported) ==
  /\ ~ Stale(current, reported)
  /\ reported \notin ALLOWED[current]

(* Bug: the last report wins.                                              *)
advanceToLatest(current, reported) ==
  IF Illegal(current, reported) THEN current ELSE reported

(* The status after a report; a report that raises changes nothing.        *)
advance(current, reported) ==
  IF Stale(current, reported) \/ Illegal(current, reported) THEN current ELSE reported

=============================================================================

----------------------------- MODULE OrderTruth -----------------------------
(***************************************************************************)
(* What the order table promises about the exchange, without saying how it *)
(* finds out: an order is written down before the exchange can have it,    *)
(* the row only ever says what is or was true of the order, it only moves  *)
(* forward, and an order the row calls finished never comes to life.       *)
(***************************************************************************)
EXTENDS OrderState

CONSTANTS Orders, Algo

VARIABLES row, ex

Init == /\ row = [o \in Orders |-> "NONE"]
        /\ ex = [o \in Orders |-> "NONE"]

Is(o, r, e) == row' = [row EXCEPT ![o] = r] /\ ex' = [ex EXCEPT ![o] = e]

Write(o) ==
  /\ row[o] = "NONE"
  /\ ex[o] = "NONE"
  /\ \E s \in {"PENDING", "SENT"} : Is(o, s, "NONE")

(* The exchange takes or refuses only what was sent and is not given up.   *)
Place(o) ==
  /\ ex[o] = "NONE"
  /\ row[o] \notin TERMINAL \cup {"NONE", "PENDING"}
  /\ \E s \in {"NEW", "REJECTED"} : Is(o, row[o], s)

Progress(o) ==
  /\ ex[o] \in OPEN
  /\ \E s \in {"PARTIALLY_FILLED", "FILLED", "CANCELED", "EXPIRED"} : Is(o, row[o], s)

Doubt(o) == row[o] = "SENT" /\ Is(o, "UNKNOWN", ex[o])

True(o, s) ==
  CASE s = "NEW"              -> ex[o] \notin {"NONE", "REJECTED"}
    [] s = "PARTIALLY_FILLED" -> ex[o] \notin {"NONE", "REJECTED", "NEW"}
    [] s = "REJECTED"         -> ex[o] \in {"NONE", "REJECTED"}
    [] OTHER                  -> ex[o] = s \/ (o \in Algo /\ ex[o] \notin OPEN)

Learn(o) ==
  /\ row[o] \notin TERMINAL \cup {"NONE"}
  /\ \E s \in OPEN \cup TERMINAL :
       /\ RANK[s] > RANK[row[o]]
       /\ True(o, s)
       /\ Is(o, s, ex[o])

Next == \E o \in Orders : Write(o) \/ Place(o) \/ Progress(o) \/ Doubt(o) \/ Learn(o)

Spec == Init /\ [][Next]_<<row, ex>>

=============================================================================

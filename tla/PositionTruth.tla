--------------------------- MODULE PositionTruth ---------------------------
(***************************************************************************)
(* What the account keeping promises about one position: the position we   *)
(* believe in changes when a trade is told, once per trade, and whenever a *)
(* comparison with the exchange ends it is a position the exchange had     *)
(* since that comparison began.                                            *)
(***************************************************************************)
EXTENDS Integers

CONSTANTS Ids, Quantities

VARIABLES
  position,  \* the exchange's
  traded,    \* its trades: id and signed quantity
  view,      \* ours
  told,      \* ids of the trades we were told
  since      \* positions the exchange had since the comparison began, {} if there is none

vars == <<position, traded, view, told, since>>

Init ==
  /\ position = 0 /\ traded = {} /\ view = 0
  /\ told = {} /\ since = {}

Trade(i, q) ==
  /\ \A t \in traded : t.id # i
  /\ position' = position + q
  /\ traded' = traded \cup {[id |-> i, qty |-> q]}
  /\ since' = IF since = {} THEN {} ELSE since \cup {position'}
  /\ UNCHANGED <<view, told>>

Tell(t) ==
  /\ t.id \notin told
  /\ view' = view + t.qty
  /\ told' = told \cup {t.id}
  /\ UNCHANGED <<position, traded, since>>

Begin ==
  /\ since = {} /\ since' = {position}
  /\ UNCHANGED <<position, traded, view, told>>

End ==
  /\ since # {} /\ since' = {}
  /\ view' \in since \cup {view}
  /\ UNCHANGED <<position, traded, told>>

Next ==
  \/ \E i \in Ids, q \in Quantities : Trade(i, q)
  \/ \E t \in traded : Tell(t)
  \/ Begin \/ End

Spec == Init /\ [][Next]_vars

=============================================================================

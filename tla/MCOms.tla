------------------------------- MODULE MCOms -------------------------------
(* Instances of Oms for TLC: two orders of one symbol, and a team of one   *)
(* or two orders while the stream is down.                                 *)
EXTENDS Oms, TLC

CONSTANTS o1, o2, s1, s2, k1

VARIABLE team    \* the orders there may be

OneSymbol == (o1 :> s1) @@ (o2 :> s1)
NoKeys == [o \in {o1, o2} |-> None]
SameKey == (o1 :> k1) @@ (o2 :> k1)

OneInit == Init /\ team = Orders

OneSpec == OneInit /\ [][Next /\ UNCHANGED team]_<<vars, team>>

-----------------------------------------------------------------------------
(* While the stream is down every outcome has to be asked for: one order,  *)
(* with crashes, or two, without.  The initial state chooses.              *)

Alone == team = {o1}

(* Bound of two orders: only start-up reconciles (one order alone, and the *)
(* two of OneSpec, have more).                                             *)
Calm ==
  /\ crashes = 0
  /\ todo["canceller"] = {}
  /\ phase = "ready" => todo["reconciler"] = {}

TeamInit == Init /\ team \in {{o1}, {o1, o2}}

TeamNext ==
  /\ Next
  /\ \A o \in Orders \ team : row'[o] = "NONE"
  /\ ~ up' /\ (~ Alone => Calm')
  /\ UNCHANGED team

TeamSpec == TeamInit /\ [][TeamNext]_<<vars, team>> /\ Fairness

(* An order whose outcome is open is resolved, and its symbol thaws, in the*)
(* end: of one order, which the bound of two does not hold up.             *)
Resolves == Alone => EventuallyResolved /\ EventuallyThawed

=============================================================================

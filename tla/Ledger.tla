------------------------------- MODULE Ledger -------------------------------
(***************************************************************************)
(* What we believe our position in one contract to be: the fills the user  *)
(* stream told (quanta.oms.store.add_fill), and the adjustments the        *)
(* reconciliation books (quanta.oms.oms.reconcile, quanta.trader.service). *)
(* A reconciliation asks for the exchange's orders, takes its positions,   *)
(* asks how orders ended that are gone, and then compares; fills go on     *)
(* happening and being told between these requests.  The user data stream  *)
(* (quanta.venues.binance_usdm.user_stream) has a listen key from REST, a  *)
(* connection that carries it, a keepalive twice in its life, and a new    *)
(* key and connection when the exchange says it expired or the keepalive   *)
(* fails.  Events that happen while nothing is connected under a valid key *)
(* are lost.                                                               *)
(***************************************************************************)
EXTENDS Integers, Sequences

CONSTANTS
  MaxTrades,   \* bound: trades at the exchange
  Quantities,  \* signed
  MaxFaults,   \* bound: disconnections, expired keys, requests that fail, crashes
  None         \* no positions were taken

ASSUME LedgerAssumption ==
  /\ MaxTrades \in Nat /\ MaxFaults \in Nat
  /\ Quantities \subseteq Int /\ None \notin Int

-----------------------------------------------------------------------------
(* The user data stream.                                                   *)

VARIABLES
  key,        \* the listen key: "none", "valid", "expired"
  conn,       \* its ManagedWebSocket is connected
  renew,      \* _expired
  known,      \* _was_connected
  asked,      \* the trader's _reconcile_needed
  wire,       \* ids of trades on their way to us
  streamFaults

streamVars == <<key, conn, renew, known, asked, wire, streamFaults>>

StreamInit ==
  /\ key = "none" /\ conn = FALSE /\ renew = FALSE /\ known = FALSE
  /\ asked = FALSE
  /\ wire = <<>> /\ streamFaults = 0

StreamFault(max) == streamFaults < max /\ streamFaults' = streamFaults + 1

Listening == conn /\ key = "valid"

(* run: a key was answered; a request that fails is made again.            *)
NewKey ==
  /\ key = "none" /\ key' = "valid" /\ renew' = FALSE
  /\ UNCHANGED <<conn, known, asked, wire, streamFaults>>

(* _lifecycle: every connection but the first asks for a reconciliation.   *)
Connected ==
  /\ key # "none" /\ ~ renew /\ ~ conn
  /\ conn' = TRUE /\ known' = TRUE
  /\ asked' = (asked \/ known)
  /\ UNCHANGED <<key, renew, wire, streamFaults>>

(* A connection of a day is replaced by one that overlaps it.              *)
Rotated ==
  /\ conn /\ asked' = TRUE
  /\ UNCHANGED <<key, conn, renew, known, wire, streamFaults>>

Disconnected(max) ==
  /\ conn /\ conn' = FALSE /\ wire' = <<>>
  /\ StreamFault(max)
  /\ UNCHANGED <<key, renew, known, asked>>

(* The exchange ends the key; its last event may come.                     *)
KeyExpires(max) ==
  /\ key = "valid" /\ key' = "expired"
  /\ wire' = <<>>
  /\ renew' \in {renew, renew \/ conn}
  /\ StreamFault(max)
  /\ UNCHANGED <<conn, known, asked>>

(* Bug: a keepalive that fails is only logged.                             *)
KeepaliveLogs(max) ==
  /\ key # "none" /\ ~ renew
  /\ IF key = "expired" THEN UNCHANGED streamFaults ELSE StreamFault(max)
  /\ UNCHANGED <<key, conn, renew, known, asked, wire>>

(* Every half hour: it fails when the key is gone, and also otherwise.     *)
Keepalive(max) ==
  /\ key # "none" /\ ~ renew
  /\ renew' = TRUE
  /\ IF key = "expired" THEN UNCHANGED streamFaults ELSE StreamFault(max)
  /\ UNCHANGED <<key, conn, known, asked, wire>>

(* run leaves the inner loop: the connection is stopped.                   *)
Renew ==
  /\ renew /\ key # "none"
  /\ key' = "none" /\ conn' = FALSE /\ wire' = <<>>
  /\ UNCHANGED <<renew, known, asked, streamFaults>>

-----------------------------------------------------------------------------
(* Our position, and the exchange's.                                       *)

Ids == 1..MaxTrades

VARIABLES
  position, traded,  \* the exchange's: position, and its trades
  fills,             \* store: ids of the fills in it
  filled,            \* store: what they add up to
  adjust,            \* store: position_adjust
  snap,              \* ex_pos of the reconciliation in progress, or None
  busy,              \* a reconciliation is in progress
  due,               \* reconcile_every_s has passed, or nothing was reconciled yet
  mismatch,          \* the condition position_mismatch
  since              \* of PositionTruth: positions since the reconciliation began

exchangeVars == <<position, traded>>
storeVars == <<fills, filled, adjust>>
loopVars == <<snap, busy, due, mismatch, since>>
vars == <<streamVars, exchangeVars, storeVars, loopVars>>

Init ==
  /\ StreamInit
  /\ position = 0 /\ traded = {}
  /\ fills = {} /\ filled = 0 /\ adjust = 0
  /\ snap = None /\ busy = FALSE /\ due = TRUE /\ mismatch = FALSE
  /\ since = {}

(* positions().                                                            *)
View == filled + adjust

-----------------------------------------------------------------------------

Trade(i, q) ==
  /\ \A t \in traded : t.id # i
  /\ \A j \in 1..(i - 1) : \E t \in traded : t.id = j
  /\ position' = position + q
  /\ traded' = traded \cup {[id |-> i, qty |-> q]}
  /\ wire' = IF Listening THEN Append(wire, i) ELSE wire
  /\ since' = IF busy THEN since \cup {position'} ELSE {}
  /\ UNCHANGED <<key, conn, renew, known, asked, streamFaults, storeVars, snap, busy, due,
                 mismatch>>

(* Bug: a fill that is told again counts again.                            *)
AddFillAgain(t) ==
  /\ fills' = fills \cup {t.id}
  /\ filled' = filled + t.qty

(* add_fill: recorded once, by trade id.                                   *)
AddFill(t) ==
  IF t.id \in fills THEN UNCHANGED <<fills, filled>>
  ELSE /\ fills' = fills \cup {t.id}
       /\ filled' = filled + t.qty

(* The oldest event on the wire is handled; while connections overlap it   *)
(* may come again.                                                         *)
Told(t) ==
  /\ Listening /\ wire # <<>> /\ Head(wire) = t.id
  /\ wire' \in {wire, Tail(wire)}
  /\ AddFill(t)
  /\ UNCHANGED <<key, conn, renew, known, asked, streamFaults, exchangeVars, adjust, loopVars>>

(* The loop's timer.                                                       *)
Elapsed ==
  /\ ~ due /\ due' = TRUE
  /\ UNCHANGED <<streamVars, exchangeVars, storeVars, snap, busy, mismatch, since>>

-----------------------------------------------------------------------------
(* Trader.reconcile and Oms.reconcile.                                     *)

(* Bug: only what asks for a reconciliation gets one.                      *)
WantedAsked == asked

Wanted == due \/ asked

Begin ==
  /\ ~ busy /\ Wanted
  /\ busy' = TRUE /\ since' = {position}
  /\ UNCHANGED <<streamVars, exchangeVars, storeVars, snap, due, mismatch>>

TakePositions ==
  /\ busy /\ snap = None
  /\ snap' = position
  /\ UNCHANGED <<streamVars, exchangeVars, storeVars, busy, due, mismatch, since>>

(* Bug: the adjustment is the difference, whatever was booked before.      *)
BookLast(diff) == diff

(* adjust_position.                                                        *)
Book(diff) == adjust + diff

(* Orders that were gone have been asked for: the comparison, and what the *)
(* trader does with its report.                                            *)
Compare ==
  /\ busy /\ snap # None
  /\ adjust' = IF snap = View THEN adjust ELSE Book(snap - View)
  /\ mismatch' = (snap # View)
  /\ asked' = FALSE /\ due' = FALSE
  /\ busy' = FALSE /\ snap' = None /\ since' = {}
  /\ UNCHANGED <<key, conn, renew, known, wire, streamFaults, exchangeVars, fills, filled>>

(* A request fails: the loop starts over.                                  *)
RequestFails ==
  /\ busy /\ StreamFault(MaxFaults)
  /\ busy' = FALSE /\ snap' = None /\ since' = {}
  /\ UNCHANGED <<key, conn, renew, known, asked, wire, exchangeVars, storeVars, due, mismatch>>

(* The process dies and starts again: the store is kept.                   *)
Crash ==
  /\ StreamFault(MaxFaults)
  /\ key' = "none" /\ conn' = FALSE /\ renew' = FALSE /\ known' = FALSE /\ wire' = <<>>
  /\ asked' = FALSE /\ due' = TRUE
  /\ busy' = FALSE /\ snap' = None /\ since' = {} /\ mismatch' = FALSE
  /\ UNCHANGED <<exchangeVars, storeVars>>

Stream ==
  \/ NewKey \/ Connected \/ Rotated \/ Renew
  \/ Disconnected(MaxFaults) \/ KeyExpires(MaxFaults) \/ Keepalive(MaxFaults)

StreamOnly == UNCHANGED <<exchangeVars, storeVars, loopVars>>

Next ==
  \/ \E i \in Ids, q \in Quantities : Trade(i, q)
  \/ \E t \in traded : Told(t)
  \/ Stream /\ StreamOnly
  \/ Elapsed \/ Begin \/ TakePositions \/ Compare \/ RequestFails
  \/ Crash

Spec == Init /\ [][Next]_vars

(* The loop runs every loop_s and its timer comes; the exchange answers,   *)
(* gives keys and lets connect; the keepalive of a dead key comes.         *)
Fairness ==
  /\ WF_vars(Elapsed) /\ WF_vars(Begin) /\ WF_vars(TakePositions) /\ WF_vars(Compare)
  /\ WF_vars((NewKey \/ Connected \/ Renew) /\ StreamOnly)
  /\ WF_vars(key = "expired" /\ Keepalive(MaxFaults) /\ StreamOnly)

FairSpec == Spec /\ Fairness

-----------------------------------------------------------------------------

TypeOK ==
  /\ key \in {"none", "valid", "expired"} /\ {conn, renew, known, asked} \subseteq BOOLEAN
  /\ wire \in Seq(Ids) /\ streamFaults \in 0..MaxFaults
  /\ position \in Int /\ traded \subseteq [id : Ids, qty : Quantities]
  /\ fills \subseteq Ids /\ filled \in Int /\ adjust \in Int
  /\ snap \in Int \cup {None} /\ {busy, due, mismatch} \subseteq BOOLEAN
  /\ since \subseteq Int

(* What is listening now, or will ask for a reconciliation once it is.     *)
Truth == INSTANCE PositionTruth WITH view <- View, told <- fills

(* The position we believe in follows what is told, every trade once, and  *)
(* a comparison sets it to one the exchange had while it was under way -   *)
(* through lost and repeated events, failed requests and crashes.          *)
ViewFollows == Truth!Spec

(* Once trading and faults are over, we believe in the exchange's          *)
(* position, whatever the stream lost and a comparison took twice.         *)
Heals == <>[](View = position)

(* The stream is connected under a valid key in the end, also when the     *)
(* exchange's last word on an expired key was lost.                        *)
ListensAgain == <>[]Listening

=============================================================================

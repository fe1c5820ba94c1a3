----------------------------- MODULE StreamBook -----------------------------
(***************************************************************************)
(* An exchange whose order book comes over the WebSocket alone (Bybit,     *)
(* Deribit): a subscription delivers a snapshot and then every update, in  *)
(* order, on the connection it was made on.  Update n sets level n mod     *)
(* NLevels to n, so a book tells which updates it has seen.                *)
(***************************************************************************)
EXTENDS ManagedWs

CONSTANTS
  MaxUpdates,  \* bound: updates the exchange sends
  MaxFaults,   \* bound: frames that are malformed or have a level that cannot
               \*   be represented
  NLevels      \* price levels

ASSUME StreamAssumption ==
  MaxUpdates \in Nat /\ MaxFaults \in Nat /\ NLevels \in Nat \ {0} /\ None \notin Nat

VARIABLES
  head,   \* the exchange: updates so far
  pos,    \* the last update each connection has delivered
  due,    \* the update behind which a snapshot comes on it, or None
  last,   \* BookState: the number of the last update seen, or None
  book,   \* BookState.book: None, or its levels
  known,  \* the instrument's scales are known
  faults  \* faults so far

stream == <<head, pos, due>>
state  == <<last, book, known>>

Levels == 0..(NLevels - 1)

BookAt(n) ==
  [l \in Levels |-> LET k == n - ((n + NLevels - l) % NLevels) IN IF k > 0 THEN k ELSE 0]

Applied(levels, n) == [levels EXCEPT ![n % NLevels] = n]

StreamInit ==
  /\ head = 0
  /\ pos = [c \in Conns |-> 0]
  /\ due = [c \in Conns |-> None]
  /\ last = None
  /\ book = None
  /\ known \in BOOLEAN
  /\ faults = 0

Fault == faults < MaxFaults /\ faults' = faults + 1

Publish ==
  /\ head < MaxUpdates
  /\ head' = head + 1
  /\ UNCHANGED <<pos, due>>

(* on_open subscribes on the new connection.                               *)
Subscribed(c) ==
  /\ pos' = [pos EXCEPT ![c] = head]
  /\ due' = [due EXCEPT ![c] = head]
  /\ UNCHANGED head

Opened(c) == (Connect(c) \/ Rotate(c)) /\ Subscribed(c)

SnapshotFrame(c) ==
  /\ Frame(c)
  /\ due[c] = pos[c]
  /\ due' = [due EXCEPT ![c] = None]
  /\ UNCHANGED <<head, pos>>

UpdateFrame(c) ==
  /\ Frame(c)
  /\ due[c] # pos[c] /\ pos[c] < head
  /\ pos' = [pos EXCEPT ![c] = @ + 1]
  /\ UNCHANGED <<head, due>>

(* An answer to the subscription, a trade, a frame of another symbol.      *)
OtherFrame(c) == Frame(c) /\ UNCHANGED stream

StreamTypeOK ==
  /\ WsTypeOK
  /\ head \in 0..MaxUpdates
  /\ pos \in [Conns -> 0..MaxUpdates]
  /\ due \in [Conns -> 0..MaxUpdates \cup {None}]
  /\ book \in [Levels -> 0..MaxUpdates] \cup {None}
  /\ known \in BOOLEAN
  /\ faults \in 0..MaxFaults

=============================================================================

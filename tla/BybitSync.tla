----------------------------- MODULE BybitSync -----------------------------
(***************************************************************************)
(* The order book of one Bybit symbol (quanta.recorder.bybit_linear).      *)
(* Updates are numbered, the numbers are not documented to be contiguous,  *)
(* so a frame that is missing is not noticed: none is, here.  When the     *)
(* exchange's service restarts, the numbers begin again with a snapshot    *)
(* numbered 1.  A level that cannot be represented ends the book and the   *)
(* connection.                                                             *)
(***************************************************************************)
EXTENDS StreamBook

VARIABLES
  leaving,  \* a task that will call force_reconnect was spawned
  base      \* the exchange: update at which the service restarted, or None

sync == <<state, leaving>>
vars == <<wsVars, stream, sync, base, faults>>

Init ==
  /\ WsInit /\ StreamInit
  /\ leaving = FALSE
  /\ base = None

(* u of update n, and of the snapshot behind it.                           *)
Old(n) == MaxUpdates + 1 + n
New(n) == n - base + 1
NumberOf(n)   == IF base # None /\ n > base THEN New(n) ELSE Old(n)
SnapshotNo(n) == IF base # None /\ n >= base THEN New(n) ELSE Old(n)

(* Bug for the mutants: the book is dropped, the connection stays.         *)
LoadOnlyDrops(number, levels) ==
  \/ /\ last' = number
     /\ book' = levels
     /\ UNCHANGED <<leaving, faults>>
  \/ /\ levels # None
     /\ Fault
     /\ last' = None
     /\ book' = None
     /\ UNCHANGED leaving

(* _load: the levels are applied, or they cannot be represented.           *)
Load(number, levels) ==
  \/ /\ last' = number
     /\ book' = levels
     /\ UNCHANGED <<leaving, faults>>
  \/ /\ levels # None
     /\ Fault
     /\ last' = None
     /\ book' = None
     /\ leaving' = TRUE

(* Bug: a snapshot is always taken.                                        *)
NewerAlways(number) == TRUE

Newer(number) == last = None \/ number > last \/ number = 1

(* _apply_book, a snapshot: the same or an older state from an overlapping *)
(* connection is dropped, unless it is numbered 1.                         *)
Snapshot(c) ==
  /\ SnapshotFrame(c)
  /\ LET u == SnapshotNo(pos[c])
     IN  IF ~ Newer(u) THEN UNCHANGED <<last, book, leaving, faults>>
         ELSE Load(u, IF known THEN BookAt(pos[c]) ELSE book)
  /\ UNCHANGED <<known, base>>

(* _apply_book, a delta: only a snapshot starts the book.                  *)
Delta(c) ==
  /\ UpdateFrame(c)
  /\ LET u == NumberOf(pos'[c])
     IN  IF last = None \/ u <= last THEN UNCHANGED <<last, book, leaving, faults>>
         ELSE Load(u, IF book = None THEN None ELSE Applied(book, pos'[c]))
  /\ UNCHANGED <<known, base>>

(* A connection is gone: unless another one is active, nothing is in step. *)
AfterLifecycle(c) ==
  /\ Down(c)
  /\ last' = IF connected' THEN last ELSE None
  /\ UNCHANGED <<stream, book, known, base, faults>>

Disconnected(c) == AfterLifecycle(c) /\ UNCHANGED leaving

ForceReconnect ==
  /\ leaving
  /\ leaving' = FALSE
  /\ IF connected THEN AfterLifecycle(active)
     ELSE UNCHANGED <<wsVars, stream, last, book, known, base, faults>>

LoadInstruments ==
  /\ ~ known
  /\ known' = TRUE
  /\ UNCHANGED <<wsVars, stream, last, book, leaving, base, faults>>

Exchange ==
  /\ \/ Publish /\ UNCHANGED base
     \/ /\ base = None                     \* the service restarts
        /\ \A c \in open : due[c] = None
        /\ base' = head
        /\ due' = [c \in Conns |-> IF c \in open THEN head ELSE due[c]]
        /\ UNCHANGED <<head, pos>>
  /\ UNCHANGED <<wsVars, sync, faults>>

Connection ==
  /\ \/ \E c \in Conns : Opened(c) \/ OtherFrame(c)
     \/ Supervise /\ UNCHANGED stream
  /\ UNCHANGED <<sync, base, faults>>

Next ==
  \/ Exchange \/ Connection \/ LoadInstruments \/ ForceReconnect
  \/ \E c \in Conns : Snapshot(c) \/ Delta(c) \/ Disconnected(c)

Spec == Init /\ [][Next]_vars

-----------------------------------------------------------------------------

TypeOK ==
  /\ StreamTypeOK
  /\ last \in 1..(2 * MaxUpdates + 1) \cup {None}
  /\ leaving \in BOOLEAN
  /\ base \in 0..MaxUpdates \cup {None}

(* The book is the exchange's book at the update whose number was seen     *)
(* last: no update is lost, doubled or too late.  With two connections at  *)
(* a time it holds only until a level cannot be represented or the service *)
(* restarts: then an older snapshot of the slower connection starts the    *)
(* book, and what the faster one had already delivered is missing in it.   *)
BookIsTrue ==
  (book # None /\ last # None) =>
    \E n \in 0..head : last \in {NumberOf(n), SnapshotNo(n)} /\ book = BookAt(n)

(* A book that waits for a snapshot gets one: it is under way on some      *)
(* connection, or a connection is about to be opened anew.                 *)
SnapshotComes ==
  (last = None /\ connected /\ ~ leaving) => \E c \in open : due[c] # None

=============================================================================

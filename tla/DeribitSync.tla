---------------------------- MODULE DeribitSync ----------------------------
(***************************************************************************)
(* The order book of one Deribit instrument (quanta.recorder.deribit).     *)
(* Every change names its predecessor, so a frame that is missing is       *)
(* noticed; then, and when a level cannot be represented, the book's       *)
(* channel is subscribed anew on the active connection, and a snapshot     *)
(* follows.                                                                *)
(***************************************************************************)
EXTENDS StreamBook

VARIABLES
  resub,   \* BookState.resubscribing
  asked    \* connections on which the channel was unsubscribed and subscribed

sync == <<state, resub, asked>>
vars == <<wsVars, stream, sync, faults>>

Init ==
  /\ WsInit /\ StreamInit
  /\ resub = FALSE
  /\ asked = {}

(* _resubscribe; what is sent on a connection that is gone is not sent.    *)
Resubscribe ==
  IF active = None THEN resub' = FALSE /\ UNCHANGED asked
  ELSE resub' = TRUE /\ asked' = asked \cup ({active} \cap open)

(* Bug for the mutants: the flag stays.                                    *)
LoadKeepsFlag(levels) ==
  \/ /\ book' = levels
     /\ UNCHANGED <<resub, asked, faults>>
  \/ levels # None /\ Fault /\ book' = None /\ Resubscribe

(* _load, while no snapshot is awaited (any more): the levels are applied, *)
(* or they cannot be represented.                                          *)
Load(levels) ==
  \/ /\ book' = levels
     /\ resub' = FALSE
     /\ UNCHANGED <<asked, faults>>
  \/ levels # None /\ Fault /\ book' = None /\ Resubscribe

(* _apply_book, a snapshot: the same or an older state from an overlapping *)
(* connection is dropped, unless a snapshot is awaited.                    *)
Snapshot(c) ==
  /\ SnapshotFrame(c)
  /\ IF last # None /\ pos[c] <= last /\ ~ resub
     THEN UNCHANGED <<last, book, resub, asked, faults>>
     ELSE /\ last' = pos[c]
          /\ Load(IF known THEN BookAt(pos[c]) ELSE book)
  /\ UNCHANGED known

(* Bug: prev_change_id is not looked at.                                   *)
ChainedAlways(n) == TRUE

Chained(n) == n - 1 = last

(* _apply_book, a change.                                                  *)
Change(c) ==
  /\ UpdateFrame(c)
  /\ LET n == pos'[c]
     IN  IF last = None \/ resub THEN UNCHANGED <<last, book, resub, asked, faults>>
         ELSE IF n <= last THEN UNCHANGED <<last, book, resub, asked, faults>>
         ELSE IF Chained(n)
              THEN last' = n /\ Load(IF book = None THEN None ELSE Applied(book, n))
         ELSE Resubscribe /\ UNCHANGED <<last, book, faults>>
  /\ UNCHANGED known

(* A change that cannot be decoded.                                        *)
Malformed(c) == UpdateFrame(c) /\ Fault /\ UNCHANGED sync

(* A connection is gone: unless another one is active, nothing is in step. *)
AfterLifecycle(c) ==
  /\ Down(c)
  /\ asked' = asked \ {c}
  /\ IF connected' THEN UNCHANGED <<last, resub>> ELSE last' = None /\ resub' = FALSE
  /\ UNCHANGED <<stream, book, known, faults>>

(* The exchange: behind what is on its way comes a snapshot.               *)
Resubscribed(c) ==
  /\ c \in asked /\ due[c] = None
  /\ asked' = asked \ {c}
  /\ due' = [due EXCEPT ![c] = head]
  /\ UNCHANGED <<wsVars, head, pos, last, book, known, resub, faults>>

LoadInstruments ==
  /\ ~ known
  /\ known' = TRUE
  /\ UNCHANGED <<wsVars, stream, last, book, resub, asked, faults>>

Exchange == Publish /\ UNCHANGED <<wsVars, sync, faults>>

Connection ==
  /\ \/ \E c \in Conns : Opened(c) \/ OtherFrame(c)
     \/ Supervise /\ UNCHANGED stream
  /\ UNCHANGED <<sync, faults>>

Next ==
  \/ Exchange \/ Connection \/ LoadInstruments
  \/ \E c \in Conns : \/ Snapshot(c) \/ Change(c) \/ Malformed(c)
                      \/ AfterLifecycle(c) \/ Resubscribed(c)

Spec == Init /\ [][Next]_vars

-----------------------------------------------------------------------------

TypeOK ==
  /\ StreamTypeOK
  /\ last \in 0..MaxUpdates \cup {None}
  /\ resub \in BOOLEAN
  /\ asked \subseteq open

(* The book is the exchange's book at the last change, whatever is lost,   *)
(* late or doubled, as long as no snapshot is awaited.                     *)
BookIsTrue == (book # None /\ last # None /\ ~ resub) => book = BookAt(last)

(* "On a book gap only the book channel is re-subscribed (fresh snapshot)":*)
(* a book that waits for a snapshot gets one: it is asked for, or under way*)
(* on some connection.                                                     *)
SnapshotComes ==
  ((last = None \/ resub) /\ connected) => \E c \in open : c \in asked \/ due[c] # None

=============================================================================

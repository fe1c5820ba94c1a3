----------------------------- MODULE ManagedWs -----------------------------
(***************************************************************************)
(* The managed WebSocket of quanta.net.ws: one logical stream over a       *)
(* physical connection that is replaced when it closes, and rotated before *)
(* the exchange's 24 hours are over by opening the next connection while   *)
(* the old one still delivers.  `run` is the supervising coroutine, every  *)
(* open connection has a reader of its own that ends when it closes.  The  *)
(* connections are slots that are used again; backoff and ages are left    *)
(* out, because they only delay.                                           *)
(***************************************************************************)
EXTENDS Naturals, Sequences, FiniteSets

CONSTANTS
  Conns,   \* slots for physical connections
  None     \* no connection, no book, no scales

ASSUME WsAssumption == None \notin Conns

VARIABLES
  run,     \* what the supervisor is doing
  active,  \* _active
  other,   \* the connection being rotated in, or the one being closed
  open,    \* the connections whose reader runs
  seen     \* the connection being rotated in has delivered its first frame

wsVars == <<run, active, other, open, seen>>

(* The `connected` property; its value after the step is connected'.       *)
connected == active \in open

WsInit ==
  /\ run = "connect"
  /\ active = None
  /\ other = None
  /\ open = {}
  /\ seen = FALSE

(* A connection is opened when there is none; a failed attempt is repeated.*)
Connect(c) ==
  /\ run = "connect"
  /\ c \notin open
  /\ active' = c
  /\ open' = open \cup {c}
  /\ run' = "serve"
  /\ UNCHANGED <<other, seen>>

Notice ==
  /\ run = "serve" /\ ~ connected
  /\ active' = None
  /\ run' = "connect"
  /\ UNCHANGED <<other, open, seen>>

(* The active connection is old: the next one is opened beside it, or that *)
(* fails and is tried again later.                                         *)
Rotate(c) ==
  /\ run = "serve" /\ connected
  /\ c \notin open
  /\ other' = c
  /\ open' = open \cup {c}
  /\ seen' = FALSE
  /\ run' = "first"
  /\ UNCHANGED active

(* The first frame has come on the new connection: both are left open for  *)
(* the overlap.                                                            *)
Overlap ==
  /\ run = "first"
  /\ seen /\ other \in open
  /\ run' = "overlap"
  /\ UNCHANGED <<active, other, open, seen>>

(* No frame in time, or closed again: the new one is given up.             *)
GiveUp ==
  /\ run = "first"
  /\ ~ seen \/ other \notin open
  /\ run' = "closing"
  /\ UNCHANGED <<active, other, open, seen>>

(* Bug for the mutants: the old connection is not closed.                  *)
SwitchKeepsOld ==
  /\ run = "overlap"
  /\ active' = other
  /\ other' = None
  /\ run' = "serve"
  /\ UNCHANGED <<open, seen>>

Switch ==
  /\ run = "overlap"
  /\ active' = other
  /\ other' = active
  /\ run' = "closing"
  /\ UNCHANGED <<open, seen>>

(* _close returns when the reader has ended.                               *)
Closed ==
  /\ run = "closing"
  /\ other \notin open
  /\ other' = None
  /\ run' = "serve"
  /\ UNCHANGED <<active, open, seen>>

(* A connection ends: the exchange or the network closed it, it was idle   *)
(* for too long, or the supervisor closes it.                              *)
Down(c) ==
  /\ c \in open
  /\ open' = open \ {c}
  /\ UNCHANGED <<run, active, other, seen>>

(* A frame on connection c.                                                *)
Frame(c) ==
  /\ c \in open
  /\ seen' = (seen \/ c = other)
  /\ UNCHANGED <<run, active, other, open>>

Supervise == Notice \/ Overlap \/ GiveUp \/ Switch \/ Closed

-----------------------------------------------------------------------------

WsTypeOK ==
  /\ run \in {"connect", "serve", "first", "overlap", "closing"}
  /\ active \in Conns \cup {None}
  /\ other \in Conns \cup {None}
  /\ open \subseteq Conns
  /\ seen \in BOOLEAN

(* No connection is left delivering that nobody will close: outside a      *)
(* rotation at most the active one is open, during it one more.            *)
NoStray ==
  /\ open \subseteq {active, other}
  /\ run = "connect" => open = {}
  /\ run = "serve" => other = None

=============================================================================

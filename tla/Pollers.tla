------------------------------ MODULE Pollers -------------------------------
(***************************************************************************)
(* The REST pollers of the Binance recorder (poll_loop of recorder.base,   *)
(* poll_error and the jobs of recorder.binance_usdm): each job asks, for   *)
(* one symbol after the other, and sleeps.  An error ends the round of its *)
(* job; HTTP 451, which Binance answers where it serves nobody, raises a   *)
(* flag that only a good answer to the server-time job takes down, and a   *)
(* rate limit holds up every request (the weight budget).                  *)
(*                                                                         *)
(* Requests are asked at the tick they are due and are answered, or given  *)
(* up, within Timeout.                                                     *)
(***************************************************************************)
EXTENDS Integers, Sequences, FiniteSetsExt, Functions

CONSTANTS
  Clock, PerSymbol,          \* jobs: server_time, and one that asks per symbol
  Symbols,                   \* the universe, in order
  Interval,                  \* per job
  RestrictedWait,            \* after HTTP 451 (300 s)
  RetryAfter,                \* what a rate limit asks for
  Timeout,                   \* of a request
  LastTick, MaxMoves, MaxFaults  \* bounds

VARIABLES
  now,
  eligible,    \* the location is served
  changed,     \* when that changed last
  delisted,    \* symbols that Binance does not know (any more)
  job,         \* [at, due, i, asked, refused]: asleep until due, or asking for the i-th symbol
  blocked,     \* of the budget
  restricted,  \* the flag
  heard,       \* per symbol: when it was recorded last
  fault,       \* when a request failed last
  count        \* of moves and faults

vars == <<now, eligible, changed, delisted, job, blocked, restricted, heard, fault, count>>

Jobs == {Clock, PerSymbol}

PollersAssumption ==
  /\ Clock # PerSymbol
  /\ Symbols # <<>> /\ Symbols \in Seq(Range(Symbols))
  /\ Interval \in [Jobs -> Nat \ {0}]
  /\ {RestrictedWait, RetryAfter, Timeout} \subseteq Nat

Asleep(t) == [at |-> "asleep", due |-> t, i |-> 1, asked |-> 0, refused |-> FALSE]

(* prepare has asked for the exchange info; a job begins with a jitter.    *)
Init ==
  /\ now = 0
  /\ eligible \in BOOLEAN /\ changed = 0
  /\ delisted \in SUBSET Range(Symbols)
  /\ job \in [Jobs -> {Asleep(t) : t \in {0, 1}}]
  /\ blocked = 0
  /\ restricted = ~ eligible
  /\ heard = [s \in Range(Symbols) |-> 0]
  /\ fault = 0
  /\ count = [moves |-> 0, faults |-> 0]

-----------------------------------------------------------------------------

Ready(j) == job[j].at = "asleep" /\ now >= job[j].due /\ now >= blocked

(* Whether it is refused is decided when it reaches Binance.               *)
Ask(j) ==
  /\ Ready(j)
  /\ job' = [job EXCEPT ![j].at = "asks", ![j].asked = now, ![j].refused = ~ eligible]
  /\ UNCHANGED <<now, eligible, changed, delisted, blocked, restricted, heard, fault, count>>

(* poll_loop: the round is over.                                           *)
Sleep(j, delay) == job' = [job EXCEPT ![j] = Asleep(now + delay)]

Asks(j) == job[j].at = "asks"

Symbol(j) == Symbols[job[j].i]

Known(j) == j = PerSymbol => Symbol(j) \notin delisted

(* A good answer is recorded; the next symbol, or the round is over.       *)
Answer(j) ==
  /\ Asks(j) /\ ~ job[j].refused /\ Known(j)
  /\ restricted' = (restricted /\ j # Clock)
  /\ IF j = PerSymbol /\ job[j].i < Len(Symbols)
     THEN job' = [job EXCEPT ![j].at = "asleep", ![j].i = @ + 1, ![j].due = now]
     ELSE Sleep(j, Interval[j])
  /\ heard' = IF j = PerSymbol THEN [heard EXCEPT ![Symbol(j)] = now] ELSE heard
  /\ UNCHANGED <<now, eligible, changed, delisted, blocked, fault, count>>

(* Bug for the mutants: the job gives up.                                  *)
RefusedForGood(j) ==
  /\ Asks(j) /\ job[j].refused
  /\ restricted' = TRUE
  /\ Sleep(j, LastTick)
  /\ UNCHANGED <<now, eligible, changed, delisted, blocked, heard, fault, count>>

(* HTTP 451: poll_error and _mark_restricted.                              *)
Refused(j) ==
  /\ Asks(j) /\ job[j].refused
  /\ restricted' = TRUE
  /\ Sleep(j, Max({Interval[j], RestrictedWait}))
  /\ UNCHANGED <<now, eligible, changed, delisted, blocked, heard, fault, count>>

(* HTTP 400 of a symbol Binance does not know: the round is over.          *)
Unknown(j) ==
  /\ Asks(j) /\ ~ job[j].refused /\ ~ Known(j)
  /\ Sleep(j, Interval[j])
  /\ UNCHANGED <<now, eligible, changed, delisted, blocked, restricted, heard, fault, count>>

(* A rate limit (of this job or of other requests from this address) or    *)
(* another error, no answer, or one that cannot be read.                   *)
Fails(j) ==
  /\ Asks(j) /\ count.faults < MaxFaults
  /\ count' = [count EXCEPT !.faults = @ + 1]
  /\ fault' = now
  /\ \/ Sleep(j, Max({Interval[j], RetryAfter})) /\ blocked' = Max({blocked, now + RetryAfter})
     \/ Sleep(j, Interval[j]) /\ UNCHANGED blocked
  /\ UNCHANGED <<now, eligible, changed, delisted, restricted, heard>>

(* Another job is refused, the snapshot worker, or a reload of the exchange*)
(* info: they raise the flag and never take it down.                       *)
OtherRefused ==
  /\ ~ restricted
  /\ ~ eligible \/ (count.moves > 0 /\ now - changed <= Timeout)
  /\ restricted' = TRUE
  /\ UNCHANGED <<now, eligible, changed, delisted, job, blocked, heard, fault, count>>

-----------------------------------------------------------------------------

Move ==
  /\ count.moves < MaxMoves
  /\ count' = [count EXCEPT !.moves = @ + 1]
  /\ eligible' = ~ eligible /\ changed' = now
  /\ UNCHANGED <<now, delisted, job, blocked, restricted, heard, fault>>

Tick ==
  /\ now < LastTick
  /\ \A j \in Jobs : ~ Ready(j) /\ (Asks(j) => now - job[j].asked < Timeout)
  /\ now' = now + 1
  /\ UNCHANGED <<eligible, changed, delisted, job, blocked, restricted, heard, fault, count>>

Next ==
  \/ \E j \in Jobs : Ask(j) \/ Answer(j) \/ Refused(j) \/ Unknown(j) \/ Fails(j)
  \/ OtherRefused \/ Move \/ Tick

Spec == Init /\ [][Next]_vars

-----------------------------------------------------------------------------

Calm == now - Max({changed, fault})

(* The flag tells the truth: it is up when the location has been refused   *)
(* for as long as a job may sleep and two requests last, and down when it  *)
(* has been served for as long as a refused job waits, whatever answers    *)
(* come late.                                                              *)
FlagIsTrue ==
  LET asleep == Max({Interval[Clock], RetryAfter})
  IN  /\ ~ eligible /\ Calm > asleep + 2 * Timeout => restricted
      /\ eligible /\ Calm > Max({asleep, RestrictedWait}) + 2 * Timeout => ~ restricted

(* One request for each symbol, twice, and what the job may sleep between: *)
(* after a refusal, or between a round that a rate limit held up and the   *)
(* next.                                                                   *)
Round ==
  Max({RestrictedWait, RetryAfter + Interval[PerSymbol]}) + (2 * Len(Symbols) + 1) * Timeout

Polled(i) == eligible /\ Calm > Round => now - heard[Symbols[i]] <= Round

(* A symbol goes on being recorded while the location is served and no     *)
(* request fails - unless Binance does not know one that comes before it   *)
(* in the universe.                                                        *)
SymbolsAreFresh ==
  \A i \in DOMAIN Symbols : (\A k \in 1 .. i : Symbols[k] \notin delisted) => Polled(i)

(* Every symbol that Binance knows: does not hold.                         *)
KnownSymbolsAreFresh == \A i \in DOMAIN Symbols : Symbols[i] \notin delisted => Polled(i)

-----------------------------------------------------------------------------
(* Why they hold.                                                          *)

TypeOK ==
  /\ {now, changed, fault, blocked} \subseteq Nat
  /\ eligible \in BOOLEAN /\ restricted \in BOOLEAN
  /\ job \in [Jobs -> [at : {"asleep", "asks"}, due : Nat, i : DOMAIN Symbols, asked : Nat,
                        refused : BOOLEAN]]
  /\ job[Clock].i = 1
  /\ heard \in [Range(Symbols) -> Nat]

(* What happened is past; nothing is asked later than it can be, and an    *)
(* answer does not take longer than Timeout.                               *)
InTime ==
  /\ changed <= now /\ fault <= now /\ blocked <= fault + RetryAfter
  /\ \A s \in Range(Symbols) : heard[s] <= now
  /\ \A j \in Jobs :
       /\ ~ Asks(j) => now <= job[j].due \/ now <= blocked
       /\ Asks(j) => job[j].asked <= now /\ now <= job[j].asked + Timeout
       /\ Asks(j) /\ job[j].refused = eligible => job[j].asked <= changed

Shaken == Max({changed, fault})

(* From c on, job j begins to ask within d.                                *)
Begins(j, c, d) == IF Asks(j) THEN job[j].asked <= c + d ELSE job[j].due <= c + d

Nap == Max({Interval[Clock], RetryAfter})

LongNap == Max({Nap, RestrictedWait})

(* The next question that will be answered as things are now.              *)
ClockIsSoon ==
  /\ ~ Asks(Clock) => job[Clock].due <= now + (IF restricted THEN LongNap ELSE Nap)
  /\ ~ eligible /\ ~ restricted => Begins(Clock, Shaken, Timeout + Nap)
  /\ eligible /\ restricted     => Begins(Clock, Shaken, Timeout + LongNap)

Between == Max({RestrictedWait, RetryAfter + Interval[PerSymbol]})

(* How long the job may take to the symbol it is at, from when symbol i was*)
(* recorded, or things changed.                                            *)
Way(i) ==
  LET p == job[PerSymbol].i
  IN  IF p <= i THEN Between + (Len(Symbols) + p) * Timeout ELSE RetryAfter + p * Timeout

SymbolsAreSoon ==
  /\ ~ Asks(PerSymbol) =>
       job[PerSymbol].due <= now + (IF job[PerSymbol].i = 1 THEN Between ELSE 0)
  /\ \A i \in DOMAIN Symbols :
       eligible /\ (\A k \in 1..i : Symbols[k] \notin delisted) =>
         Begins(PerSymbol, Max({Shaken, heard[Symbols[i]]}), Way(i))

PollersInv == TypeOK /\ InTime /\ ClockIsSoon /\ SymbolsAreSoon

=============================================================================

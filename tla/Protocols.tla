----------------------------- MODULE Protocols ------------------------------
(***************************************************************************)
(* DepthSync and TraderControl put together, for TLC and for TLAPS: the    *)
(* initial state chooses one of them, which then runs by itself while the  *)
(* other stays as it is at first.  The two connections of DepthSync are    *)
(* interchangeable; the drill is left to ControlLive.cfg.  The theorems are*)
(* about TraderControl, for any number of commands, failures, lost answers *)
(* and crashes, and about the two together.                                *)
(***************************************************************************)
EXTENDS DepthSyncProofs, TraderControl, TLAPS

VARIABLE part

Interchangeable == Permutations(Conns)

ProtocolsInit ==
  /\ \/ part = "depth"
     \/ part = "control" /\ scales = None
  /\ Init /\ TraderInit

(* Bounds: a call fails, an answer is lost or a position is missed, one of *)
(* the three; with fairness, a position is missed or the others happen.    *)
OneFault == spent.failures + spent.unknown + spent.lags <= 1
OneLoss  == spent.lags > 0 => spent.failures + spent.unknown + spent.crashes = 0

ProtocolsNext ==
  \/ part = "depth"   /\ Next                    /\ UNCHANGED <<part, traderVars>>
  \/ part = "control" /\ TraderNext /\ OneFault' /\ UNCHANGED <<part, vars>>

ProtocolsSpec == ProtocolsInit /\ [][ProtocolsNext]_<<part, vars, traderVars>>

(* TraderControl alone, with the fairness of its tasks.                     *)
ControlInit == part = "control" /\ scales = None /\ Init /\ TraderInit

ControlNext == TraderNext /\ OneLoss' /\ UNCHANGED <<part, vars>>

ControlSpec == ControlInit /\ [][ControlNext]_<<part, vars, traderVars>> /\ Fairness

-----------------------------------------------------------------------------

TypesOK == IF part = "depth" THEN TypeOK ELSE TraderTypeOK

-----------------------------------------------------------------------------
(* TraderControl.                                                          *)

USE TraderControlAssumption

Spent == [drills : 0..MaxDrills, commands : 0..MaxCommands, failures : 0..MaxFailures,
          unknown : 0..MaxUnknown, crashes : 0..MaxCrashes, lags : 0..MaxLags]

LEMMA SpendType ==
  ASSUME spent \in Spent
  PROVE  /\ Spend("drills", MaxDrills) => spent' \in Spent
         /\ Spend("commands", MaxCommands) => spent' \in Spent
         /\ Spend("failures", MaxFailures) => spent' \in Spent
         /\ Spend("unknown", MaxUnknown) => spent' \in Spent
         /\ Spend("crashes", MaxCrashes) => spent' \in Spent
         /\ Spend("lags", MaxLags) => spent' \in Spent
  BY DEF Spend, Spent

USE DEF ACTIVE, HALTED, FLATTENING, Flattening, control, tasks, account

(* TraderTypeOK, in parts: each action disturbs a few of them.             *)
Reasons == {"none", "system", "operator", "drill"}

FlatType == [by : {"none", "loop", "drill"}, why : Reasons, step : {"cancel", "close", "verify"},
             left : 0..4, back : {"top", "resolve", "protect", "commands"}]

KillType ==
  /\ sticky \in ACTIVE..FLATTENING
  /\ reason \in Reasons
  /\ conds \subseteq Conditions
  /\ asked \in BOOLEAN

TaskType ==
  /\ loop \in {"top", "account", "resolve", "reconcile", "flatten?", "flatten", "protect",
               "commands"}
  /\ drill \in {"idle", "opening", "opened", "flattening", "after"}
  /\ canary \in {"idle", "entering", "filled", "holding", "closing"}

FlagType == since \in BOOLEAN /\ ready \in BOOLEAN /\ frozen \in BOOLEAN

FileType == files \in Seq({"halt", "resume", "flatten"})

AccountType ==
  /\ entry \in [Owners -> {"none", "flying", "open"}]
  /\ position \in Nat
  /\ stop \in BOOLEAN

TraderTypes == KillType /\ flat \in FlatType /\ TaskType /\ FlagType /\ FileType /\ AccountType
               /\ spent \in Spent

LEMMA SpentStep == ASSUME spent \in Spent, [TraderNext]_traderVars PROVE spent' \in Spent
<1> USE SpendType
<1>1. CASE Top \/ Account \/ Resolve \/ FlattenIfTold \/ Commands
  BY <1>1 DEF Top, Account, Resolve, FlattenIfTold, Commands
<1>2. CASE Reconcile \/ EnsureProtected \/ PassFails
  BY <1>2 DEF Reconcile, EnsureProtected, Protects, PassFails
<1>3. CASE FlattenCancels \/ FlattenCloses \/ FlattenEnds \/ FlattenFails
  BY <1>3 DEF FlattenCancels, FlattenCloses, FlattenEnds, FlattenFails
<1>4. ASSUME NEW t \in Owners, EntryArrives(t) \/ EntryFills(t) \/ EntryUnknown(t)
      PROVE  spent' \in Spent
  BY <1>4 DEF EntryArrives, EntryFills, EntryUnknown
<1>5. CASE StopFires \/ CanaryEnters \/ CanaryGivesUp \/ CanaryProtects \/ CanaryReleases
  BY <1>5 DEF StopFires, CanaryEnters, CanaryGivesUp, CanaryProtects, CanaryReleases, PlaceStop
<1>6. CASE CanaryCloses
  BY <1>6 DEF CanaryCloses
<1>7. CASE DrillOpens \/ DrillProtects \/ DrillFlattens \/ DrillEnds
  BY <1>7 DEF DrillOpens, DrillProtects, DrillFlattens, DrillEnds, PlaceStop
<1>8. CASE WriteCommand \/ Crash \/ UNCHANGED traderVars
  BY <1>8 DEF WriteCommand, Crash, traderVars
<1> QED
  BY <1>1, <1>2, <1>3, <1>4, <1>5, <1>6, <1>7, <1>8
  DEF TraderNext, LoopStep, FlattenStep, CanaryStep, DrillStep

LEMMA FlatStep == ASSUME KillType, flat \in FlatType, [TraderNext]_traderVars PROVE flat' \in FlatType
<1>1. ASSUME UNCHANGED flat PROVE flat' \in FlatType
  BY <1>1
<1>2. ASSUME NEW by \in {"loop", "drill"}, NEW back \in {"top", "resolve", "protect", "commands"},
             NEW why \in Reasons, Flatten(by, why, back)
      PROVE  flat' \in FlatType
  BY <1>2 DEF Flatten, FlatType
<1>3. CASE Account
  BY <1>1, <1>2, <1>3 DEF Account, Reasons
<1>4. CASE FlattenIfTold
  BY <1>1, <1>2, <1>4 DEF FlattenIfTold, KillType
<1>5. CASE EnsureProtected
  BY <1>1, <1>2, <1>5 DEF EnsureProtected, Protects, Reasons
<1>6. CASE Commands
  BY <1>1, <1>2, <1>6 DEF Commands, Reasons
<1>7. CASE FlattenCancels \/ FlattenCloses
  <2>1. \/ flat' = [flat EXCEPT !.step = "close"]
        \/ flat' = [flat EXCEPT !.step = "verify"]
        \/ flat.left > 0 /\ flat' = [flat EXCEPT !.left = flat.left - 1]
    BY <1>7 DEF FlattenCancels, FlattenCloses
  <2>2. flat.left \in 0..4
    BY DEF FlatType
  <2>3. flat.left > 0 => flat.left - 1 \in 0..4
    BY <2>2
  <2> QED
    BY <2>1, <2>3 DEF FlatType
<1>8. CASE FlattenEnds \/ FlattenFails \/ Crash
  BY <1>8 DEF FlattenEnds, FlattenFails, Crash, NoFlatten, FlatType, Reasons
<1>9. CASE DrillFlattens
  BY <1>1, <1>2, <1>9 DEF DrillFlattens, Reasons
<1>10. CASE Top \/ Resolve \/ Reconcile \/ PassFails
  BY <1>1, <1>10 DEF Top, Resolve, Reconcile, PassFails
<1>11. ASSUME NEW t \in Owners, EntryArrives(t) \/ EntryFills(t) \/ EntryUnknown(t)
       PROVE  UNCHANGED flat
  BY <1>11 DEF EntryArrives, EntryFills, EntryUnknown
<1>12. CASE StopFires \/ CanaryEnters \/ CanaryStep
  BY <1>1, <1>12 DEF StopFires, CanaryEnters, CanaryStep, CanaryGivesUp, CanaryProtects,
                     CanaryReleases, CanaryCloses
<1>13. CASE DrillOpens \/ DrillProtects \/ DrillEnds \/ WriteCommand \/ UNCHANGED traderVars
  BY <1>1, <1>13 DEF DrillOpens, DrillProtects, DrillEnds, WriteCommand, traderVars
<1> QED
  BY <1>1, <1>3, <1>4, <1>5, <1>6, <1>7, <1>8, <1>9, <1>10, <1>11, <1>12, <1>13
  DEF TraderNext, LoopStep, FlattenStep, DrillStep

LEMMA KillStep == ASSUME KillType, flat \in FlatType, [TraderNext]_traderVars PROVE KillType'
<1> USE DEF KillType, Conditions, Reasons
<1>1. ASSUME NEW why \in Reasons, escalate(HALTED, why)
      PROVE  sticky' \in ACTIVE..FLATTENING /\ reason' \in Reasons
  BY <1>1 DEF escalate
<1>2. ASSUME NEW by, NEW back, NEW why \in Reasons, Flatten(by, why, back)
      PROVE  sticky' \in ACTIVE..FLATTENING /\ reason' \in Reasons
  BY <1>2 DEF Flatten, set_sticky
<1>3. CASE Account
  <2>1. conds' \subseteq Conditions /\ asked' \in BOOLEAN
    BY <1>3 DEF Account
  <2>2. sticky' \in ACTIVE..FLATTENING /\ reason' \in Reasons
    BY <1>1, <1>2, <1>3 DEF Account
  <2> QED
    BY <2>1, <2>2
<1>4. CASE FlattenIfTold
  <2>1. UNCHANGED <<conds, asked>>
    BY <1>4 DEF FlattenIfTold
  <2>2. sticky' \in ACTIVE..FLATTENING /\ reason' \in Reasons
    BY <1>2, <1>4 DEF FlattenIfTold
  <2> QED
    BY <2>1, <2>2
<1>5. CASE EnsureProtected
  <2>1. conds' \subseteq Conditions /\ asked' \in BOOLEAN
    BY <1>5 DEF EnsureProtected, Protects
  <2>2. sticky' \in ACTIVE..FLATTENING /\ reason' \in Reasons
    BY <1>2, <1>5 DEF EnsureProtected, Protects
  <2> QED
    BY <2>1, <2>2
<1>6. CASE Commands
  <2>1. conds' \subseteq Conditions /\ asked' \in BOOLEAN
    BY <1>6 DEF Commands
  <2>2. sticky' \in ACTIVE..FLATTENING /\ reason' \in Reasons
    BY <1>1, <1>2, <1>6 DEF Commands, resume
  <2> QED
    BY <2>1, <2>2
<1>7. CASE PassFails
  <2>1. conds' \subseteq Conditions /\ asked' \in BOOLEAN
    BY <1>7 DEF PassFails
  <2>2. sticky' \in ACTIVE..FLATTENING /\ reason' \in Reasons
    BY <1>1, <1>7 DEF PassFails
  <2> QED
    BY <2>1, <2>2
<1>8. CASE DrillFlattens
  <2>1. UNCHANGED <<conds, asked>>
    BY <1>8 DEF DrillFlattens
  <2>2. sticky' \in ACTIVE..FLATTENING /\ reason' \in Reasons
    BY <1>2, <1>8 DEF DrillFlattens
  <2> QED
    BY <2>1, <2>2
<1>9. CASE DrillEnds
  BY <1>9 DEF DrillEnds, resume
<1>10. CASE FlattenEnds
  <2>1. flat.why \in Reasons
    BY DEF FlatType
  <2> QED
    BY <1>10, <2>1 DEF FlattenEnds, set_sticky
<1>11. CASE Top
  <2>1. conds' \subseteq Conditions /\ asked' \in BOOLEAN
    BY <1>11 DEF Top, SetConditions
  <2>2. sticky' \in ACTIVE..FLATTENING /\ reason' \in Reasons
    BY <1>1, <1>11 DEF Top, SetConditions
  <2> QED
    BY <2>1, <2>2
<1>18. CASE Resolve \/ Reconcile
  BY <1>18 DEF Resolve, Reconcile
<1>12. CASE FlattenCancels \/ FlattenFails
  BY <1>12 DEF FlattenCancels, FlattenFails
<1>13. CASE FlattenCloses
  BY <1>13 DEF FlattenCloses
<1>14. ASSUME NEW t \in Owners, EntryArrives(t) \/ EntryFills(t) \/ EntryUnknown(t)
       PROVE  KillType'
  BY <1>14 DEF EntryArrives, EntryFills, EntryUnknown
<1>15. CASE StopFires \/ CanaryEnters \/ CanaryGivesUp \/ CanaryProtects \/ CanaryReleases
  BY <1>15 DEF StopFires, CanaryEnters, CanaryGivesUp, CanaryProtects, CanaryReleases
<1>16. CASE CanaryCloses
  BY <1>16 DEF CanaryCloses
<1>17. CASE DrillOpens \/ DrillProtects \/ WriteCommand \/ Crash \/ UNCHANGED traderVars
  BY <1>17 DEF DrillOpens, DrillProtects, WriteCommand, Crash, traderVars
<1> QED
  BY <1>3, <1>4, <1>5, <1>6, <1>7, <1>8, <1>9, <1>10, <1>11, <1>12, <1>13, <1>14, <1>15, <1>16, <1>17,
     <1>18
  DEF TraderNext, LoopStep, FlattenStep, CanaryStep, DrillStep

LEMMA TaskStep ==
  ASSUME TaskType, flat \in FlatType, [TraderNext]_traderVars
  PROVE  TaskType'
<1> USE DEF TaskType
<1>0. flat.back \in {"top", "resolve", "protect", "commands"}
  BY DEF FlatType
<1>1. CASE Top \/ Account \/ Resolve \/ Reconcile
  BY <1>1 DEF Top, Account, Resolve, Reconcile
<1>2. CASE FlattenIfTold \/ EnsureProtected
  BY <1>2 DEF FlattenIfTold, EnsureProtected, Protects
<1>3. CASE Commands \/ PassFails
  BY <1>3 DEF Commands, PassFails
<1>4. CASE FlattenCancels \/ FlattenCloses \/ FlattenFails
  BY <1>4 DEF FlattenCancels, FlattenCloses, FlattenFails
<1>5. CASE FlattenEnds
  BY <1>0, <1>5 DEF FlattenEnds, FlattenReturns
<1>6. ASSUME NEW t \in Owners, EntryArrives(t) \/ EntryFills(t) \/ EntryUnknown(t)
       PROVE  TaskType'
  BY <1>6 DEF EntryArrives, EntryFills, EntryUnknown
<1>7. CASE StopFires \/ CanaryEnters \/ CanaryGivesUp \/ CanaryProtects \/ CanaryReleases
  BY <1>7 DEF StopFires, CanaryEnters, CanaryGivesUp, CanaryProtects, CanaryReleases
<1>8. CASE CanaryCloses
  BY <1>8 DEF CanaryCloses
<1>9. CASE DrillOpens \/ DrillProtects \/ DrillFlattens \/ DrillEnds
  BY <1>9 DEF DrillOpens, DrillProtects, DrillFlattens, DrillEnds
<1>10. CASE WriteCommand \/ Crash \/ UNCHANGED traderVars
  BY <1>10 DEF WriteCommand, Crash, traderVars
<1> QED
  BY <1>1, <1>2, <1>3, <1>4, <1>5, <1>6, <1>7, <1>8, <1>9, <1>10
  DEF TraderNext, LoopStep, FlattenStep, CanaryStep, DrillStep

LEMMA FlagStep ==
  ASSUME FlagType, AccountType, flat \in FlatType, [TraderNext]_traderVars
  PROVE  FlagType'
<1> USE DEF FlagType
<1>1. CASE Top \/ Account \/ Resolve \/ Reconcile
  BY <1>1 DEF Top, Account, Resolve, Reconcile
<1>2. CASE EnsureProtected
  <2>1. since' \in BOOLEAN
    BY <1>2 DEF EnsureProtected, Protects
  <2> QED
    BY <1>2, <2>1 DEF EnsureProtected, Protects
<1>3. CASE FlattenIfTold \/ Commands \/ PassFails
  BY <1>3 DEF FlattenIfTold, Commands, PassFails
<1>4. CASE FlattenCancels \/ FlattenCloses \/ FlattenFails
  BY <1>4 DEF FlattenCancels, FlattenCloses, FlattenFails
<1>5. CASE FlattenEnds
  BY <1>5 DEF FlattenEnds, FlattenReturns
<1>6. ASSUME NEW t \in Owners, EntryArrives(t) \/ EntryFills(t) \/ EntryUnknown(t)
       PROVE  FlagType'
  BY <1>6 DEF EntryArrives, EntryFills, EntryUnknown
<1>7. CASE StopFires \/ CanaryEnters \/ CanaryGivesUp \/ CanaryProtects \/ CanaryReleases
  BY <1>7 DEF StopFires, CanaryEnters, CanaryGivesUp, CanaryProtects, CanaryReleases
<1>8. CASE CanaryCloses
  BY <1>8 DEF CanaryCloses
<1>9. CASE DrillOpens \/ DrillProtects \/ DrillFlattens \/ DrillEnds
  BY <1>9 DEF DrillOpens, DrillProtects, DrillFlattens, DrillEnds
<1>10. CASE WriteCommand \/ Crash \/ UNCHANGED traderVars
  BY <1>10 DEF WriteCommand, Crash, traderVars
<1> QED
  BY <1>1, <1>2, <1>3, <1>4, <1>5, <1>6, <1>7, <1>8, <1>9, <1>10
  DEF TraderNext, LoopStep, FlattenStep, CanaryStep, DrillStep

LEMMA FileStep == ASSUME FileType, [TraderNext]_traderVars PROVE FileType'
<1> USE DEF FileType
<1>1. ASSUME UNCHANGED files PROVE FileType'
  BY <1>1
<1>2. CASE Commands
  <2>1. CASE UNCHANGED files
    BY <2>1
  <2>2. CASE files # <<>> /\ files' = Tail(files)
    BY <2>2
  <2> QED
    BY <1>2, <2>1, <2>2 DEF Commands
<1>3. CASE WriteCommand
  BY <1>3 DEF WriteCommand
<1>4. CASE Top \/ Account \/ Resolve \/ Reconcile \/ FlattenIfTold \/ EnsureProtected \/ PassFails
  BY <1>4 DEF Top, Account, Resolve, Reconcile, FlattenIfTold, EnsureProtected, Protects, PassFails
<1>5. CASE FlattenCancels \/ FlattenCloses \/ FlattenEnds \/ FlattenFails
  BY <1>5 DEF FlattenCancels, FlattenCloses, FlattenEnds, FlattenFails
<1>6. ASSUME NEW t \in Owners, EntryArrives(t) \/ EntryFills(t) \/ EntryUnknown(t)
      PROVE  UNCHANGED files
  BY <1>6 DEF EntryArrives, EntryFills, EntryUnknown
<1>7. CASE StopFires \/ CanaryEnters \/ CanaryStep
  BY <1>7 DEF StopFires, CanaryEnters, CanaryStep, CanaryGivesUp, CanaryProtects,
              CanaryReleases, CanaryCloses
<1>8. CASE DrillOpens \/ DrillProtects \/ DrillFlattens \/ DrillEnds \/ Crash
           \/ UNCHANGED traderVars
  BY <1>8 DEF DrillOpens, DrillProtects, DrillFlattens, DrillEnds, Crash, traderVars
<1> QED
  BY <1>1, <1>2, <1>3, <1>4, <1>5, <1>6, <1>7, <1>8
  DEF TraderNext, LoopStep, FlattenStep, DrillStep

LEMMA AccountStep == ASSUME AccountType, [TraderNext]_traderVars PROVE AccountType'
<1> USE DEF AccountType, Owners
<1>1. CASE Top \/ Account \/ Resolve \/ Reconcile \/ FlattenIfTold \/ Commands \/ PassFails
  BY <1>1 DEF Top, Account, Resolve, Reconcile, FlattenIfTold, Commands, PassFails
<1>2. CASE EnsureProtected
  BY <1>2 DEF EnsureProtected, Protects
<1>3. CASE FlattenCancels
  <2>1. [t \in Owners |-> IF entry[t] = "open" THEN "none" ELSE entry[t]]
          \in [Owners -> {"none", "flying", "open"}]
    OBVIOUS
  <2>2. entry' \in [Owners -> {"none", "flying", "open"}]
    BY <1>3, <2>1 DEF FlattenCancels
  <2> QED
    BY <1>3, <2>2 DEF FlattenCancels
<1>4. CASE FlattenCloses
  BY <1>4 DEF FlattenCloses
<1>5. CASE FlattenEnds \/ FlattenFails
  BY <1>5 DEF FlattenEnds, FlattenFails
<1>6. ASSUME NEW t \in Owners, EntryArrives(t) \/ EntryFills(t) \/ EntryUnknown(t)
      PROVE  AccountType'
  BY <1>6 DEF EntryArrives, EntryFills, EntryUnknown
<1>7. CASE StopFires \/ CanaryEnters \/ CanaryGivesUp
  <2>1. CASE StopFires
    BY <2>1 DEF StopFires
  <2>2. CASE CanaryEnters
    BY <2>2 DEF CanaryEnters
  <2>3. CASE CanaryGivesUp
    BY <2>3 DEF CanaryGivesUp
  <2> QED
    BY <1>7, <2>1, <2>2, <2>3
<1>8. CASE CanaryProtects \/ CanaryReleases
  BY <1>8 DEF CanaryProtects, CanaryReleases, PlaceStop
<1>9. CASE CanaryCloses
  BY <1>9 DEF CanaryCloses
<1>10. CASE DrillOpens \/ DrillProtects \/ DrillFlattens \/ DrillEnds
  BY <1>10 DEF DrillOpens, DrillProtects, DrillFlattens, DrillEnds, PlaceStop
<1>11. CASE WriteCommand \/ UNCHANGED traderVars
  BY <1>11 DEF WriteCommand, traderVars
<1>12. CASE Crash
  <2>1. [t \in Owners |-> IF entry[t] = "open" THEN "none" ELSE entry[t]]
          \in [Owners -> {"none", "flying", "open"}]
    OBVIOUS
  <2>2. entry' \in [Owners -> {"none", "flying", "open"}]
    BY <1>12, <2>1 DEF Crash
  <2> QED
    BY <1>12, <2>2 DEF Crash
<1> QED
  BY <1>1, <1>2, <1>3, <1>4, <1>5, <1>6, <1>7, <1>8, <1>9, <1>10, <1>11, <1>12
  DEF TraderNext, LoopStep, FlattenStep, CanaryStep, DrillStep

LEMMA TraderTypesHold == TraderSpec => []TraderTypes
<1>1. TraderInit => TraderTypes
  <2> SUFFICES ASSUME TraderInit PROVE TraderTypes
    OBVIOUS
  <2>0. /\ sticky = 0 /\ reason = "none" /\ conds = {} /\ asked = FALSE
        /\ loop = "top" /\ drill = "idle" /\ canary = "idle"
        /\ since = FALSE /\ ready = FALSE /\ frozen = FALSE /\ files = <<>>
    BY DEF TraderInit
  <2>1. KillType
    <3>1. sticky \in ACTIVE..FLATTENING
      BY <2>0
    <3>2. reason \in Reasons
      BY <2>0 DEF Reasons
    <3>3. conds \subseteq Conditions /\ asked \in BOOLEAN
      BY <2>0
    <3> QED
      BY <3>1, <3>2, <3>3 DEF KillType
  <2>4. TaskType
    BY <2>0 DEF TaskType
  <2>5. FlagType
    BY <2>0 DEF FlagType
  <2>6. FileType
    BY <2>0 DEF FileType
  <2>2. flat \in FlatType /\ spent \in Spent
    BY DEF TraderInit, FlatType, NoFlatten, Spent, Reasons
  <2>3. AccountType
    BY DEF TraderInit, AccountType, Owners
  <2> QED
    BY <2>1, <2>2, <2>3, <2>4, <2>5, <2>6 DEF TraderTypes
<1>2. TraderTypes /\ [TraderNext]_traderVars => TraderTypes'
  BY SpentStep, FlatStep, KillStep, TaskStep, FlagStep, FileStep, AccountStep DEF TraderTypes
<1> QED
  BY <1>1, <1>2, PTL DEF TraderSpec

(* Every variable of the trader's control has its type, with drills too.   *)
THEOREM TraderTypeCorrect == TraderSpec => []TraderTypeOK
<1>1. TraderTypes => TraderTypeOK
  BY DEF TraderTypes, KillType, FlatType, TaskType, FlagType, FileType, AccountType, Spent,
         TraderTypeOK, Reasons
<1> QED
  BY <1>1, TraderTypesHold, PTL

-----------------------------------------------------------------------------

(* The part of the state the kill switch is about, without drills.         *)
Stopped ==
  /\ drill = "idle"
  /\ flat.by # "drill"
  /\ flat.by = "loop" => loop = "flatten"
  /\ FlattenOnRecord
  /\ StaysStopped

LEMMA Escalated ==
  ASSUME Stopped, KillType, NEW why, escalate(HALTED, why), UNCHANGED flat
  PROVE  /\ sticky' \in HALTED..FLATTENING
         /\ FlattenOnRecord'
  BY DEF Stopped, KillType, escalate, FlattenOnRecord

LEMMA FlattenStarts ==
  ASSUME NEW why, NEW back, Flatten("loop", why, back)
  PROVE  flat'.by = "loop" /\ sticky' = FLATTENING
  BY DEF Flatten, set_sticky

LEMMA StoppedInductive ==
  ASSUME MaxDrills = 0, TraderTypes, Stopped, [TraderNext]_traderVars
  PROVE  Stopped'
<1>. DEFINE Same == /\ UNCHANGED <<sticky, drill, flat, asked>>
                    /\ loop = "flatten" => loop' = "flatten"
<1>0. KillType /\ flat \in FlatType
  BY DEF TraderTypes
<1>1. ASSUME Same PROVE Stopped'
  BY <1>1 DEF Stopped, FlattenOnRecord, StaysStopped
<1>2. ASSUME NEW why, escalate(HALTED, why), asked' = TRUE, UNCHANGED <<drill, flat>>,
             loop = "flatten" => loop' = "flatten"
      PROVE  Stopped'
  BY <1>0, <1>2, Escalated DEF Stopped, StaysStopped
<1>3. ASSUME NEW why, NEW back, Flatten("loop", why, back), loop' = "flatten", UNCHANGED drill
      PROVE  Stopped'
  BY <1>3, FlattenStarts DEF Stopped, FlattenOnRecord, StaysStopped
<1>4. CASE Top
  <2>1. CASE UNCHANGED <<sticky, asked>>
    BY <1>1, <1>4, <2>1 DEF Top
  <2>2. CASE escalate(HALTED, "system") /\ asked' = TRUE
    BY <1>2, <1>4, <2>2 DEF Top
  <2>. QED
    BY <1>4, <2>1, <2>2 DEF Top, SetConditions
<1>5. CASE Account
  <2>1. CASE UNCHANGED <<sticky, reason, flat, asked>>
    BY <1>1, <1>5, <2>1 DEF Account
  <2>2. CASE Flatten("loop", "system", "resolve") /\ loop' = "flatten"
    BY <1>3, <1>5, <2>2 DEF Account
  <2>3. CASE escalate(HALTED, "system") /\ asked' = TRUE /\ UNCHANGED flat
    BY <1>2, <1>5, <2>3 DEF Account
  <2>. QED
    BY <1>5, <2>1, <2>2, <2>3 DEF Account
<1>6. CASE Resolve \/ Reconcile
  BY <1>1, <1>6 DEF Resolve, Reconcile
<1>7. CASE FlattenIfTold
  <2>1. CASE UNCHANGED <<sticky, reason, flat>>
    BY <1>1, <1>7, <2>1 DEF FlattenIfTold
  <2>2. CASE Flatten("loop", reason, "protect") /\ loop' = "flatten"
    BY <1>3, <1>7, <2>2 DEF FlattenIfTold
  <2>. QED
    BY <1>7, <2>1, <2>2 DEF FlattenIfTold
<1>8. ASSUME NEW held \in BOOLEAN, NEW priced \in BOOLEAN, Protects(held, priced)
      PROVE  Stopped'
  <2>1. CASE UNCHANGED <<sticky, flat>>
    BY <1>1, <1>8, <2>1 DEF Protects
  <2>2. CASE Flatten("loop", "system", "commands") /\ loop' = "flatten"
    BY <1>3, <1>8, <2>2 DEF Protects
  <2>. QED
    BY <1>8, <2>1, <2>2 DEF Protects
<1>9. CASE Commands
  <2>0. flat.by = "none" /\ UNCHANGED drill
    BY <1>0, <1>9 DEF Commands, Stopped, FlatType
  <2>1. CASE UNCHANGED <<sticky, flat, asked>>
    BY <1>1, <1>9, <2>0, <2>1 DEF Stopped, Commands
  <2>2. CASE escalate(HALTED, "operator") /\ asked' = TRUE /\ UNCHANGED <<flat, loop>>
    BY <1>2, <2>0, <2>2
  <2>3. CASE resume /\ asked' = FALSE /\ UNCHANGED flat
    BY <2>0, <2>3 DEF Stopped, StaysStopped, FlattenOnRecord, resume
  <2>4. CASE Flatten("loop", "operator", "commands") /\ loop' = "flatten"
    BY <1>3, <2>0, <2>4
  <2>. QED
    BY <1>9, <2>0, <2>1, <2>2, <2>3, <2>4 DEF Commands
<1>10. CASE PassFails
  <2>0. loop # "flatten" /\ UNCHANGED <<drill, flat>>
    BY <1>10 DEF PassFails
  <2>1. CASE UNCHANGED <<sticky, asked>>
    BY <1>1, <2>0, <2>1
  <2>2. CASE escalate(HALTED, "system") /\ asked' = TRUE
    BY <1>2, <2>0, <2>2
  <2>. QED
    BY <1>10, <2>1, <2>2 DEF PassFails
<1>11. CASE FlattenCancels \/ FlattenCloses
  <2>1. \/ flat' = [flat EXCEPT !.step = "close"]
        \/ flat' = [flat EXCEPT !.step = "verify"]
        \/ flat' = [flat EXCEPT !.left = flat.left - 1]
    BY <1>11 DEF FlattenCancels, FlattenCloses
  <2>2. flat'.by = flat.by
    BY <1>0, <2>1 DEF FlatType
  <2>3. UNCHANGED <<sticky, drill, loop, asked>>
    BY <1>11 DEF FlattenCancels, FlattenCloses
  <2>. QED
    BY <2>2, <2>3 DEF Stopped, FlattenOnRecord, StaysStopped
<1>12. CASE FlattenEnds \/ FlattenFails \/ Crash
  <2>1. /\ flat'.by = "none" /\ drill' = "idle" /\ UNCHANGED asked
        /\ sticky' \in {sticky, HALTED}
    BY <1>12 DEF FlattenEnds, FlattenFails, Crash, FlattenReturns, set_sticky, NoFlatten, Stopped
  <2>. QED
    BY <2>1 DEF Stopped, FlattenOnRecord, StaysStopped
<1>13. ASSUME NEW t \in Owners, EntryArrives(t) \/ EntryFills(t) \/ EntryUnknown(t)
       PROVE  Stopped'
  <2>1. Same
    BY <1>13 DEF EntryArrives, EntryFills, EntryUnknown, Stopped
  <2>. QED
    BY <1>1, <2>1
<1>14. CASE StopFires \/ CanaryEnters \/ CanaryStep
  BY <1>1, <1>14 DEF StopFires, CanaryEnters, CanaryStep, CanaryGivesUp, CanaryProtects,
                     CanaryReleases, CanaryCloses
<1>15. ~ DrillOpens /\ ~ DrillStep
  BY DEF DrillOpens, Spend, Spent, TraderTypes, DrillStep, DrillProtects, DrillFlattens, DrillEnds,
         Stopped
<1>16. CASE WriteCommand \/ UNCHANGED traderVars
  BY <1>1, <1>16 DEF WriteCommand, traderVars
<1>. QED
  BY <1>4, <1>5, <1>6, <1>7, <1>8, <1>9, <1>10, <1>11, <1>12, <1>13, <1>14, <1>15, <1>16
  DEF TraderNext, LoopStep, FlattenStep, EnsureProtected

LEMMA StoppedHolds == ASSUME MaxDrills = 0 PROVE TraderSpec => []Stopped
<1>1. TraderInit => Stopped
  BY DEF TraderInit, NoFlatten, Stopped, FlattenOnRecord, StaysStopped
<1>2. TraderTypes /\ Stopped /\ [TraderNext]_traderVars => Stopped'
  BY StoppedInductive
<1>. QED
  BY <1>1, <1>2, TraderTypesHold, PTL DEF TraderSpec

(* Once a limit, a refused key or the operator has stopped trading, it     *)
(* stays stopped until the operator resumes, if no drill runs.             *)
THEOREM StoppedStays == ASSUME MaxDrills = 0 PROVE TraderSpec => []StaysStopped
<1>1. Stopped => StaysStopped
  BY DEF Stopped
<1>. QED
  BY <1>1, StoppedHolds, PTL

(* A flatten that runs is on record, if no drill runs.                     *)
THEOREM FlattenRecorded == ASSUME MaxDrills = 0 PROVE TraderSpec => []FlattenOnRecord
<1>1. Stopped => FlattenOnRecord
  BY DEF Stopped
<1>. QED
  BY <1>1, StoppedHolds, PTL

-----------------------------------------------------------------------------

(* OnlyResumeLeaves, of one step.                                          *)
LeavesByResume ==
  (sticky >= HALTED /\ sticky' < HALTED) =>
       \/ files # <<>> /\ Head(files) = "resume" /\ files' = Tail(files)
       \/ reason = "drill" /\ drill = "after"

LEMMA OnlyResume ==
  ASSUME KillType, [TraderNext]_traderVars
  PROVE  LeavesByResume
<1> USE DEF LeavesByResume
<1>0. sticky \in Int
  BY DEF KillType
<1>1. CASE sticky' = sticky
  BY <1>0, <1>1
<1>2. ASSUME NEW by, NEW why, NEW back, Flatten(by, why, back) PROVE sticky' = FLATTENING
  BY <1>2 DEF Flatten, set_sticky
<1>3. ASSUME NEW why, escalate(HALTED, why) PROVE sticky' \in Int /\ sticky' >= HALTED
  BY <1>0, <1>3 DEF escalate
<1>4. CASE Account
  BY <1>1, <1>2, <1>3, <1>4 DEF Account
<1>5. CASE FlattenIfTold
  BY <1>1, <1>2, <1>5 DEF FlattenIfTold
<1>6. CASE EnsureProtected
  BY <1>1, <1>2, <1>6 DEF EnsureProtected, Protects
<1>7. CASE Commands
  BY <1>1, <1>2, <1>3, <1>7 DEF Commands
<1>8. CASE PassFails
  BY <1>1, <1>3, <1>8 DEF PassFails
<1>9. CASE FlattenEnds
  BY <1>9 DEF FlattenEnds, set_sticky
<1>10. CASE DrillFlattens
  BY <1>1, <1>2, <1>10 DEF DrillFlattens
<1>11. CASE DrillEnds
  BY <1>1, <1>11 DEF DrillEnds
<1>16. CASE Top
  BY <1>1, <1>3, <1>16 DEF Top, SetConditions
<1>12. CASE Resolve \/ Reconcile \/ FlattenCancels \/ FlattenCloses \/ FlattenFails
  BY <1>1, <1>12 DEF Resolve, Reconcile, FlattenCancels, FlattenCloses, FlattenFails
<1>13. ASSUME NEW t \in Owners, EntryArrives(t) \/ EntryFills(t) \/ EntryUnknown(t) PROVE sticky' = sticky
  BY <1>13 DEF EntryArrives, EntryFills, EntryUnknown
<1>14. CASE StopFires \/ CanaryEnters \/ CanaryStep
  BY <1>1, <1>14 DEF StopFires, CanaryEnters, CanaryStep, CanaryGivesUp, CanaryProtects,
                     CanaryReleases, CanaryCloses
<1>15. CASE DrillOpens \/ DrillProtects \/ WriteCommand \/ Crash \/ UNCHANGED traderVars
  BY <1>1, <1>15 DEF DrillOpens, DrillProtects, WriteCommand, Crash, traderVars
<1> QED
  BY <1>1, <1>4, <1>5, <1>6, <1>7, <1>8, <1>9, <1>10, <1>11, <1>12, <1>13, <1>14, <1>15, <1>16
  DEF TraderNext, LoopStep, FlattenStep, DrillStep

(* Only the operator's resume or the drill that halted itself leads out of *)
(* HALTED and FLATTENING.                                                  *)
THEOREM OnlyResumeHolds == TraderSpec => OnlyResumeLeaves
<1>1. TraderTypes /\ [TraderNext]_traderVars => [LeavesByResume]_traderVars
  BY OnlyResume DEF TraderTypes
<1> QED
  BY <1>1, TraderTypesHold, PTL DEF TraderSpec, OnlyResumeLeaves, LeavesByResume

-----------------------------------------------------------------------------
(* The two together: a behaviour of ProtocolsSpec is one of each of them.  *)

LEMMA RunsDepth == ProtocolsSpec => Spec
<1>1. ProtocolsInit => Init
  BY DEF ProtocolsInit
<1>2. [ProtocolsNext]_<<part, vars, traderVars>> => [Next]_vars
  BY DEF ProtocolsNext
<1> QED
  BY <1>1, <1>2, PTL DEF ProtocolsSpec, Spec

LEMMA RunsTrader == ProtocolsSpec => TraderSpec
<1>1. ProtocolsInit => TraderInit
  BY DEF ProtocolsInit
<1>2. [ProtocolsNext]_<<part, vars, traderVars>> => [TraderNext]_traderVars
  BY DEF ProtocolsNext
<1> QED
  BY <1>1, <1>2, PTL DEF ProtocolsSpec, TraderSpec

(* Whichever of the two runs, every variable has its type.                 *)
THEOREM TypesHold == ProtocolsSpec => []TypesOK
<1>1. TypeOK /\ TraderTypeOK => TypesOK
  BY DEF TypesOK
<1> QED
  BY <1>1, RunsDepth, RunsTrader, DepthTypes, TraderTypeCorrect, PTL

(* With the fairness of its tasks too, only a resume leads out of a halt.  *)
THEOREM ControlResumes == ControlSpec => OnlyResumeLeaves
<1>1. ControlInit => TraderInit
  BY DEF ControlInit
<1>2. [ControlNext]_<<part, vars, traderVars>> => [TraderNext]_traderVars
  BY DEF ControlNext
<1>3. ControlSpec => TraderSpec
  BY <1>1, <1>2, PTL DEF ControlSpec, TraderSpec
<1> QED
  BY <1>3, OnlyResumeHolds

=============================================================================

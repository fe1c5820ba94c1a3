--------------------------- MODULE ServicesProofs ---------------------------
(***************************************************************************)
(* The account keeping implements PositionTruth, for any number of trades, *)
(* any quantities and any number of faults; the update of the server is    *)
(* safe for any number of commits, faults and installations by hand; and   *)
(* that and what is proved about Segments holds in MCServices, where the   *)
(* three run side by side.                                                 *)
(***************************************************************************)
EXTENDS MCServices, TLAPS

-----------------------------------------------------------------------------
(* The account.                                                            *)

(* What the refinement needs: while a reconciliation is in progress the    *)
(* exchange's position and the one it took are among those of `since`.     *)
IInv ==
  /\ position \in Int /\ filled \in Int /\ adjust \in Int
  /\ traded \subseteq [id : Ids, qty : Quantities]
  /\ busy => position \in since
  /\ ~ busy => since = {} /\ snap = None
  /\ snap # None => snap \in since
  /\ since \subseteq Int

LEMMA Initially == Init => IInv /\ Truth!Init
BY DEF Init, StreamInit, IInv, Truth!Init, View

(* Every step keeps the invariant and is a step, or a stutter, of the      *)
(* abstract specification.                                                 *)
LEMMA Step == IInv /\ [Next]_vars => IInv' /\ [Truth!Next]_Truth!vars
<1> SUFFICES ASSUME IInv, [Next]_vars
             PROVE  IInv' /\ [Truth!Next]_Truth!vars
  OBVIOUS
<1> USE LedgerAssumption
<1>1. ASSUME NEW i \in Ids, NEW q \in Quantities, Trade(i, q)
      PROVE  IInv' /\ [Truth!Next]_Truth!vars
  <2>1. q \in Int /\ [id |-> i, qty |-> q] \in [id : Ids, qty : Quantities]
    OBVIOUS
  <2>2. IInv'
    BY <1>1, <2>1 DEF IInv, Trade, storeVars
  <2>3. since' = IF since = {} THEN {} ELSE since \cup {position'}
    BY <1>1 DEF IInv, Trade
  <2>4. Truth!Trade(i, q)
    BY <1>1, <2>3 DEF Truth!Trade, Trade, storeVars, View
  <2> QED BY <2>2, <2>4 DEF Truth!Next
<1>2. ASSUME NEW t \in traded, Told(t)
      PROVE  IInv' /\ [Truth!Next]_Truth!vars
  <2>1. t.qty \in Int
    BY DEF IInv
  <2>2. IInv'
    BY <1>2, <2>1 DEF IInv, Told, AddFill, exchangeVars, loopVars
  <2>3. CASE t.id \in fills
    BY <1>2, <2>2, <2>3 DEF Told, AddFill, exchangeVars, loopVars, Truth!vars, View
  <2>4. CASE t.id \notin fills
    <3>1. View' = View + t.qty
      BY <1>2, <2>1, <2>4 DEF IInv, Told, AddFill, loopVars, View
    <3>2. Truth!Tell(t)
      BY <1>2, <2>4, <3>1 DEF Truth!Tell, Told, AddFill, exchangeVars, loopVars
    <3> QED BY <2>2, <3>2 DEF Truth!Next
  <2> QED BY <2>3, <2>4
<1>3. CASE Stream /\ StreamOnly
  BY <1>3 DEF IInv, StreamOnly, exchangeVars, storeVars, loopVars, View, Truth!vars
<1>4. CASE Elapsed
  BY <1>4 DEF IInv, Elapsed, exchangeVars, storeVars, View, Truth!vars
<1>5. CASE Begin
  <2>1. IInv'
    BY <1>5 DEF IInv, Begin, exchangeVars, storeVars
  <2>2. Truth!Begin
    BY <1>5 DEF IInv, Begin, exchangeVars, storeVars, View, Truth!Begin
  <2> QED BY <2>1, <2>2 DEF Truth!Next
<1>6. CASE TakePositions
  BY <1>6 DEF IInv, TakePositions, exchangeVars, storeVars, View, Truth!vars
<1>7. CASE Compare
  <2>1. snap \in since /\ snap \in Int /\ View \in Int
    <3>1. snap # None
      BY <1>7 DEF Compare
    <3>2. snap \in since /\ snap \in Int
      BY <3>1 DEF IInv
    <3>3. View \in Int
      BY DEF IInv, View
    <3> QED BY <3>2, <3>3
  <2>2. IInv'
    BY <1>7, <2>1 DEF IInv, Compare, Book, View, exchangeVars
  <2>3. View' = snap
    BY <1>7, <2>1 DEF IInv, Compare, Book, View
  <2>4. Truth!End
    BY <1>7, <2>1, <2>3 DEF Compare, exchangeVars, Truth!End
  <2> QED BY <2>2, <2>4 DEF Truth!Next
<1>8. CASE RequestFails
  <2>1. IInv'
    BY <1>8 DEF IInv, RequestFails, exchangeVars, storeVars
  <2>2. Truth!End
    BY <1>8 DEF IInv, RequestFails, exchangeVars, storeVars, View, Truth!End
  <2> QED BY <2>1, <2>2 DEF Truth!Next
<1>9. CASE Crash
  <2>1. IInv'
    BY <1>9 DEF IInv, Crash, exchangeVars, storeVars
  <2>2. CASE since = {}
    BY <1>9, <2>1, <2>2 DEF Crash, exchangeVars, storeVars, View, Truth!vars
  <2>3. CASE since # {}
    <3>1. Truth!End
      BY <1>9, <2>3 DEF Crash, exchangeVars, storeVars, View, Truth!End
    <3> QED BY <2>1, <3>1 DEF Truth!Next
  <2> QED BY <2>2, <2>3
<1>10. CASE UNCHANGED vars
  BY <1>10 DEF IInv, vars, exchangeVars, storeVars, loopVars, View, Truth!vars
<1> QED BY <1>1, <1>2, <1>3, <1>4, <1>5, <1>6, <1>7, <1>8, <1>9, <1>10 DEF Next

(* Our position follows what is told, each trade once, and a comparison    *)
(* sets it to one the exchange had while it was under way                  *)
(* (oms.reconcile, store.add_fill, store.adjust_position).                 *)
THEOREM PositionFollows == Spec => ViewFollows
<1>1. Init => IInv /\ Truth!Init
  BY Initially
<1>2. IInv /\ [Next]_vars => IInv' /\ [Truth!Next]_Truth!vars
  BY Step
<1> QED BY <1>1, <1>2, PTL DEF Spec, ViewFollows, Truth!Spec

-----------------------------------------------------------------------------
(* The update of the server.                                               *)

(* Every step keeps the types and the order of the commits.                *)
LEMMA ServerType ==
  ASSUME Server!UInv, [Server!UpdateNext]_(Server!updateVars)
  PROVE  Server!UInv'
<1> USE ServerAssumption DEF Server!AtLeastOne, Server!Commits, Server!Down,
    Server!NoSha, Server!Results, Server!UInv, Server!github, Server!server,
    Server!history, Server!Fault, Server!Idle, Server!write_state, Server!Works,
    Server!Fails
<1>1. CASE Server!Push
  BY <1>1 DEF Server!Push
<1>2. CASE Server!ChecksEnd
  BY <1>2 DEF Server!ChecksEnd
<1>3. CASE Server!ChecksAgain
  BY <1>3 DEF Server!ChecksAgain
<1>4. CASE Server!Start
  BY <1>4 DEF Server!Start, Server!Skip
<1>5. CASE Server!Gate
  BY <1>5 DEF Server!Gate, Server!Green, Server!Waiting
<1>6. CASE Server!Install
  BY <1>6 DEF Server!Install, Server!Back
<1>7. CASE Server!Rollback
  BY <1>7 DEF Server!Rollback
<1>8. CASE Server!Kill
  BY <1>8 DEF Server!Kill
<1>9. CASE Server!Manual
  BY <1>9 DEF Server!Manual
<1>10. CASE Server!ManualInstall
  BY <1>10 DEF Server!ManualInstall
<1>12. CASE Server!StartUngated
  BY <1>12 DEF Server!StartUngated
<1>11. CASE UNCHANGED Server!updateVars
  BY <1>11 DEF Server!updateVars
<1> QED
  BY <1>1, <1>2, <1>3, <1>4, <1>5, <1>6, <1>7, <1>8, <1>9, <1>10, <1>11,
     <1>12
  DEF Server!UpdateNext, Server!UpdaterStep

(* No step brings an untested commit in.                                   *)
LEMMA ServerTested ==
  ASSUME Server!UInv, Server!TestedInv, [Server!UpdateNext]_(Server!updateVars)
  PROVE  Server!TestedInv'
<1> USE ServerAssumption DEF Server!AtLeastOne, Server!Commits, Server!Down,
    Server!NoSha, Server!UInv, Server!Tested, Server!TestedInv, Server!github,
    Server!server, Server!history, Server!Fault, Server!Idle, Server!write_state,
    Server!Works, Server!Fails
<1>1. CASE Server!Push
  BY <1>1 DEF Server!Push
<1>2. CASE Server!ChecksEnd
  BY <1>2 DEF Server!ChecksEnd
<1>3. CASE Server!ChecksAgain
  BY <1>3 DEF Server!ChecksAgain
<1>4. CASE Server!Start
  BY <1>4 DEF Server!Start, Server!Skip
<1>5. CASE Server!Gate
  BY <1>5 DEF Server!Gate, Server!Green, Server!Waiting
<1>6. CASE Server!Install
  BY <1>6 DEF Server!Install, Server!Back
<1>7. CASE Server!Rollback
  BY <1>7 DEF Server!Rollback
<1>8. CASE Server!Kill
  BY <1>8 DEF Server!Kill
<1>9. CASE Server!Manual
  BY <1>9 DEF Server!Manual
<1>10. CASE Server!ManualInstall
  BY <1>10 DEF Server!ManualInstall
<1>12. CASE Server!StartUngated
  BY <1>12 DEF Server!StartUngated
<1>11. CASE UNCHANGED Server!updateVars
  BY <1>11 DEF Server!updateVars
<1> QED
  BY <1>1, <1>2, <1>3, <1>4, <1>5, <1>6, <1>7, <1>8, <1>9, <1>10, <1>11,
     <1>12
  DEF Server!UpdateNext, Server!UpdaterStep

(* No step hands on another commit than the last that was refused.         *)
LEMMA ServerRefused ==
  ASSUME Server!UInv, Server!RefusedInv, [Server!UpdateNext]_(Server!updateVars)
  PROVE  Server!RefusedInv'
<1> USE ServerAssumption DEF Server!AtLeastOne, Server!Commits, Server!Down,
    Server!NoSha, Server!UInv, Server!RefusedInv, Server!github, Server!server,
    Server!history, Server!Fault, Server!Idle, Server!write_state, Server!Works,
    Server!Fails
<1>1. CASE Server!Push
  BY <1>1 DEF Server!Push
<1>2. CASE Server!ChecksEnd
  BY <1>2 DEF Server!ChecksEnd
<1>3. CASE Server!ChecksAgain
  BY <1>3 DEF Server!ChecksAgain
<1>4. CASE Server!Start
  BY <1>4 DEF Server!Start, Server!Skip
<1>5. CASE Server!Gate
  BY <1>5 DEF Server!Gate, Server!Green, Server!Waiting
<1>6. CASE Server!Install
  BY <1>6 DEF Server!Install, Server!Back
<1>7. CASE Server!Rollback
  BY <1>7 DEF Server!Rollback
<1>8. CASE Server!Kill
  BY <1>8 DEF Server!Kill
<1>9. CASE Server!Manual
  BY <1>9 DEF Server!Manual
<1>10. CASE Server!ManualInstall
  BY <1>10 DEF Server!ManualInstall
<1>12. CASE Server!StartUngated
  BY <1>12 DEF Server!StartUngated
<1>11. CASE UNCHANGED Server!updateVars
  BY <1>11 DEF Server!updateVars
<1> QED
  BY <1>1, <1>2, <1>3, <1>4, <1>5, <1>6, <1>7, <1>8, <1>9, <1>10, <1>11,
     <1>12
  DEF Server!UpdateNext, Server!UpdaterStep

(* No step leaves the services behind without an excuse.                   *)
LEMMA ServerHead ==
  ASSUME Server!UInv, Server!HeadInv, [Server!UpdateNext]_(Server!updateVars)
  PROVE  Server!HeadInv'
<1> DEFINE Installed == IF updater.cur # updater.new \/ services = Server!Down
                        THEN services' = updater.new ELSE UNCHANGED services
<1> HIDE DEF Installed
<1> USE ServerAssumption DEF Server!AtLeastOne, Server!Commits, Server!Down,
    Server!NoSha, Server!UInv, Server!HeadInv, Server!github, Server!server,
    Server!history, Server!Fault, Server!Idle, Server!write_state, Server!Works,
    Server!Fails
<1>1. CASE Server!Push
  BY <1>1 DEF Server!Push
<1>2. CASE Server!ChecksEnd
  BY <1>2 DEF Server!ChecksEnd
<1>3. CASE Server!ChecksAgain
  BY <1>3 DEF Server!ChecksAgain
<1>4. CASE Server!Start
  BY <1>4 DEF Server!Start, Server!Skip
<1>5. CASE Server!Gate
  BY <1>5 DEF Server!Gate, Server!Green, Server!Waiting
<1>6. CASE Server!Install
  BY <1>6 DEF Server!Install, Server!Back
<1>7. CASE Server!Rollback
  BY <1>7 DEF Server!Rollback
<1>8. CASE Server!Kill
  <2>1. updater'.at = "none" /\ head' = head
    BY <1>8 DEF Server!Kill
  <2>2. excuse' = (excuse \/ updater.at # "ci") /\ (updater.at = "ci" => services' = services)
    BY <1>8 DEF Server!Kill
  <2>3. CASE updater.at = "ci"
    <3>1. ~ excuse' => ~ excuse
      BY <2>2, Zenon
    <3> QED BY <2>1, <2>2, <2>3, <3>1
  <2>4. CASE updater.at # "ci"
    <3>1. excuse'
      BY <2>2, <2>4, Zenon
    <3> QED BY <2>1, <3>1
  <2> QED BY <2>3, <2>4
<1>9. CASE Server!Manual
  BY <1>9 DEF Server!Manual
<1>10. CASE Server!ManualInstall
  <2>1. updater'.at = "none" /\ head' = updater.new
    BY <1>10 DEF Server!ManualInstall
  <2>2. CASE excuse' = (excuse /\ updater.cur = updater.new) /\ Installed
    <3>1. CASE updater.cur # updater.new
      BY <2>1, <2>2, <3>1 DEF Installed
    <3>2. CASE updater.cur = updater.new
      <4>1. ~ excuse' => ~ excuse
        BY <2>2, <3>2, Zenon
      <4>2. ~ excuse => services = updater.new
        BY <1>10, <3>2 DEF Server!ManualInstall
      <4>3. ~ excuse => services' = updater.new
        BY <2>2, <3>2, <4>2 DEF Installed
      <4> QED BY <2>1, <4>1, <4>3
    <3> QED BY <3>1, <3>2
  <2>3. CASE excuse' = TRUE
    BY <2>1, <2>3
  <2> QED BY <1>10, <2>2, <2>3 DEF Server!ManualInstall, Installed
<1>12. CASE Server!StartUngated
  BY <1>12 DEF Server!StartUngated
<1>11. CASE UNCHANGED Server!updateVars
  BY <1>11 DEF Server!updateVars
<1> QED
  BY <1>1, <1>2, <1>3, <1>4, <1>5, <1>6, <1>7, <1>8, <1>9, <1>10, <1>11,
     <1>12
  DEF Server!UpdateNext, Server!UpdaterStep

(* The first installation.                                                 *)
LEMMA ServerStarts ==
  Server!UpdateInit => Server!UInv /\ Server!TestedInv /\ Server!RefusedInv /\ Server!HeadInv
BY ServerAssumption
   DEF Server!AtLeastOne, Server!UpdateInit, Server!UInv, Server!TestedInv, Server!Tested,
       Server!RefusedInv, Server!HeadInv, Server!Results, Server!Commits, Server!Down,
       Server!NoSha, Server!Idle

(* The inductive invariant.                                                *)
LEMMA ServerInvariant ==
  Server!UpdateSpec => [](Server!UInv /\ Server!TestedInv /\ Server!RefusedInv /\ Server!HeadInv)
<1>1. /\ Server!UInv /\ Server!TestedInv /\ Server!RefusedInv /\ Server!HeadInv
      /\ [Server!UpdateNext]_(Server!updateVars)
      => Server!UInv' /\ Server!TestedInv' /\ Server!RefusedInv' /\ Server!HeadInv'
  BY ServerType, ServerTested, ServerRefused, ServerHead
<1> QED BY <1>1, ServerStarts, PTL DEF Server!UpdateSpec

(* Whatever fails or is killed, no untested commit runs that the operator  *)
(* did not install (the gate of auto-update.sh, and its rollback).         *)
THEOREM OnlyTestedHolds == Server!UpdateSpec => []Server!OnlyTested
<1>1. Server!TestedInv => Server!OnlyTested
  BY DEF Server!TestedInv, Server!Tested, Server!OnlyTested
<1> QED BY <1>1, ServerInvariant, PTL

(* A commit that was recorded as failed is never deployed again            *)
(* (skipped_failed, and failed_sha that every later run hands on).         *)
THEOREM NotTwiceHolds == Server!UpdateSpec => []Server!NotTwice
<1>1. Server!UInv /\ Server!RefusedInv => Server!NotTwice
  BY DEF Server!UInv, Server!RefusedInv, Server!NotTwice, Server!Commits
<1> QED BY <1>1, ServerInvariant, PTL

(* The services run the commit that is checked out, but for installations  *)
(* that were cut off or failed without a rollback (QUANTA_PREV_HEAD, which *)
(* makes the installer restart them).                                      *)
THEOREM ServicesFollowHolds == Server!UpdateSpec => []Server!RunsWhatIsCheckedOut
<1>1. Server!HeadInv => Server!RunsWhatIsCheckedOut
  BY DEF Server!HeadInv, Server!RunsWhatIsCheckedOut
<1> QED BY <1>1, ServerInvariant, PTL

-----------------------------------------------------------------------------
(* The files and the server: the steps of one part leave the others alone. *)

LEMMA RunsFiles == ServicesSpec => Files!Spec
<1>1. ServicesInit => Files!Init
  BY DEF ServicesInit
<1>2. [ServicesNext]_servicesVars => [Files!Next]_(Files!vars)
  BY DEF ServicesNext, servicesVars, OfFiles, OfAccount, OfServer, fileVars, Files!vars, Files!memory
<1> QED BY <1>1, <1>2, PTL DEF ServicesSpec, Files!Spec

LEMMA RunsServer == ServicesSpec => Server!UpdateSpec
<1>1. ServicesInit => Server!UpdateInit
  BY DEF ServicesInit
<1>2. [ServicesNext]_servicesVars => [Server!UpdateNext]_(Server!updateVars)
  BY DEF ServicesNext, servicesVars, OfFiles, OfAccount, OfServer, serverVars, Server!updateVars,
     Server!github, Server!server, Server!history
<1> QED BY <1>1, <1>2, PTL DEF ServicesSpec, Server!UpdateSpec

LEMMA RunsAccount == ServicesSpec => Spec
<1>1. ServicesInit => Init
  BY DEF ServicesInit
<1>2. [ServicesNext]_servicesVars => [Next]_vars
  BY DEF ServicesNext, servicesVars, OfFiles, OfAccount, OfServer
<1> QED BY <1>1, <1>2, PTL DEF ServicesSpec, Spec

(* The segments of the recorder: what was written can be read, once, in    *)
(* order, in its hour, and nothing is removed before it is in storage.     *)
THEOREM RecordsKept == ServicesSpec => []RecordsAreKept
<1>1. Files!CleanFailures
  BY FilesAssumption DEF Files!CleanFailures
<1>2. Files!Spec => /\ []Files!TypeOK /\ []Files!Durable /\ []Files!InOrder
                    /\ []Files!OwnHour /\ []Files!ManifestTrue
  BY <1>1, Files!TypeCorrect, Files!DurableHolds, Files!InOrderHolds, Files!OwnHourHolds,
     Files!ManifestTrueHolds
<1>3. /\ Files!TypeOK /\ Files!Durable /\ Files!InOrder /\ Files!OwnHour /\ Files!ManifestTrue
      => RecordsAreKept
  BY DEF RecordsAreKept
<1> QED BY <1>2, <1>3, RunsFiles, PTL

(* deploy/updater.sh: nothing untested or known to fail is deployed, and   *)
(* the services run what is checked out unless an installation was cut off *)
(* or failed and was not rolled back.                                      *)
THEOREM UpdatesSafe == ServicesSpec => []UpdatesAreSafe
<1>1. Server!OnlyTested /\ Server!NotTwice /\ Server!RunsWhatIsCheckedOut => UpdatesAreSafe
  BY DEF UpdatesAreSafe
<1> QED BY <1>1, OnlyTestedHolds, NotTwiceHolds, ServicesFollowHolds, RunsServer, PTL

(* The account among the three: its position follows what is told.         *)
THEOREM PositionFollowsHere == ServicesSpec => ViewFollows
BY PositionFollows, RunsAccount, PTL

=============================================================================

-------------------------- MODULE LifecycleProofs --------------------------
(***************************************************************************)
(* The legacy reader with its start taken apart, for every stream, verdict,*)
(* buffer, number of subscriptions and number of failures. What            *)
(* HttpReaderProofs shows of a step carries over: a step of the            *)
(* composition is one of HttpReader, or crosses from one process to the    *)
(* next in one of three ways that HttpReader takes in a single step.       *)
(***************************************************************************)
EXTENDS Lifecycle, HttpReaderProofs

-----------------------------------------------------------------------------
(* What the start does to the reader: it subscribes, it begins with an     *)
(* empty memory, and the server notices that the process before it is gone.*)
Subscribed ==
  /\ connected' = TRUE
  /\ UNCHANGED <<netVars, driverVars, handlerVars, status, deliveries, settlements,
                 processVars>>

Begun == Forget /\ UNCHANGED subVars

Noticed ==
  /\ connected' = FALSE
  /\ TakeBack
  /\ UNCHANGED <<netVars, driverVars, handlerVars, processVars>>

Crossing == Subscribed \/ Begun \/ Noticed

LEMMA LifeStep == [LifeNext]_lifeVars => [HttpNext]_vars \/ Crossing
<1> SUFFICES ASSUME [LifeNext]_lifeVars PROVE [HttpNext]_vars \/ Crossing
  OBVIOUS
<1>1. ASSUME NEW h \in Handlings, Handles(h) PROVE HttpNext
  BY <1>1 DEF Handles, HttpNext, Surroundings
<1>2. CASE StartGoesOn
  BY <1>2 DEF StartGoesOn
<1>3. CASE Die
  BY <1>3 DEF Die, HttpNext, Surroundings
<1>4. CASE Around
  BY <1>4 DEF Around, HttpNext, Surroundings
<1>5. CASE Subscribe
  BY <1>5 DEF Subscribe, Crossing, Subscribed
<1>6. CASE StartAgain
  BY <1>6 DEF StartAgain, Crossing, Begun
<1>7. CASE ServerNotices
  BY <1>7 DEF ServerNotices, Crossing, Noticed
<1>8. CASE UNCHANGED lifeVars
  BY <1>8 DEF lifeVars
<1> QED
  BY <1>1, <1>2, <1>3, <1>4, <1>5, <1>6, <1>7, <1>8 DEF LifeNext

LEMMA LifeInitGivesInit == LifeInit => Init
  BY DEF LifeInit

-----------------------------------------------------------------------------
(* The invariants of the reader survive the crossing.                      *)
LEMMA CrossingKeepsType == TypeInv /\ Crossing => TypeInv'
<1> SUFFICES ASSUME TypeInv, Crossing PROVE TypeInv'
  OBVIOUS
<1> USE DEF TypeInv
<1>1. CASE Subscribed
  BY <1>1, IdleKeepsDriver
  DEF Subscribed, netVars, handlerVars, processVars, NetTypeOK, HandlerTypeOK, SubTypeOK
<1>2. CASE Begun
  <2>1. NetTypeOK' /\ HandlerTypeOK' /\ SubTypeOK'
    BY <1>2 DEF Begun, Forget, NetTypeOK, HandlerTypeOK, subVars, SubTypeOK
  <2>2. DriverInv'
    BY <1>2
    DEF Begun, Forget, DriverInv, DriverTypeOK, HookBudget, PendingIsGuarded, Fresh, WriteStates
  <2>3. interrupted' \in SUBSET Events
    BY <1>2, EventOfHandling DEF Begun, Forget
  <2> QED
    BY <1>2, <2>1, <2>2, <2>3 DEF Begun, Forget
<1>3. CASE Noticed
  <2>1. SubTypeOK'
    BY <1>3, TakeBackKeepsSubscription DEF Noticed
  <2> QED
    BY <1>3, <2>1, IdleKeepsDriver
    DEF Noticed, netVars, handlerVars, processVars, NetTypeOK, HandlerTypeOK
<1> QED
  BY <1>1, <1>2, <1>3 DEF Crossing

(* No copy is made or lost, no hook called, no answer given, nothing let go.*)
LEMMA CrossingTakesBack ==
  ASSUME TypeInv, Crossing
  PROVE  /\ UNCHANGED <<sent, dest, alerted, reported, LetGo, Parked>>
         /\ settlements' \subseteq settlements
         /\ checking' \subseteq checking
         /\ interrupted \subseteq interrupted'
         /\ \A e \in Events : status[e] # "inflight" => status'[e] = status[e]
         /\ \A e \in Events : status'[e] # status[e] => status'[e] = "queued"
<1> USE DEF TypeInv, SubTypeOK
<1>1. CASE Subscribed
  BY <1>1
  DEF Subscribed, netVars, driverVars, handlerVars, processVars, LetGo, Parked
<1>2. CASE Begun
  BY <1>2 DEF Begun, Forget, subVars, LetGo, Parked
<1>3. CASE Noticed
  <2>1. UNCHANGED <<LetGo, Parked>>
    BY <1>3, UnsettledUnseen DEF Noticed
  <2> QED
    BY <1>3, <2>1
    DEF Noticed, TakeBack, netVars, driverVars, handlerVars, processVars
<1> QED
  BY <1>1, <1>2, <1>3 DEF Crossing

(* What a process had begun it still works on, or it is interrupted.       *)
LEMMA CrossingKeepsAccounted ==
  ASSUME TypeInv, Crossing, NEW e \in ValidEvents, Accounted(e)
  PROVE  Accounted(e)'
<1> USE DEF Accounted, Unfinished
<1>1. CASE Begun
  BY <1>1 DEF Begun, Forget
<1>2. CASE Subscribed \/ Noticed
  BY <1>2 DEF Subscribed, Noticed, netVars, driverVars, handlerVars, processVars
<1> QED
  BY <1>1, <1>2 DEF Crossing

-----------------------------------------------------------------------------
LEMMA LifeTypeInvAlways == LifeSpec => []TypeInv
<1>1. TypeInv /\ [LifeNext]_lifeVars => TypeInv'
  BY LifeStep, NextKeepsType, CrossingKeepsType
<1> QED
  BY <1>1, LifeInitGivesInit, TypeInit, PTL DEF LifeSpec

(* However its start fails, the reader sends nothing that is not valid.    *)
THEOREM LifeOnlyValidCopied == LifeSpec => []OnlyValidCopied
<1>1. LifeInit => OnlyValidCopied
  BY LifeInitGivesInit DEF Init, DriverInit, OnlyValidCopied
<1>2. TypeInv /\ OnlyValidCopied /\ [LifeNext]_lifeVars => OnlyValidCopied'
  BY LifeStep, NextKeepsValid, CrossingTakesBack DEF OnlyValidCopied, ValidEvents
<1> QED
  BY <1>1, <1>2, LifeTypeInvAlways, PTL DEF LifeSpec

(* No write hangs unreported, over all the processes.                      *)
THEOREM LifeWritesAreGuarded == LifeSpec => []PendingIsGuarded
<1>1. TypeInv => PendingIsGuarded
  BY DEF TypeInv, DriverInv
<1> QED
  BY <1>1, LifeTypeInvAlways, PTL

(* No start reports a write that is confirmed.                             *)
THEOREM LifeNoAlarmAfterWritten == LifeSpec => NoAlarmAfterSuccess
<1>1. TypeInv /\ [LifeNext]_lifeVars => [Quiet]_writeVars
  <2> SUFFICES ASSUME TypeInv, Crossing PROVE Quiet
    BY LifeStep, NextIsQuiet
  <2> QED
    BY DEF Crossing, Subscribed, Begun, Forget, Fresh, Noticed, driverVars, TypeInv, DriverInv,
           DriverTypeOK, Quiet
<1> QED
  BY <1>1, LifeTypeInvAlways, PTL DEF LifeSpec, NoAlarmAfterSuccess, Quiet

(* An event may be lost only with a process that had begun it, also when   *)
(* the next one starts while its answers are still on their way.           *)
THEOREM LifeLostOnlyIfInterrupted == LifeSpec => []LostOnlyIfInterrupted
<1>1. TypeInv /\ LostInv /\ [LifeNext]_lifeVars => LostInv'
  <2> SUFFICES ASSUME TypeInv, LostInv, Crossing PROVE LostInv'
    BY LifeStep, NextKeepsLost
  <2> QED
    BY CrossingTakesBack, CrossingKeepsAccounted DEF LostInv, ValidEvents
<1> QED
  BY <1>1, LifeInitGivesInit, LostInit, LostInvGivesLost, LifeTypeInvAlways, PTL DEF LifeSpec

LEMMA LifeCopyInvAlways ==
  ASSUME ~AutoAck
  PROVE  LifeSpec => []CopyInv
<1>1. LifeInit => CopyInv
  BY LifeInitGivesInit DEF Init, SubInit, CopyInv, AnswersAreSafe, LetGoIsCopied, LetGo
<1>2. TypeInv /\ CopyInv /\ [LifeNext]_lifeVars => CopyInv'
  <2> SUFFICES ASSUME TypeInv, CopyInv, Crossing PROVE CopyInv'
    BY LifeStep, NextKeepsCopies
  <2>1. LetGo' = LetGo /\ settlements' \subseteq settlements /\ UNCHANGED <<dest, alerted>>
    BY CrossingTakesBack
  <2> QED
    BY <2>1 DEF CopyInv, AnswersAreSafe, LetGoIsCopied, Safe, ValidEvents
<1> QED
  BY <1>1, <1>2, LifeTypeInvAlways, PTL DEF LifeSpec

(* What a process has told the net, the ones after it need not tell again: *)
(* however the starts fail, an event the group lets go is copied or was    *)
(* reported.                                                               *)
THEOREM LifeNothingGoesSilently ==
  ASSUME ~AutoAck
  PROVE  LifeSpec => []NothingGoesSilently
<1>1. TypeInv /\ TellInv /\ [LifeNext]_lifeVars => TellInv'
  <2> SUFFICES ASSUME TypeInv, TellInv, Crossing PROVE TellInv'
    BY LifeStep, NextKeepsTelling
  <2> QED
    BY CrossingTakesBack DEF TellInv, AnswersAreNoted, NothingGoesSilently, Noted
<1>2. TellInv => NothingGoesSilently
  BY DEF TellInv
<1> QED
  BY <1>1, <1>2, LifeInitGivesInit, TellInit, LifeTypeInvAlways, PTL DEF LifeSpec

(* The composition implements ReliableCopy: that a start is taken apart,   *)
(* fails half way or meets a server that has not noticed yet is not to be  *)
(* seen from outside.                                                      *)
THEOREM LifeCopiesReliably ==
  ASSUME KillsProcess, ~AutoAck
  PROVE  LifeSpec => CopiesReliably
<1>1. LifeInit => Promise!CopyInit
  BY LifeInitGivesInit, CopyInit
<1>2. TypeInv /\ CopyInv /\ OnlyValidCopied /\ [LifeNext]_lifeVars
        => [Promise!CopyNext]_<<dest, LetGo, Parked>>
  BY LifeStep, NextCopies, CrossingTakesBack
<1> QED
  BY <1>1, <1>2, LifeTypeInvAlways, LifeCopyInvAlways, LifeOnlyValidCopied, PTL
  DEF LifeSpec, CopiesReliably, Promise!CopySpec, Promise!copyVars

(* With a buffer of one the order of the source survives every failure of  *)
(* the start: what a late server takes back is first touched again in its  *)
(* turn.                                                                   *)
THEOREM LifeCopiesInOrder ==
  ASSUME BufferSize = 1, KillsProcess, ~AutoAck
  PROVE  LifeSpec => []InOrder
<1>1. TypeInv /\ OrderInv /\ [LifeNext]_lifeVars => OrderInv'
  <2> SUFFICES ASSUME TypeInv, OrderInv, Crossing PROVE OrderInv'
    BY LifeStep, NextKeepsOrder
  <2>1. \A f \in Events : Touched(f)' => Touched(f)
    BY CrossingTakesBack DEF Touched
  <2>2. \A e \in Events : status[e] \in Final => status'[e] \in Final
    BY CrossingTakesBack DEF Final
  <2> QED
    BY <2>1, <2>2 DEF OrderInv
<1>2. CopyInv => LetGoIsCopied
  BY DEF CopyInv
<1> QED
  BY <1>1, <1>2, LifeInitGivesInit, OrderInit, OrderInvGivesOrder, LifeTypeInvAlways,
     LifeCopyInvAlways, PTL
  DEF LifeSpec

(* The process ends itself only because of a write that is not confirmed,  *)
(* never because of what its start meets.                                  *)
THEOREM LifeKillHasCause == LifeSpec => KillHasCause
<1>1. TypeInv /\ [LifeNext]_lifeVars => [Caused]_vars
  <2>1. Crossing => Caused
    BY DEF Crossing, Subscribed, Begun, Forget, Noticed, Caused, netVars
  <2> QED
    BY <2>1, LifeStep, NextIsCaused
<1> QED
  BY <1>1, LifeTypeInvAlways, PTL DEF LifeSpec, KillHasCause, Caused

-----------------------------------------------------------------------------
(* What is behind each step of a start from a legacy source.               *)
Connecting == {"driver", "http", "source"}

StartInv ==
  /\ Boot!StartupTypeOK
  /\ Boot!LegacySource
  /\ step \in Connecting \cup {"upsert", "subscribe", "running", "exited"}
  /\ IF step = "exited" THEN running = FALSE ELSE running = TRUE
  /\ step \notin {"driver", "exited"} => driverUp
  /\ step \in {"upsert", "subscribe", "running"} => sourceUp
  /\ step \in Connecting \cup {"exited"} => consuming = {}
  /\ step = "subscribe" => at \in upserted
  /\ consuming \subseteq upserted
  /\ upserted \subseteq groups

(* The assumptions of Startup hold of the constants it is given here.      *)
LEMMA StartupAssumed == NSubs \in Nat \ {0} /\ MaxFailures \in Nat
  BY LifecycleAssumption, ProcessAssumption

LEMMA StartInit == LifeInit => StartInv
<1> USE DEF LifeInit, Boot!StartupInit
<1> SUFFICES ASSUME LifeInit PROVE StartInv
  OBVIOUS
<1>1. running = TRUE
  BY DEF Init, NetInit
<1>2. Boot!StartupTypeOK
  <2>1. driverUp \in BOOLEAN /\ sourceUp \in BOOLEAN
    BY Zenon
  <2> QED
    BY <2>1, StartupAssumed DEF Boot!StartupTypeOK, Boot!Steps, Boot!Subs
<1>3. Boot!LegacySource
  BY Zenon
<1>4. step = "driver" /\ consuming = {} /\ upserted = {}
  OBVIOUS
<1> QED
  BY <1>1, <1>2, <1>3, <1>4 DEF StartInv, Connecting

(* The steps of the start lead from one step to the next.                  *)
LEMMA StartStepKeepsStart ==
  ASSUME StartInv, Boot!DriverConnects \/ Boot!HttpChecked \/ Boot!SourceConnects
                   \/ Boot!AssertSubscription \/ Boot!Connect,
         UNCHANGED running
  PROVE  StartInv'
<1> USE StartupAssumed
    DEF StartInv, Connecting, Boot!StartupTypeOK, Boot!Steps, Boot!Subs, Boot!LegacySource,
        Boot!IsLegacyConf, Boot!confVars, Boot!linkVars, Boot!subscriptionVars
<1>1. CASE Boot!DriverConnects
  BY <1>1 DEF Boot!DriverConnects
<1>2. CASE Boot!HttpChecked
  BY <1>2 DEF Boot!HttpChecked
<1>3. CASE Boot!SourceConnects
  BY <1>3 DEF Boot!SourceConnects
<1>4. CASE Boot!AssertSubscription
  BY <1>4 DEF Boot!AssertSubscription
<1>5. CASE Boot!Connect
  BY <1>5 DEF Boot!Connect
<1> QED
  BY <1>1, <1>2, <1>3, <1>4, <1>5

(* It ends, wherever it has come to, and begins again.                     *)
LEMMA ProcessKeepsStart ==
  ASSUME StartInv,
         \/ Boot!Fail /\ running' = FALSE
         \/ Exit /\ running' = FALSE
         \/ Boot!StartAgain /\ running' = TRUE
  PROVE  StartInv'
<1>1. CASE Boot!Fail /\ running' = FALSE
  BY <1>1, StartupAssumed
  DEF Boot!Fail, StartInv, Connecting, Boot!StartupTypeOK, Boot!Steps, Boot!Subs,
      Boot!LegacySource, Boot!confVars, Boot!linkVars
<1>2. CASE Exit /\ running' = FALSE
  BY <1>2, StartupAssumed
  DEF Exit, StartInv, Connecting, Boot!StartupTypeOK, Boot!Steps, Boot!Subs,
      Boot!LegacySource
<1>3. CASE Boot!StartAgain /\ running' = TRUE
  <2>1. /\ step' = "driver" /\ at' = 1 /\ driverUp' = FALSE /\ sourceUp' = FALSE
        /\ chains' = 0 /\ upserted' = {} /\ consuming = {}
        /\ UNCHANGED <<source, destination, consuming, groups, failures>>
    BY <1>3 DEF Boot!StartAgain, Boot!confVars, StartInv
  <2>2. running' = TRUE
    BY <1>3
  <2>3. Boot!StartupTypeOK'
    <3>1. driverUp' \in BOOLEAN /\ sourceUp' \in BOOLEAN
      BY <2>1, Zenon
    <3>2. /\ step' \in Boot!Steps /\ at' \in Boot!Subs /\ chains' \in 0..2
          /\ upserted' \in SUBSET Boot!Subs
      BY <2>1, StartupAssumed DEF Boot!Steps, Boot!Subs
    <3>3. /\ source' \in Boot!Configurations /\ destination' \in Boot!Configurations
          /\ consuming' \in SUBSET Boot!Subs /\ groups' \in SUBSET Boot!Subs
          /\ failures' \in 0..MaxFailures
      BY <2>1 DEF StartInv, Boot!StartupTypeOK
    <3> QED
      BY <3>1, <3>2, <3>3 DEF Boot!StartupTypeOK
  <2>4. Boot!LegacySource'
    BY <2>1 DEF StartInv, Boot!LegacySource
  <2> QED
    BY <2>1, <2>2, <2>3, <2>4 DEF StartInv, Connecting
<1> QED
  BY <1>1, <1>2, <1>3

LEMMA NextKeepsStart == TypeInv /\ StartInv /\ [LifeNext]_lifeVars => StartInv'
<1> SUFFICES ASSUME TypeInv, StartInv, [LifeNext]_lifeVars PROVE StartInv'
  OBVIOUS
<1>r. running' \in BOOLEAN
  BY LifeStep, NextKeepsType, CrossingKeepsType DEF TypeInv, NetTypeOK
<1>0. ASSUME UNCHANGED <<bootVars, running>> PROVE StartInv'
  BY <1>0
  DEF bootVars, StartInv, Connecting, Boot!StartupTypeOK, Boot!Steps, Boot!Subs,
      Boot!LegacySource, Boot!IsLegacyConf
<1>1. ASSUME NEW h \in Handlings, Handles(h) PROVE StartInv'
  <2>1. running
    BY <1>1
    DEF Handles, Callback, Receive, Handle, Validated, ValidationPassed, Invalidated,
        ValidationFailed, Written, AppendOk, WriteFailed, AppendError, SafetyTimerFires,
        SafetyTimeout
  <2>2. CASE running'
    BY <1>0, <1>1, <1>r, <2>1, <2>2 DEF Handles, StartInv
  <2>3. CASE ~running'
    BY <1>1, <1>r, <2>3, ProcessKeepsStart DEF Handles
  <2> QED
    BY <2>2, <2>3
<1>2. CASE StartGoesOn
  BY <1>2, StartStepKeepsStart DEF StartGoesOn, vars, netVars
<1>3. CASE Subscribe
  BY <1>3, StartStepKeepsStart DEF Subscribe, netVars
<1>4. CASE Die
  BY <1>4, ProcessKeepsStart DEF Die, Crash, CrashNow
<1>5. CASE StartAgain
  BY <1>5, ProcessKeepsStart DEF StartAgain, Forget
<1>6. CASE ServerNotices \/ Around \/ UNCHANGED lifeVars
  <2>1. UNCHANGED <<bootVars, running>>
    BY <1>6
    DEF ServerNotices, Around, ServerReceivesAnswer, ServerTimesOut, RequestArrives,
        RequestLost, SubscriptionDropped, lifeVars, vars, netVars
  <2> QED
    BY <1>0, <2>1
<1> QED
  BY <1>1, <1>2, <1>3, <1>4, <1>5, <1>6 DEF LifeNext

LEMMA StartInvAlways == LifeSpec => []StartInv
  BY StartInit, NextKeepsStart, LifeTypeInvAlways, PTL DEF LifeSpec

(* All variables of the composition keep their types, and the process is   *)
(* alive exactly while its start is not at an end.                         *)
THEOREM LifeTypeCorrect == LifeSpec => []LifeTypeOK
<1>1. StartInv => running = (step # "exited")
  BY Zenon DEF StartInv
<1>2. TypeInv /\ StartInv => LifeTypeOK
  BY <1>1, TypeInvGivesType DEF StartInv, LifeTypeOK
<1> QED
  BY <1>2, LifeTypeInvAlways, StartInvAlways, PTL

(* Events that end the process half way through a start leave its order    *)
(* alone: links first, then the groups, then their events.                 *)
THEOREM LifeStartsInOrder ==
  LifeSpec => []Boot!ReadyBeforeEvents /\ []Boot!UpsertedBeforeEvents
<1>1. StartInv => Boot!ReadyBeforeEvents /\ Boot!UpsertedBeforeEvents
  BY DEF StartInv, Connecting, Boot!ReadyBeforeEvents, Boot!UpsertedBeforeEvents
<1> QED
  BY <1>1, StartInvAlways, PTL

-----------------------------------------------------------------------------
(* A handling that has begun in this process and is remembered by it.      *)
AtWork(h) == h \in checking \cup rejected \/ write[h] # "none" \/ timer[h]

Ready == driverUp /\ sourceUp /\ Ours \in upserted /\ Ours \in consuming

LEMMA ConsumingIsReady == StartInv /\ Ours \in consuming => Ready
  BY DEF StartInv, Connecting, Ready

(* Nothing at work is met by a start: a new process has an empty memory,   *)
(* and in it work begins only with a delivery.                             *)
LEMMA NextWorksOnOwn ==
  TypeInv /\ StartInv /\ WorksOnOwnConnections /\ [LifeNext]_lifeVars
    => WorksOnOwnConnections'
<1> SUFFICES ASSUME TypeInv, StartInv, WorksOnOwnConnections, [LifeNext]_lifeVars,
                    NEW h \in Handlings, running', AtWork(h)'
             PROVE  Ready'
  BY DEF WorksOnOwnConnections, AtWork, Ready
<1>0. ASSUME running, AtWork(h) PROVE Ready
  BY <1>0 DEF WorksOnOwnConnections, AtWork, Ready
<1>1. ASSUME NEW g \in Handlings, Handles(g) PROVE Ready'
  BY <1>1, ConsumingIsReady DEF Handles, bootVars, Ready
<1>2. ASSUME UNCHANGED vars PROVE running /\ AtWork(h)
  BY <1>2 DEF vars, netVars, driverVars, handlerVars, AtWork
<1>3. ASSUME Subscribe \/ ServerNotices \/ Around PROVE running /\ AtWork(h)
  BY <1>3
  DEF Subscribe, ServerNotices, Around, ServerReceivesAnswer, ServerTimesOut, RequestArrives,
      DestinationAppends, RequestLost, AppendRequestLost, SubscriptionDropped, netVars,
      driverVars, handlerVars, AtWork
<1>4. CASE StartGoesOn
  <2>1. Ready
    BY <1>0, <1>2, <1>4 DEF StartGoesOn
  <2>2. UNCHANGED <<driverUp, sourceUp, upserted, consuming>>
        \/ Boot!DriverConnects \/ Boot!SourceConnects \/ Boot!AssertSubscription
        \/ Boot!Connect
    BY <1>4 DEF StartGoesOn, Boot!HttpChecked, Boot!linkVars, Boot!subscriptionVars
  <2> QED
    BY <2>1, <2>2
    DEF Ready, Boot!DriverConnects, Boot!SourceConnects, Boot!AssertSubscription,
        Boot!Connect, Boot!linkVars, Boot!subscriptionVars
<1>5. CASE Subscribe
  BY <1>0, <1>3, <1>5 DEF Subscribe, Ready, Boot!Connect, Boot!linkVars
<1>6. CASE ServerNotices \/ Around \/ UNCHANGED lifeVars
  <2>1. running /\ AtWork(h)
    BY <1>2, <1>3, <1>6 DEF lifeVars
  <2>2. UNCHANGED bootVars
    BY <1>6 DEF ServerNotices, Around, lifeVars
  <2> QED
    BY <1>0, <2>1, <2>2 DEF bootVars, Ready
<1>7. CASE Die
  BY <1>7 DEF Die, Crash, CrashNow
<1>8. CASE StartAgain
  BY <1>8 DEF StartAgain, Forget, Fresh, AtWork
<1> QED
  BY <1>1, <1>4, <1>5, <1>6, <1>7, <1>8 DEF LifeNext

(* What is at work belongs to this process, which has both its connections *)
(* and its group: no timer, write or validation of a process that failed   *)
(* half way through its start is met by the next.                          *)
THEOREM LifeWorksOnOwnConnections == LifeSpec => []WorksOnOwnConnections
<1>1. LifeInit => WorksOnOwnConnections
  BY LifeInitGivesInit
  DEF Init, DriverInit, HandlerInit, Fresh, WorksOnOwnConnections
<1> QED
  BY <1>1, NextWorksOnOwn, LifeTypeInvAlways, StartInvAlways, PTL DEF LifeSpec

-----------------------------------------------------------------------------
(* A step between a running process and a running process is one of its    *)
(* own: no memory is forgotten in it.                                      *)
LEMMA LifeStepWithin ==
  ASSUME StartInv, running, [LifeNext]_lifeVars
  PROVE  ([HttpNext]_vars /\ ~Restart) \/ Subscribed \/ Noticed
<1>1. ~Restart
  BY DEF Restart
<1>2. ASSUME NEW h \in Handlings, Handles(h) PROVE HttpNext
  BY <1>2 DEF Handles, HttpNext, Surroundings
<1>3. ASSUME StartGoesOn \/ UNCHANGED lifeVars PROVE UNCHANGED vars
  BY <1>3 DEF StartGoesOn, lifeVars
<1>4. ASSUME Die \/ Around PROVE HttpNext
  BY <1>4 DEF Die, Around, HttpNext, Surroundings
<1>5. Subscribe => Subscribed
  BY DEF Subscribe, Subscribed
<1>6. ~StartAgain
  BY DEF StartAgain, Boot!StartAgain, StartInv
<1>7. ServerNotices => Noticed
  BY DEF ServerNotices, Noticed
<1> QED
  BY <1>1, <1>2, <1>3, <1>4, <1>5, <1>6, <1>7 DEF LifeNext

(* Also over all the starts the default net is called once for a try.      *)
LEMMA LifeOnceInvAlways ==
  ASSUME KillsProcess
  PROVE  LifeSpec => []OnceInv
<1>1. TypeInv /\ OnceInv /\ [LifeNext]_lifeVars => OnceInv'
  <2> SUFFICES ASSUME TypeInv, OnceInv, Crossing PROVE OnceInv'
    BY LifeStep, NextKeepsOnce
  <2>1. CASE Begun
    BY <2>1, ForgetKeepsOnce DEF Begun
  <2>2. CASE Subscribed \/ Noticed
    BY <2>2, NoHookKeepsOnce DEF Subscribed, Noticed, netVars, driverVars
  <2> QED
    BY <2>1, <2>2 DEF Crossing
<1> QED
  BY <1>1, LifeInitGivesInit, OnceInit, LifeTypeInvAlways, PTL DEF LifeSpec

THEOREM LifeHooksOnce ==
  ASSUME KillsProcess
  PROVE  LifeSpec => []HookOncePerTry
<1>1. OnceInv => HookOncePerTry
  BY DEF OnceInv
<1> QED
  BY <1>1, LifeOnceInvAlways, PTL

-----------------------------------------------------------------------------
(* The first liveness of the composition: no write hangs.                  *)
LEMMA LifeStepWaits ==
  ASSUME TypeInv, StartInv, [LifeNext]_lifeVars, NEW h \in Handlings, Waits(h)
  PROVE  Waits(h)' \/ Told(h)'
<1>1. \/ UNCHANGED <<write, hookCalls>>
      \/ \E g \in Handlings : WriteEvent(g) \/ AppendOk(g) \/ AppendError(g) \/ SafetyTimeout(g)
  <2>1. ([HttpNext]_vars /\ ~Restart) \/ Subscribed \/ Noticed
    BY LifeStepWithin DEF Waits
  <2>2. ASSUME NEW g \in Handlings, Callback(g) \/ SafetyTimerFires(g)
        PROVE  UNCHANGED <<write, hookCalls>>
               \/ WriteEvent(g) \/ AppendOk(g) \/ AppendError(g) \/ SafetyTimeout(g)
    BY <2>2
    DEF Callback, Receive, Handle, Validated, ValidationPassed, Invalidated, ValidationFailed,
        Written, WriteFailed, SafetyTimerFires, driverVars
  <2>3. ASSUME \/ \E e \in Events : ServerReceivesAnswer(e) \/ ServerTimesOut(e)
                                   \/ RequestArrives(e) \/ RequestLost(e)
               \/ Crash \/ SubscriptionDropped \/ UNCHANGED vars \/ Subscribed \/ Noticed
        PROVE  UNCHANGED <<write, hookCalls>>
    BY <2>3
    DEF ServerReceivesAnswer, ServerTimesOut, RequestArrives, DestinationAppends, RequestLost,
        AppendRequestLost, Crash, SubscriptionDropped, vars, driverVars, Subscribed, Noticed
  <2> QED
    BY <2>1, <2>2, <2>3 DEF HttpNext, Surroundings
<1>2. (write'[h] \in {"pending", "written"} /\ hookCalls'[h] = 0) \/ hookCalls'[h] > 0
  BY <1>1, DriverStepWaits DEF TypeInv
<1> QED
  BY <1>2 DEF Waits, Told

(* What the provers cannot derive of the fairness: a callback, a timer and *)
(* a settlement can be taken when their guards hold.                       *)
TimerCanRun(h) ==
  Ours \in consuming /\ running /\ timer[h] => ENABLED <<TimerDue(h)>>_lifeVars

ValidationCanRun(h) ==
  Ours \in consuming /\ running /\ h \in checking /\ write[h] = "none"
    /\ Verdict[EventOf(h)] \in {"valid", "invalid"}
    => ENABLED <<ValidationDue(h)>>_lifeVars

SettlementCanRun(e) ==
  e \in InFlight /\ (\E a \in Answers : <<e, a>> \in settlements)
    => ENABLED <<SettlementDue(e)>>_lifeVars

StepsCanBeTaken ==
  /\ \A h \in Handlings : TimerCanRun(h) /\ ValidationCanRun(h)
  /\ \A e \in Events : SettlementCanRun(e)

LEMMA TimerTellsOfWrite ==
  ASSUME NEW h \in Handlings
  PROVE  []TypeInv /\ []StartInv /\ []WorksOnOwnConnections /\ [][LifeNext]_lifeVars
         /\ LoopIsFair(h) /\ []TimerCanRun(h)
           => (write[h] = "pending" ~> Told(h))
<1>1. TypeInv /\ write[h] = "pending" => Waits(h) \/ Told(h)
  BY PendingWaits DEF TypeInv
<1>2. TypeInv /\ WorksOnOwnConnections /\ TimerCanRun(h) /\ Waits(h)
        => ENABLED <<TimerDue(h)>>_lifeVars
  BY WaitingIsArmed DEF TypeInv, Waits, WorksOnOwnConnections, TimerCanRun
<1>3. TypeInv /\ StartInv /\ Waits(h) /\ [LifeNext]_lifeVars => Waits(h)' \/ Told(h)'
  BY LifeStepWaits
<1>4. TypeInv /\ Waits(h) /\ <<TimerDue(h)>>_lifeVars => Told(h)'
  BY TimeoutTells DEF TypeInv, TimerDue, SafetyTimerFires
<1> QED
  BY <1>1, <1>2, <1>3, <1>4, PTL DEF LoopIsFair

LEMMA TimersCanRun == StepsCanBeTaken => \A h \in Handlings : TimerCanRun(h)
  BY DEF StepsCanBeTaken

LEMMA FairLifeInvs ==
  FairLifeSpec => []TypeInv /\ []StartInv /\ []WorksOnOwnConnections /\ [][LifeNext]_lifeVars
  BY LifeTypeInvAlways, StartInvAlways, LifeWorksOnOwnConnections, PTL
  DEF FairLifeSpec, LifeSpec

(* Over all the processes and their starts no write hangs: each is         *)
(* confirmed or reported, or its process is gone.                          *)
THEOREM LifeWritesAreAnswered == FairLifeSpec /\ []StepsCanBeTaken => EveryWriteAnswered
<1> SUFFICES ASSUME FairLifeSpec, []StepsCanBeTaken PROVE EveryWriteAnswered
  OBVIOUS
<1>1. [](\A h \in Handlings : TimerCanRun(h))
  BY TimersCanRun, PTL
<1>2. []TypeInv /\ []StartInv /\ []WorksOnOwnConnections /\ [][LifeNext]_lifeVars
  BY FairLifeInvs
<1>3. \A h \in Handlings : LoopIsFair(h)
  BY PTL DEF FairLifeSpec, LifeFairness
<1>4. ASSUME NEW h \in Handlings PROVE write[h] = "pending" ~> Told(h)
  <2>1. LoopIsFair(h)
    BY <1>3
  <2>2. []TimerCanRun(h)
    BY <1>1
  <2> QED
    BY <1>2, <2>1, <2>2, TimerTellsOfWrite
<1> QED
  BY <1>4 DEF EveryWriteAnswered, Told

-----------------------------------------------------------------------------
(* What a validation is awaited for can be written, and was not before.    *)
CheckingIsFresh ==
  \A h \in checking : write[h] = "none" /\ Verdict[EventOf(h)] \in {"valid", "invalid"}

LEMMA NextKeepsFresh == TypeInv /\ CheckingIsFresh /\ [HttpNext]_vars => CheckingIsFresh'
<1> SUFFICES ASSUME TypeInv, CheckingIsFresh, [HttpNext]_vars, NEW g \in checking'
             PROVE  write'[g] = "none" /\ Verdict[EventOf(g)] \in {"valid", "invalid"}
  BY DEF CheckingIsFresh
<1> USE DEF CheckingIsFresh, TypeInv, DriverInv, DriverTypeOK, HandlerTypeOK
<1>1. ASSUME NEW h \in Handlings, Receive(h)
      PROVE  write'[g] = "none" /\ Verdict[EventOf(g)] \in {"valid", "invalid"}
  BY <1>1
  DEF Receive, Handle, Idle, RejectUnreadable, RejectNotAllowed, AwaitValidation, driverVars
<1>2. ASSUME NEW h \in Handlings, Validated(h) \/ Invalidated(h)
      PROVE  write'[g] = "none" /\ Verdict[EventOf(g)] \in {"valid", "invalid"}
  BY <1>2
  DEF Validated, ValidationPassed, WriteEvent, Invalidated, ValidationFailed, driverVars
<1>3. ASSUME NEW h \in Handlings, Written(h) \/ WriteFailed(h)
      PROVE  write'[g] = "none" /\ Verdict[EventOf(g)] \in {"valid", "invalid"}
  BY <1>3 DEF Written, AppendOk, WriteFailed, AppendError, handlerVars
<1>4. ASSUME checking' = {} \/ UNCHANGED <<write, checking>>
      PROVE  write'[g] = "none" /\ Verdict[EventOf(g)] \in {"valid", "invalid"}
  BY <1>4
<1>5. ASSUME Surroundings \/ UNCHANGED vars PROVE checking' = {} \/ UNCHANGED <<write, checking>>
  BY <1>5
  DEF Surroundings, SafetyTimerFires, SafetyTimeout, ServerReceivesAnswer, ServerTimesOut,
      RequestArrives, DestinationAppends, RequestLost, AppendRequestLost, Crash, Restart, Forget,
      SubscriptionDropped, vars, driverVars, handlerVars
<1> QED
  BY <1>1, <1>2, <1>3, <1>4, <1>5 DEF HttpNext, Callback

LEMMA LifeFreshAlways == LifeSpec => []CheckingIsFresh
<1>1. LifeInit => CheckingIsFresh
  BY LifeInitGivesInit DEF Init, HandlerInit, CheckingIsFresh
<1>2. TypeInv /\ CheckingIsFresh /\ [LifeNext]_lifeVars => CheckingIsFresh'
  <2> SUFFICES ASSUME TypeInv, CheckingIsFresh, Crossing PROVE CheckingIsFresh'
    BY LifeStep, NextKeepsFresh
  <2> QED
    BY DEF Crossing, Subscribed, Begun, Forget, Noticed, driverVars, handlerVars, CheckingIsFresh
<1> QED
  BY <1>1, <1>2, LifeTypeInvAlways, PTL DEF LifeSpec

LEMMA LifeSentAlways == LifeSpec => []SentToClient
<1>1. LifeInit => SentToClient
  BY LifeInitGivesInit DEF Init, SubInit, SentToClient, InFlight
<1>2. TypeInv /\ SentToClient /\ [LifeNext]_lifeVars => SentToClient'
  <2> SUFFICES ASSUME TypeInv, SentToClient, Crossing PROVE SentToClient'
    BY LifeStep, NextKeepsSent
  <2> QED
    BY DEF Crossing, Subscribed, Begun, Forget, Noticed, TakeBack, subVars, SentToClient, InFlight
<1> QED
  BY <1>1, <1>2, LifeTypeInvAlways, PTL DEF LifeSpec

(* InFlightIsInHand here: once our subscription is connected again, what   *)
(* the server waits for is what this process has in hand. Between the      *)
(* death of a process and that moment it may wait in vain.                 *)
OwnInHand == Ours \in consuming => AllInHand

LEMMA OursIsAlive == TypeInv /\ StartInv /\ Ours \in consuming => running
  BY DEF StartInv, TypeInv, NetTypeOK

(* Our subscription is consumed from the step Subscribe on.                *)
LEMMA OursFromSubscribe ==
  ASSUME StartInv, [LifeNext]_lifeVars, Ours \in consuming', Ours \notin consuming
  PROVE  Subscribe
<1>1. ~StartGoesOn
  BY DEF StartGoesOn, Boot!DriverConnects, Boot!HttpChecked, Boot!SourceConnects,
         Boot!AssertSubscription, Boot!Connect, Boot!subscriptionVars, Boot!linkVars,
         Boot!confVars, StartInv, Boot!StartupTypeOK, Boot!Subs
<1> QED
  BY <1>1
  DEF LifeNext, Handles, Exit, Die, Boot!Fail, StartAgain, Boot!StartAgain, ServerNotices,
      Around, lifeVars, bootVars

LEMMA LifeInHandStep ==
  ASSUME TypeInv, TypeInv', StartInv, StartInv', SentToClient, OwnInHand, [LifeNext]_lifeVars
  PROVE  OwnInHand'
<1> SUFFICES ASSUME Ours \in consuming' PROVE AllInHand'
  BY DEF OwnInHand
<1>1. running'
  BY DEF StartInv, TypeInv, NetTypeOK
<1>2. CASE Ours \in consuming
  <2>1. running /\ AllInHand
    BY <1>2, OursIsAlive DEF OwnInHand
  <2>2. CASE [HttpNext]_vars
    BY <1>1, <2>1, <2>2, NextKeepsInHand
  <2>3. CASE Subscribed
    BY <2>1, <2>3 DEF Subscribed, driverVars, handlerVars, AllInHand, InHand, InFlight
  <2>4. CASE Noticed
    BY <2>4 DEF Noticed, TakeBack, AllInHand, InFlight
  <2> QED
    BY <2>1, <2>2, <2>3, <2>4, LifeStepWithin
<1>3. CASE Ours \notin consuming
  <2>1. Subscribe
    BY <1>3, OursFromSubscribe
  <2> QED
    BY <2>1 DEF Subscribe, SentToClient, AllInHand, InFlight
<1> QED
  BY <1>2, <1>3

LEMMA LifeInHandAlways == LifeSpec => []OwnInHand
<1>1. LifeInit => OwnInHand
  BY DEF LifeInit, Boot!StartupInit, OwnInHand
<1> QED
  BY <1>1, LifeInHandStep, LifeTypeInvAlways, StartInvAlways, LifeSentAlways, PTL DEF LifeSpec

-----------------------------------------------------------------------------
(* The way of a delivery to its answer: it is validated, then written, and *)
(* at the end of either its answer is on the way.                          *)
LifeInv ==
  /\ TypeInv /\ StartInv
  /\ SentToClient /\ OwnInHand /\ CheckingIsFresh
  /\ OnceInv

Validating(h) == Awaited(h) /\ h \in checking

Writing(h) == Awaited(h) /\ write[h] = "pending"

AnswerSent(h) == \E a \in Answers : <<EventOf(h), a>> \in settlements

Answering(h) == Awaited(h) /\ AnswerSent(h)

LEMMA AwaitedIsSomewhere ==
  ASSUME LifeInv, NEW h \in Handlings, Awaited(h)
  PROVE  Validating(h) \/ Writing(h) \/ Answering(h)
<1>1. h = <<EventOf(h), deliveries[EventOf(h)]>>
  BY DEF Handlings, EventOf, Awaited
<1>2. InHand(EventOf(h))
  BY DEF LifeInv, OwnInHand, AllInHand, Awaited
<1> QED
  BY <1>1, <1>2 DEF InHand, Validating, Writing, Answering, AnswerSent

(* A step that leaves the delivery awaited is a step within the process    *)
(* and keeps the connection.                                               *)
LEMMA AwaitedWithin ==
  ASSUME LifeInv, LifeInv', [LifeNext]_lifeVars, NEW h \in Handlings, Awaited(h), Awaited(h)'
  PROVE  /\ running /\ running' /\ connected
         /\ [HttpNext]_vars \/ Subscribed
         /\ ~Restart /\ ~SubscriptionDropped
<1>1. running /\ connected
  BY OursIsAlive DEF LifeInv, SentToClient, Awaited
<1>2. running'
  BY DEF LifeInv, StartInv, TypeInv, NetTypeOK, Awaited
<1>3. ~TakeBack
  BY DEF TakeBack, Awaited, InFlight
<1> QED
  BY <1>1, <1>2, <1>3, LifeStepWithin DEF LifeInv, Restart, SubscriptionDropped, Noticed

(* The server uses an answer up only when it stops waiting.                *)
LEMMA AnswerStays ==
  ASSUME LifeInv, LifeInv', [LifeNext]_lifeVars, NEW h \in Handlings, Answering(h)
  PROVE  Answering(h)' \/ ~Awaited(h)'
<1> SUFFICES ASSUME Awaited(h)', Awaited(h), NEW a \in Answers, <<EventOf(h), a>> \in settlements
             PROVE  <<EventOf(h), a>> \in settlements'
  BY DEF Answering, AnswerSent
<1>1. /\ [HttpNext]_vars \/ Subscribed
      /\ ~Restart /\ ~SubscriptionDropped
  BY AwaitedWithin
<1>2. ASSUME NEW g \in Handlings, Callback(g) \/ SafetyTimerFires(g)
      PROVE  settlements \subseteq settlements'
  BY <1>2
  DEF Callback, Receive, AnswerAtReceive, Validated, Invalidated, Written, WriteFailed, Settle,
      SafetyTimerFires, subVars
<1>3. ASSUME NEW f \in Events, ServerReceivesAnswer(f)
      PROVE  <<EventOf(h), a>> \in settlements'
  <2>1. PICK answer \in Answers : ServerSettles(f, answer)
    BY <1>3 DEF ServerReceivesAnswer
  <2>2. EventOf(h) # f
    BY <2>1
    DEF ServerSettles, Awaited, InFlight, Settled, Answers, LifeInv, TypeInv, SubTypeOK
  <2> QED
    BY <2>1, <2>2 DEF ServerSettles
<1>4. ASSUME \/ \E f \in Events : ServerTimesOut(f) \/ RequestArrives(f) \/ RequestLost(f)
             \/ Crash \/ UNCHANGED vars \/ Subscribed
      PROVE  settlements' = settlements
  BY <1>4
  DEF ServerTimesOut, MessageTimeout, RequestArrives, RequestLost, Crash, vars, subVars, Subscribed
<1> QED
  BY <1>1, <1>2, <1>3, <1>4 DEF HttpNext, Surroundings

(* A write that is awaited goes on, or ends in an answer: with the default *)
(* net one that fails ends the process.                                    *)
LEMMA WritingStays ==
  ASSUME KillsProcess, LifeInv, LifeInv', [LifeNext]_lifeVars,
         NEW h \in Handlings, Writing(h)
  PROVE  Writing(h)' \/ Answering(h)' \/ ~Awaited(h)'
<1> SUFFICES ASSUME Awaited(h)', Awaited(h), write[h] = "pending"
             PROVE  write'[h] = "pending" \/ AnswerSent(h)'
  BY DEF Writing, Answering
<1>t. write \in [Handlings -> WriteStates]
  BY DEF LifeInv, TypeInv, DriverInv, DriverTypeOK
<1>1. /\ running /\ running' /\ connected
      /\ [HttpNext]_vars \/ Subscribed
      /\ ~Restart /\ ~SubscriptionDropped
  BY AwaitedWithin
<1>2. ASSUME NEW g \in Handlings, Receive(g) \/ Validated(g) \/ Invalidated(g) \/ SafetyTimerFires(g)
      PROVE  write'[h] = "pending"
  BY <1>2, <1>t
  DEF Receive, Handle, Validated, ValidationPassed, WriteEvent, Invalidated, ValidationFailed,
      SafetyTimerFires, SafetyTimeout, driverVars
<1>3. ASSUME NEW g \in Handlings, Written(g)
      PROVE  write'[h] = "pending" \/ AnswerSent(h)'
  BY <1>1, <1>3, <1>t DEF Written, AppendOk, Settle, AnswerSent, Answers
<1>4. ASSUME NEW g \in Handlings, WriteFailed(g) PROVE FALSE
  BY <1>1, <1>4 DEF WriteFailed, AppendError, CallHook, CannotWriteEventHook
<1>5. ASSUME \/ \E f \in Events : \/ ServerReceivesAnswer(f) \/ ServerTimesOut(f)
                                 \/ RequestArrives(f) \/ RequestLost(f)
             \/ Crash \/ UNCHANGED vars \/ Subscribed
      PROVE  write' = write
  BY <1>5
  DEF ServerReceivesAnswer, ServerTimesOut, RequestArrives, DestinationAppends, RequestLost,
      AppendRequestLost, Crash, vars, driverVars, Subscribed
<1> QED
  BY <1>1, <1>2, <1>3, <1>4, <1>5 DEF HttpNext, Callback, Surroundings

(* What is due ends the phase it is due in.                                *)
LEMMA DueEndsPhase ==
  ASSUME KillsProcess, LifeInv, LifeInv', NEW h \in Handlings
  PROVE  /\ ValidationDue(h) => h \notin checking'
         /\ TimerDue(h) => ~Awaited(h)'
         /\ SettlementDue(EventOf(h)) => ~Awaited(h)'
<1>1. ValidationDue(h) => h \notin checking'
  BY DEF ValidationDue, Validated, ValidationPassed, Invalidated, ValidationFailed
<1>2. ASSUME TimerDue(h) PROVE ~Awaited(h)'
  <2>1. ~running'
    BY <1>2 DEF TimerDue, SafetyTimerFires, SafetyTimeout, CallHook, CannotWriteEventHook
  <2> QED
    BY <2>1 DEF LifeInv, StartInv, TypeInv, NetTypeOK, Awaited
<1>3. ASSUME SettlementDue(EventOf(h)) PROVE ~Awaited(h)'
  <2>1. PICK answer \in Answers : ServerSettles(EventOf(h), answer)
    BY <1>3 DEF SettlementDue, ServerReceivesAnswer
  <2>2. status'[EventOf(h)] = Settled[answer]
    BY <1>3, <2>1 DEF SettlementDue, ServerSettles, InFlight, LifeInv, TypeInv, SubTypeOK
  <2>3. status'[EventOf(h)] # "inflight"
    BY <2>2 DEF Settled, Answers
  <2> QED
    BY <2>3 DEF Awaited, InFlight
<1> QED
  BY <1>1, <1>2, <1>3

(* And it can be taken.                                                    *)
LEMMA PhaseIsDue ==
  ASSUME KillsProcess, LifeInv, StepsCanBeTaken, NEW h \in Handlings
  PROVE  /\ Validating(h) => ENABLED <<ValidationDue(h)>>_lifeVars
         /\ Writing(h) => ENABLED <<TimerDue(h)>>_lifeVars
         /\ Answering(h) => ENABLED <<SettlementDue(EventOf(h))>>_lifeVars
<1>1. Validating(h) => ENABLED <<ValidationDue(h)>>_lifeVars
  BY OursIsAlive
  DEF Validating, Awaited, LifeInv, CheckingIsFresh, StepsCanBeTaken, ValidationCanRun
<1>2. Writing(h) => ENABLED <<TimerDue(h)>>_lifeVars
  <2> SUFFICES ASSUME Writing(h) PROVE ENABLED <<TimerDue(h)>>_lifeVars
    OBVIOUS
  <2>1. running /\ hookCalls[h] = 0
    BY OursIsAlive DEF Writing, Awaited, LifeInv, OnceInv, AliveUnhooked
  <2>2. timer[h]
    BY <2>1, WaitingIsArmed DEF Waits, Writing, LifeInv, TypeInv
  <2> QED
    BY <2>1, <2>2 DEF Writing, Awaited, StepsCanBeTaken, TimerCanRun
<1>3. Answering(h) => ENABLED <<SettlementDue(EventOf(h))>>_lifeVars
  <2>1. SettlementCanRun(EventOf(h))
    BY EventOfHandling DEF StepsCanBeTaken
  <2> QED
    BY <2>1 DEF Answering, AnswerSent, Awaited, SettlementCanRun
<1> QED
  BY <1>1, <1>2, <1>3

LEMMA LifeInvAlways ==
  ASSUME KillsProcess
  PROVE  FairLifeSpec => []LifeInv /\ [][LifeNext]_lifeVars
  BY LifeTypeInvAlways, StartInvAlways, LifeSentAlways, LifeInHandAlways, LifeFreshAlways,
     LifeOnceInvAlways, PTL
  DEF LifeInv, FairLifeSpec, LifeSpec

LEMMA DeliveryEnds ==
  ASSUME KillsProcess, NEW h \in Handlings
  PROVE  []LifeInv /\ [][LifeNext]_lifeVars /\ []StepsCanBeTaken
         /\ LoopIsFair(h) /\ StoresAreFair(EventOf(h))
           => (Awaited(h) ~> ~Awaited(h))
<1>1. LifeInv /\ Awaited(h) => Validating(h) \/ Writing(h) \/ Answering(h)
  BY AwaitedIsSomewhere
<1>2. LifeInv /\ StepsCanBeTaken =>
        /\ Validating(h) => ENABLED <<ValidationDue(h)>>_lifeVars
        /\ Writing(h) => ENABLED <<TimerDue(h)>>_lifeVars
        /\ Answering(h) => ENABLED <<SettlementDue(EventOf(h))>>_lifeVars
  BY PhaseIsDue
<1>3. LifeInv /\ LifeInv' /\ Answering(h) /\ [LifeNext]_lifeVars
        => Answering(h)' \/ ~Awaited(h)'
  BY AnswerStays
<1>4. LifeInv /\ LifeInv' /\ Writing(h) /\ [LifeNext]_lifeVars
        => Writing(h)' \/ Answering(h)' \/ ~Awaited(h)'
  BY WritingStays
<1>5. LifeInv /\ LifeInv' /\ <<SettlementDue(EventOf(h))>>_lifeVars => ~Awaited(h)'
  BY DueEndsPhase
<1>6. LifeInv /\ LifeInv' /\ <<TimerDue(h)>>_lifeVars => ~Awaited(h)'
  BY DueEndsPhase
<1>7. LifeInv /\ LifeInv' /\ <<ValidationDue(h)>>_lifeVars => ~Validating(h)'
  BY DueEndsPhase DEF Validating
<1>8. []LifeInv /\ [][LifeNext]_lifeVars /\ []StepsCanBeTaken /\ StoresAreFair(EventOf(h))
        => (Answering(h) ~> ~Awaited(h))
  BY <1>2, <1>3, <1>5, PTL DEF StoresAreFair
<1>9. []LifeInv /\ [][LifeNext]_lifeVars /\ []StepsCanBeTaken /\ LoopIsFair(h)
        => (Writing(h) ~> Answering(h) \/ ~Awaited(h))
  BY <1>2, <1>4, <1>6, PTL DEF LoopIsFair
<1>10. []LifeInv /\ [][LifeNext]_lifeVars /\ []StepsCanBeTaken /\ LoopIsFair(h)
        => (Validating(h) ~> Writing(h) \/ Answering(h) \/ ~Awaited(h))
  BY <1>1, <1>2, <1>7, PTL DEF LoopIsFair
<1> QED
  BY <1>1, <1>8, <1>9, <1>10, PTL

(* With the default net no delivery is awaited for ever, through any       *)
(* number of redeliveries, failures and starts: a handling is validated,   *)
(* then written or killed for by its timer, then answered, and an answer   *)
(* is used up only together with the wait for it.                          *)
THEOREM LifeDeliveriesAreAnswered ==
  ASSUME KillsProcess
  PROVE  FairLifeSpec /\ []StepsCanBeTaken => EveryDeliveryAnswered
<1> SUFFICES ASSUME FairLifeSpec, []StepsCanBeTaken PROVE EveryDeliveryAnswered
  OBVIOUS
<1>1. []LifeInv /\ [][LifeNext]_lifeVars
  BY LifeInvAlways
<1>2. (\A h \in Handlings : LoopIsFair(h)) /\ (\A e \in Events : StoresAreFair(e))
  BY PTL DEF FairLifeSpec, LifeFairness
<1>3. ASSUME NEW h \in Handlings PROVE Awaited(h) ~> ~Awaited(h)
  <2>1. LoopIsFair(h) /\ StoresAreFair(EventOf(h))
    BY <1>2, EventOfHandling
  <2> QED
    BY <1>1, <2>1, DeliveryEnds
<1> QED
  BY <1>3 DEF EveryDeliveryAnswered
=============================================================================

---------------------------- MODULE ReaderProofs ----------------------------
(***************************************************************************)
(* First the driver on its own, for every number of events and concurrent  *)
(* writes: what each operation preserves, and that no write hangs          *)
(* unreported or is reported after its success. Then what both readers     *)
(* share: what each operation of the handler, the subscription and the     *)
(* surroundings preserves.                                                 *)
(***************************************************************************)
EXTENDS ReaderProcess, TLAPS

(* What the hooks of a write can still cost: one call for its timer while  *)
(* it is armed, one for the catch block. It bounds hookCalls, which the    *)
(* type of the driver alone does not.                                      *)
HookBudget ==
  \A h \in Handlings :
    /\ write[h] = "none" => hookCalls[h] = 0 /\ ~timer[h]
    /\ write[h] = "pending" => hookCalls[h] <= 1 /\ (timer[h] => hookCalls[h] = 0)
    /\ write[h] = "written" => hookCalls[h] <= 1 /\ ~timer[h]
    /\ write[h] = "failed" => hookCalls[h] <= 2 /\ (timer[h] => hookCalls[h] <= 1)

DriverInv == DriverTypeOK /\ HookBudget /\ PendingIsGuarded

(* An event of a handling is an event of the stream.                       *)
LEMMA EventOfHandling == \A h \in Handlings : EventOf(h) \in Events
  BY DEF Handlings, EventOf

-----------------------------------------------------------------------------
(* writeEvent begins a write that had cost no hook call.                   *)
LEMMA WriteEventKeepsDriver ==
  ASSUME DriverInv, NEW h \in Handlings, WriteEvent(h)
  PROVE  DriverInv'
  BY EventOfHandling DEF DriverInv, DriverTypeOK, HookBudget, PendingIsGuarded, WriteEvent, WriteStates

LEMMA AppendOkKeepsDriver ==
  ASSUME DriverInv, NEW h \in Handlings, AppendOk(h)
  PROVE  DriverInv'
  BY DEF DriverInv, DriverTypeOK, HookBudget, PendingIsGuarded, AppendOk, WriteStates

LEMMA AppendErrorKeepsDriver ==
  ASSUME DriverInv, NEW h \in Handlings, AppendError(h)
  PROVE  DriverInv'
  BY DEF DriverInv, DriverTypeOK, HookBudget, PendingIsGuarded, AppendError, CallHook, WriteStates

LEMMA TimeoutKeepsDriver ==
  ASSUME DriverInv, NEW h \in Handlings, SafetyTimeout(h)
  PROVE  DriverInv'
  BY DEF DriverInv, DriverTypeOK, HookBudget, PendingIsGuarded, SafetyTimeout, CallHook, WriteStates

LEMMA NetworkKeepsDriver ==
  ASSUME DriverInv, NEW e \in Events, DestinationAppends(e) \/ AppendRequestLost(e)
  PROVE  DriverInv'
  BY DEF DriverInv, DriverTypeOK, HookBudget, PendingIsGuarded, DestinationAppends, AppendRequestLost, WriteStates

LEMMA IdleKeepsDriver ==
  ASSUME DriverInv, UNCHANGED driverVars
  PROVE  DriverInv'
  BY DEF DriverInv, DriverTypeOK, HookBudget, PendingIsGuarded, driverVars

(* The hook keeps the types of the net.                                    *)
LEMMA HookKeepsNet ==
  ASSUME NetTypeOK, NEW h \in Handlings, CallHook(h), UNCHANGED reported
  PROVE  NetTypeOK'
  BY EventOfHandling DEF NetTypeOK, CallHook, CannotWriteEventHook

-----------------------------------------------------------------------------
WriteInv == NetTypeOK /\ DriverInv

LEMMA WriteStepKeepsInv ==
  ASSUME WriteInv, [WriteNext]_writeVars
  PROVE  WriteInv'
<1> USE DEF WriteInv
<1>1. ASSUME NEW h \in Handlings, StartWrite(h) PROVE WriteInv'
  BY <1>1, WriteEventKeepsDriver DEF StartWrite, netVars, NetTypeOK
<1>2. ASSUME NEW h \in Handlings, WriteAnswered(h) PROVE WriteInv'
  BY <1>2, AppendOkKeepsDriver DEF WriteAnswered, netVars, NetTypeOK
<1>3. ASSUME NEW h \in Handlings, WriteRefused(h) PROVE WriteInv'
  BY <1>3, AppendErrorKeepsDriver, HookKeepsNet DEF WriteRefused, AppendError
<1>4. ASSUME NEW h \in Handlings, TimerFires(h) PROVE WriteInv'
  BY <1>4, TimeoutKeepsDriver, HookKeepsNet DEF TimerFires, SafetyTimeout
<1>5. ASSUME NEW e \in Events, Destination(e) PROVE WriteInv'
  BY <1>5, NetworkKeepsDriver DEF Destination, netVars, NetTypeOK
<1>6. CASE UNCHANGED writeVars
  BY <1>6, IdleKeepsDriver DEF writeVars, netVars, NetTypeOK
<1> QED
  BY <1>1, <1>2, <1>3, <1>4, <1>5, <1>6 DEF WriteNext

LEMMA WriteInvAlways == WriteSpec => []WriteInv
<1>1. WriteInit => WriteInv
  BY DEF WriteInit, NetInit, DriverInit, WriteInv, NetTypeOK, DriverInv, DriverTypeOK,
         HookBudget, PendingIsGuarded, Fresh, WriteStates
<1>2. WriteInv /\ [WriteNext]_writeVars => WriteInv'
  BY WriteStepKeepsInv
<1> QED
  BY <1>1, <1>2, PTL DEF WriteSpec

(* The variables keep their types: a write calls the hook twice at most.   *)
THEOREM WriteTypeCorrect == WriteSpec => []WriteTypeOK
<1>1. WriteInv => WriteTypeOK
  BY DEF WriteInv, DriverInv, WriteTypeOK
<1> QED
  BY <1>1, WriteInvAlways, PTL

(* However many writes race, one that has no answer has an armed timer or  *)
(* was reported.                                                           *)
THEOREM WritesAreGuarded == WriteSpec => []PendingIsGuarded
<1>1. WriteInv => PendingIsGuarded
  BY DEF WriteInv, DriverInv
<1> QED
  BY <1>1, WriteInvAlways, PTL

(* A confirmed write has no timer left (HookBudget), so nothing can call   *)
(* its hook any more.                                                      *)
THEOREM NoAlarmAfterWritten == WriteSpec => NoAlarmAfterSuccess
<1> DEFINE Quiet == \A h \in Handlings : write[h] = "written" => hookCalls'[h] <= hookCalls[h]
<1>1. WriteInv /\ [WriteNext]_writeVars => [Quiet]_writeVars
  <2> SUFFICES ASSUME WriteInv, WriteNext,
                      NEW g \in Handlings, write[g] = "written"
               PROVE  hookCalls'[g] = hookCalls[g]
    BY DEF WriteInv, DriverInv, DriverTypeOK
  <2> USE DEF WriteInv, DriverInv, DriverTypeOK, HookBudget
  <2>1. ASSUME NEW h \in Handlings, WriteRefused(h) PROVE hookCalls'[g] = hookCalls[g]
    BY <2>1 DEF WriteRefused, AppendError, CallHook
  <2>2. ASSUME NEW h \in Handlings, TimerFires(h) PROVE hookCalls'[g] = hookCalls[g]
    BY <2>2 DEF TimerFires, SafetyTimeout, CallHook
  <2>3. ASSUME NEW h \in Handlings, StartWrite(h) \/ WriteAnswered(h)
        PROVE  hookCalls'[g] = hookCalls[g]
    BY <2>3 DEF StartWrite, WriteEvent, WriteAnswered, AppendOk
  <2>4. ASSUME NEW e \in Events, Destination(e) PROVE hookCalls'[g] = hookCalls[g]
    BY <2>4 DEF Destination, DestinationAppends, AppendRequestLost
  <2> QED
    BY <2>1, <2>2, <2>3, <2>4 DEF WriteNext
<1> QED
  BY <1>1, WriteInvAlways, PTL DEF WriteSpec, NoAlarmAfterSuccess

-----------------------------------------------------------------------------
(* A write nobody knows the end of: no answer, no report, no exit.         *)
Waits(h) == write[h] = "pending" /\ hookCalls[h] = 0 /\ running

Told(h) == write[h] = "written" \/ hookCalls[h] > 0 \/ ~running

LEMMA PendingWaits ==
  ASSUME DriverInv, NEW h \in Handlings, write[h] = "pending"
  PROVE  Waits(h) \/ Told(h)
  BY DEF DriverInv, DriverTypeOK, Waits, Told

(* PendingIsGuarded: the one that waits still has its timer.               *)
LEMMA WaitingIsArmed ==
  ASSUME DriverInv, NEW h \in Handlings, Waits(h)
  PROVE  timer[h]
  BY DEF DriverInv, DriverTypeOK, PendingIsGuarded, Waits

(* A write is answered, or its hook is called, or it waits on.             *)
LEMMA DriverStepWaits ==
  ASSUME DriverInv, NEW h \in Handlings, Waits(h),
         \/ UNCHANGED <<write, hookCalls>>
         \/ \E g \in Handlings : WriteEvent(g) \/ AppendOk(g) \/ AppendError(g) \/ SafetyTimeout(g)
  PROVE  (write'[h] \in {"pending", "written"} /\ hookCalls'[h] = 0) \/ hookCalls'[h] > 0
<1> USE DEF DriverInv, DriverTypeOK, Waits
<1>1. ASSUME NEW g \in Handlings, WriteEvent(g) \/ AppendOk(g)
      PROVE  write'[h] \in {"pending", "written"} /\ hookCalls'[h] = 0
  BY <1>1 DEF WriteEvent, AppendOk
<1>2. ASSUME NEW g \in Handlings, AppendError(g) \/ SafetyTimeout(g)
      PROVE  (write'[h] \in {"pending", "written"} /\ hookCalls'[h] = 0) \/ hookCalls'[h] > 0
  <2>1. CASE g = h
    BY <1>2, <2>1 DEF AppendError, SafetyTimeout, CallHook
  <2>2. CASE g # h
    BY <1>2, <2>2 DEF AppendError, SafetyTimeout, CallHook
  <2> QED
    BY <2>1, <2>2
<1> QED
  BY <1>1, <1>2

(* The timer of a write that waits reports it.                             *)
LEMMA TimeoutTells ==
  ASSUME DriverInv, NEW h \in Handlings, Waits(h), SafetyTimeout(h)
  PROVE  Told(h)'
  BY DEF DriverInv, DriverTypeOK, Waits, Told, SafetyTimeout, CallHook

LEMMA WriteStepWaits ==
  ASSUME WriteInv, [WriteNext]_writeVars, NEW h \in Handlings, Waits(h)
  PROVE  Waits(h)' \/ Told(h)'
<1>1. \/ UNCHANGED <<write, hookCalls>>
      \/ \E g \in Handlings : WriteEvent(g) \/ AppendOk(g) \/ AppendError(g) \/ SafetyTimeout(g)
  BY DEF WriteNext, StartWrite, WriteAnswered, WriteRefused, TimerFires, Destination,
         DestinationAppends, AppendRequestLost, writeVars, driverVars
<1>2. (write'[h] \in {"pending", "written"} /\ hookCalls'[h] = 0) \/ hookCalls'[h] > 0
  BY <1>1, DriverStepWaits DEF WriteInv
<1> QED
  BY <1>2 DEF Waits, Told

(* The one thing about the fairness of a timer that the provers cannot     *)
(* derive: it can fire while it is armed.                                  *)
TimersCanFire == \A h \in Handlings : running /\ timer[h] => ENABLED <<TimerFires(h)>>_writeVars

LEMMA TimerTells ==
  ASSUME NEW h \in Handlings
  PROVE  []WriteInv /\ [][WriteNext]_writeVars /\ TimerIsFair(h)
         /\ [](running /\ timer[h] => ENABLED <<TimerFires(h)>>_writeVars)
           => (write[h] = "pending" ~> Told(h))
<1>1. WriteInv /\ write[h] = "pending" => Waits(h) \/ Told(h)
  BY PendingWaits DEF WriteInv
<1>2. WriteInv /\ Waits(h) => running /\ timer[h]
  BY WaitingIsArmed DEF WriteInv, Waits
<1>3. WriteInv /\ Waits(h) /\ [WriteNext]_writeVars => Waits(h)' \/ Told(h)'
  BY WriteStepWaits
<1>4. WriteInv /\ Waits(h) /\ <<TimerFires(h)>>_writeVars => Told(h)'
  BY TimeoutTells DEF WriteInv, TimerFires
<1> QED
  BY <1>1, <1>2, <1>3, <1>4, PTL DEF TimerIsFair

(* Every write is confirmed or reported, or the process is gone, however   *)
(* many race and whatever becomes of their requests: the timer alone sees  *)
(* to it.                                                                  *)
THEOREM WritesAreAnswered == WriteSpec /\ []TimersCanFire => EveryWriteAnswered
<1> SUFFICES ASSUME WriteSpec, []TimersCanFire PROVE EveryWriteAnswered
  OBVIOUS
<1>1. [](\A h \in Handlings : running /\ timer[h] => ENABLED <<TimerFires(h)>>_writeVars)
  BY PTL DEF TimersCanFire
<1>2. []WriteInv /\ [][WriteNext]_writeVars
  BY WriteInvAlways, PTL DEF WriteSpec
<1>3. ASSUME NEW h \in Handlings PROVE write[h] = "pending" ~> Told(h)
  <2>1. TimerIsFair(h)
    BY DEF WriteSpec
  <2>2. [](running /\ timer[h] => ENABLED <<TimerFires(h)>>_writeVars)
    BY <1>1
  <2> QED
    BY <1>2, <2>1, <2>2, TimerTells
<1> QED
  BY <1>3 DEF EveryWriteAnswered, Told

-----------------------------------------------------------------------------
(* With a net that ends the process, one that lives has called no hook.    *)
AliveUnhooked == running => \A h \in Handlings : hookCalls[h] = 0

OnceInv == AliveUnhooked /\ HookOncePerTry

LEMMA HookOnce ==
  ASSUME KillsProcess, DriverInv, OnceInv, running, NEW h \in Handlings, CallHook(h)
  PROVE  OnceInv'
<1>1. hookCalls[h] = 0 /\ hookCalls' = [hookCalls EXCEPT ![h] = hookCalls[h] + 1]
  BY DEF OnceInv, AliveUnhooked, CallHook
<1>2. ~running'
  BY DEF CallHook, CannotWriteEventHook
<1> QED
  BY <1>1, <1>2 DEF OnceInv, AliveUnhooked, HookOncePerTry, DriverInv, DriverTypeOK

LEMMA NoHookKeepsOnce ==
  ASSUME OnceInv, UNCHANGED hookCalls, running' => running
  PROVE  OnceInv'
  BY DEF OnceInv, AliveUnhooked, HookOncePerTry

(* The default net hides what driver_hook shows: the first call is the     *)
(* last thing the process does, so the leaked timer never fires.           *)
THEOREM DefaultNetHooksOnce ==
  ASSUME KillsProcess
  PROVE  WriteSpec => []HookOncePerTry
<1>1. WriteInit => OnceInv
  BY DEF WriteInit, DriverInit, Fresh, OnceInv, AliveUnhooked, HookOncePerTry
<1>2. WriteInv /\ OnceInv /\ [WriteNext]_writeVars => OnceInv'
  <2> SUFFICES ASSUME WriteInv, OnceInv, [WriteNext]_writeVars PROVE OnceInv'
    OBVIOUS
  <2>1. ASSUME NEW h \in Handlings, WriteRefused(h) \/ TimerFires(h) PROVE OnceInv'
    BY <2>1, HookOnce DEF WriteRefused, AppendError, TimerFires, SafetyTimeout, WriteInv
  <2>2. ASSUME NEW h \in Handlings, StartWrite(h) \/ WriteAnswered(h) PROVE OnceInv'
    BY <2>2, NoHookKeepsOnce DEF StartWrite, WriteEvent, WriteAnswered, AppendOk
  <2>3. ASSUME (\E e \in Events : Destination(e)) \/ UNCHANGED writeVars PROVE OnceInv'
    BY <2>3, NoHookKeepsOnce
    DEF Destination, DestinationAppends, AppendRequestLost, writeVars, netVars, driverVars
  <2> QED
    BY <2>1, <2>2, <2>3 DEF WriteNext
<1>3. OnceInv => HookOncePerTry
  BY DEF OnceInv
<1> QED
  BY <1>1, <1>2, <1>3, WriteInvAlways, PTL DEF WriteSpec

-----------------------------------------------------------------------------
(* TypeOK made inductive.                                                  *)
TypeInv ==
  /\ NetTypeOK
  /\ DriverInv
  /\ HandlerTypeOK
  /\ SubTypeOK
  /\ crashes \in 0..MaxCrashes
  /\ interrupted \in SUBSET Events

-----------------------------------------------------------------------------
(* A delivery counts one more delivery, and only up to MaxDeliveries.      *)
LEMMA DeliverKeepsSubscription ==
  ASSUME SubTypeOK, NEW h \in Handlings, Deliver(h),
         NEW answers \in SUBSET Answers, Settle(EventOf(h), answers)
  PROVE  SubTypeOK'
<1>1. EventOf(h) \in Events
  BY EventOfHandling
<1>2. deliveries[EventOf(h)] + 1 \in 0..MaxDeliveries
  BY DEF Deliver, Handlings
<1>3. status' \in [Events -> Statuses] /\ deliveries' \in [Events -> 0..MaxDeliveries]
  BY <1>1, <1>2 DEF SubTypeOK, Deliver, Statuses
<1>4. settlements' \in SUBSET (Events \X Answers) /\ connected' \in BOOLEAN
  BY <1>1 DEF SubTypeOK, Deliver, Settle
<1> QED
  BY <1>3, <1>4 DEF SubTypeOK

LEMMA SettleKeepsSubscription ==
  ASSUME SubTypeOK, NEW e \in Events,
         NEW answers \in SUBSET Answers, Settle(e, answers),
         UNCHANGED <<status, deliveries, connected>>
  PROVE  SubTypeOK'
  BY DEF SubTypeOK, Settle

LEMMA ServerKeepsSubscription ==
  ASSUME SubTypeOK, NEW e \in Events,
         MessageTimeout(e) \/ \E answer \in Answers : ServerSettles(e, answer)
  PROVE  SubTypeOK'
<1>1. CASE MessageTimeout(e)
  BY <1>1 DEF SubTypeOK, MessageTimeout, Statuses
<1>2. ASSUME NEW answer \in Answers, ServerSettles(e, answer) PROVE SubTypeOK'
  <2>1. Settled[answer] \in Statuses
    BY DEF Settled, Answers, Statuses
  <2> QED
    BY <1>2, <2>1 DEF SubTypeOK, ServerSettles
<1> QED
  BY <1>1, <1>2

LEMMA TakeBackKeepsSubscription ==
  ASSUME SubTypeOK, TakeBack, connected' \in BOOLEAN
  PROVE  SubTypeOK'
  BY EventsAssumption DEF SubTypeOK, TakeBack, Statuses

-----------------------------------------------------------------------------
(* handle, and the two ways its validation ends, keep their own types.     *)
LEMMA HandleKeepsHandler ==
  ASSUME NetTypeOK, HandlerTypeOK, NEW h \in Handlings, Handle(h), running' \in BOOLEAN
  PROVE  NetTypeOK' /\ HandlerTypeOK' /\ UNCHANGED driverVars
  BY EventOfHandling
  DEF NetTypeOK, HandlerTypeOK, Handle, RejectUnreadable, RejectNotAllowed, AwaitValidation,
      InvalidEventHook

LEMMA ValidationKeepsHandler ==
  ASSUME NetTypeOK, HandlerTypeOK, NEW h \in Handlings,
         ValidationPassed(h) \/ ValidationFailed(h)
  PROVE  NetTypeOK' /\ HandlerTypeOK'
  BY EventOfHandling
  DEF NetTypeOK, HandlerTypeOK, netVars, ValidationPassed, ValidationFailed, InvalidEventHook

LEMMA ValidationKeepsDriver ==
  ASSUME DriverInv, NEW h \in Handlings, ValidationPassed(h) \/ ValidationFailed(h)
  PROVE  DriverInv'
<1>1. CASE ValidationPassed(h)
  BY <1>1, WriteEventKeepsDriver DEF ValidationPassed
<1>2. CASE ValidationFailed(h)
  BY <1>2, IdleKeepsDriver DEF ValidationFailed
<1> QED
  BY <1>1, <1>2

(* It gives the type invariant of the two readers.                         *)
LEMMA TypeInvGivesType == TypeInv => TypeOK
  BY DEF TypeInv, TypeOK, DriverInv

LEMMA TypeInit == Init => TypeInv
<1> SUFFICES ASSUME Init PROVE TypeInv
  OBVIOUS
<1>1. NetTypeOK /\ HandlerTypeOK
  BY DEF Init, NetInit, HandlerInit, NetTypeOK, HandlerTypeOK
<1>2. DriverInv
  BY DEF Init, DriverInit, DriverInv, DriverTypeOK, HookBudget, PendingIsGuarded, Fresh,
         WriteStates
<1>3. SubTypeOK
  BY EventsAssumption DEF Init, SubInit, SubTypeOK, Statuses
<1> QED
  BY <1>1, <1>2, <1>3, ProcessAssumption DEF Init, TypeInv

(* A fresh process starts from what its state may be.                      *)
LEMMA RestartKeepsType ==
  ASSUME TypeInv, Restart
  PROVE  TypeInv'
<1>1. NetTypeOK' /\ HandlerTypeOK'
  BY DEF TypeInv, Restart, Forget, NetTypeOK, HandlerTypeOK
<1>2. DriverInv'
  BY DEF TypeInv, Restart, Forget, DriverInv, DriverTypeOK, HookBudget, PendingIsGuarded, Fresh,
         WriteStates
<1>3. SubTypeOK'
  BY TakeBackKeepsSubscription DEF TypeInv, Restart, Forget
<1>4. interrupted' \in SUBSET Events
  BY EventOfHandling DEF TypeInv, Restart, Forget
<1> QED
  BY <1>1, <1>2, <1>3, <1>4 DEF TypeInv, Restart, Forget

(* What happens around a reader keeps the types.                           *)
LEMMA SurroundingsKeepType ==
  ASSUME TypeInv, Surroundings
  PROVE  TypeInv'
<1> USE DEF TypeInv
<1>1. ASSUME NEW h \in Handlings, SafetyTimerFires(h) PROVE TypeInv'
  <2>1. NetTypeOK'
    BY <1>1, HookKeepsNet DEF SafetyTimerFires, SafetyTimeout
  <2>2. DriverInv'
    BY <1>1, TimeoutKeepsDriver DEF SafetyTimerFires
  <2> QED
    BY <1>1, <2>1, <2>2
    DEF SafetyTimerFires, handlerVars, subVars, processVars, HandlerTypeOK, SubTypeOK
<1>2. ASSUME NEW e \in Events, ServerReceivesAnswer(e) \/ ServerTimesOut(e) PROVE TypeInv'
  <2>1. SubTypeOK'
    BY <1>2, ServerKeepsSubscription DEF ServerReceivesAnswer, ServerTimesOut
  <2>2. UNCHANGED <<netVars, driverVars, handlerVars, processVars>>
    BY <1>2 DEF ServerReceivesAnswer, ServerTimesOut
  <2> QED
    BY <2>1, <2>2, IdleKeepsDriver
    DEF netVars, handlerVars, processVars, NetTypeOK, HandlerTypeOK
<1>3. ASSUME NEW e \in Events, RequestArrives(e) \/ RequestLost(e) PROVE TypeInv'
  <2>1. DriverInv'
    BY <1>3, NetworkKeepsDriver DEF RequestArrives, RequestLost
  <2>2. UNCHANGED <<netVars, handlerVars, subVars, processVars>>
    BY <1>3 DEF RequestArrives, RequestLost
  <2> QED
    BY <2>1, <2>2
    DEF netVars, handlerVars, subVars, processVars, NetTypeOK, HandlerTypeOK, SubTypeOK
<1>4. CASE Crash
  <2>1. crashes' \in 0..MaxCrashes
    BY <1>4, ProcessAssumption DEF Crash, CrashNow
  <2>2. NetTypeOK' /\ DriverInv' /\ HandlerTypeOK' /\ SubTypeOK'
    BY <1>4, IdleKeepsDriver
    DEF Crash, CrashNow, NetTypeOK, HandlerTypeOK, SubTypeOK, handlerVars, subVars
  <2> QED
    BY <1>4, <2>1, <2>2 DEF Crash
<1>5. CASE Restart
  BY <1>5, RestartKeepsType
<1>6. CASE SubscriptionDropped
  <2>1. SubTypeOK'
    BY <1>6, TakeBackKeepsSubscription DEF SubscriptionDropped
  <2> QED
    BY <1>6, <2>1, IdleKeepsDriver
    DEF SubscriptionDropped, netVars, handlerVars, processVars, NetTypeOK, HandlerTypeOK
<1> QED
  BY <1>1, <1>2, <1>3, <1>4, <1>5, <1>6 DEF Surroundings

LEMMA StutterKeepsType ==
  ASSUME TypeInv, UNCHANGED vars
  PROVE  TypeInv'
<1>1. UNCHANGED <<netVars, driverVars, handlerVars, subVars, processVars>>
  BY DEF vars
<1> QED
  BY <1>1, IdleKeepsDriver
  DEF TypeInv, netVars, handlerVars, subVars, processVars, NetTypeOK, HandlerTypeOK, SubTypeOK

-----------------------------------------------------------------------------
(* Nothing around a reader sends an event; it only carries what was sent.  *)
LEMMA SurroundingsKeepValid ==
  ASSUME OnlyValidCopied, Surroundings
  PROVE  OnlyValidCopied'
<1> USE DEF OnlyValidCopied, ValidEvents
<1>1. ASSUME NEW h \in Handlings, SafetyTimerFires(h) PROVE OnlyValidCopied'
  BY <1>1 DEF SafetyTimerFires, SafetyTimeout
<1>2. ASSUME NEW e \in Events,
             ServerReceivesAnswer(e) \/ ServerTimesOut(e) \/ RequestArrives(e) \/ RequestLost(e)
      PROVE  OnlyValidCopied'
  BY <1>2 DEF ServerReceivesAnswer, ServerTimesOut, RequestArrives, RequestLost,
              DestinationAppends, AppendRequestLost, driverVars
<1>3. ASSUME Crash \/ Restart \/ SubscriptionDropped PROVE OnlyValidCopied'
  BY <1>3 DEF Crash, Restart, Forget, SubscriptionDropped, driverVars
<1> QED
  BY <1>1, <1>2, <1>3 DEF Surroundings

(* The one operation that sends looks at the verdict first.                *)
LEMMA ValidationKeepsValid ==
  ASSUME OnlyValidCopied, NEW h \in Handlings, ValidationPassed(h) \/ ValidationFailed(h)
  PROVE  OnlyValidCopied'
  BY EventOfHandling
  DEF OnlyValidCopied, ValidEvents, ValidationPassed, ValidationFailed, WriteEvent, driverVars

(* Nor do the answers of a write.                                          *)
LEMMA AnswerKeepsValid ==
  ASSUME OnlyValidCopied, NEW h \in Handlings, AppendOk(h) \/ AppendError(h)
  PROVE  OnlyValidCopied'
  BY DEF OnlyValidCopied, ValidEvents, AppendOk, AppendError

LEMMA IdleKeepsValid ==
  ASSUME OnlyValidCopied, UNCHANGED driverVars
  PROVE  OnlyValidCopied'
  BY DEF OnlyValidCopied, ValidEvents, driverVars

-----------------------------------------------------------------------------
(* The event is copied, or somebody still knows that it is not.            *)
Accounted(e) ==
  \/ e \in dest \cup interrupted \cup alerted
  \/ \E h \in Handlings : EventOf(h) = e /\ Unfinished(h)

(* LostOnlyIfInterrupted made inductive: already the answer on its way to  *)
(* the server is given for an event that is accounted for.                 *)
LostInv ==
  \A e \in ValidEvents :
    e \in LetGo \/ (\E a \in Answers : <<e, a>> \in settlements) => Accounted(e)

LEMMA LostInvGivesLost == LostInv => LostOnlyIfInterrupted
  BY DEF LostInv, LostOnlyIfInterrupted, Accounted, ValidEvents

(* What a callback of either reader does to the handling it is about.      *)
HandlingStep(h) ==
  /\ \/ Handle(h)
     \/ ValidationPassed(h)
     \/ ValidationFailed(h)
     \/ AppendOk(h) /\ UNCHANGED <<netVars, handlerVars>>
     \/ AppendError(h) /\ UNCHANGED <<reported, handlerVars>>
  /\ UNCHANGED interrupted

(* A valid event leaves the hands of the process only into the destination.*)
LEMMA HandlingKeepsAccounted ==
  ASSUME TypeInv, NEW h \in Handlings, HandlingStep(h),
         NEW e \in ValidEvents, Accounted(e)
  PROVE  Accounted(e)'
<1> USE DEF Accounted, Unfinished, TypeInv, DriverInv, DriverTypeOK, HandlerTypeOK, WriteStates
<1>1. ASSUME dest' = dest, alerted \subseteq alerted', interrupted' = interrupted,
             \A g \in Handlings : EventOf(g) = e /\ Unfinished(g) => Unfinished(g)'
      PROVE  Accounted(e)'
  BY <1>1
<1>2. CASE Handle(h)
  BY <1>1, <1>2
  DEF HandlingStep, Handle, RejectUnreadable, RejectNotAllowed, AwaitValidation, driverVars
<1>3. CASE ValidationPassed(h)
  BY <1>1, <1>3 DEF HandlingStep, ValidationPassed, WriteEvent, netVars
<1>4. CASE ValidationFailed(h)
  BY <1>1, <1>4 DEF HandlingStep, ValidationFailed, ValidEvents, driverVars
<1>5. CASE AppendOk(h) /\ UNCHANGED <<netVars, handlerVars>>
  <2>1. CASE EventOf(h) = e
    BY <1>5, <2>1 DEF AppendOk
  <2>2. CASE EventOf(h) # e
    BY <1>1, <1>5, <2>2 DEF HandlingStep, AppendOk, netVars, handlerVars
  <2> QED
    BY <2>1, <2>2
<1>6. CASE AppendError(h) /\ UNCHANGED <<reported, handlerVars>>
  BY <1>1, <1>6 DEF HandlingStep, AppendError, CallHook, CannotWriteEventHook, handlerVars
<1> QED
  BY <1>2, <1>3, <1>4, <1>5, <1>6 DEF HandlingStep

(* A restart turns what was unfinished into interrupted; nothing else      *)
(* around a reader touches its handlings.                                  *)
LEMMA SurroundingsKeepAccounted ==
  ASSUME TypeInv, Surroundings \/ UNCHANGED vars, NEW e \in ValidEvents, Accounted(e)
  PROVE  Accounted(e)'
<1> USE DEF Accounted, Unfinished
<1>1. CASE Restart
  BY <1>1 DEF Restart, Forget
<1>2. CASE ~Restart
  <2>1. dest \subseteq dest' /\ alerted \subseteq alerted' /\ interrupted' = interrupted
    BY <1>2
    DEF Surroundings, SafetyTimerFires, SafetyTimeout, CallHook, CannotWriteEventHook,
        ServerReceivesAnswer, ServerTimesOut, RequestArrives, RequestLost, DestinationAppends,
        AppendRequestLost, Crash, SubscriptionDropped, vars, netVars, driverVars, processVars
  <2>2. write' = write /\ checking' = checking
    BY <1>2
    DEF Surroundings, SafetyTimerFires, SafetyTimeout, ServerReceivesAnswer, ServerTimesOut,
        RequestArrives, RequestLost, DestinationAppends, AppendRequestLost, Crash,
        SubscriptionDropped, vars, driverVars, handlerVars
  <2> QED
    BY <2>1, <2>2
<1> QED
  BY <1>1, <1>2

(* The server lets go of what was answered only.                           *)
LEMMA SurroundingsKeepLost ==
  ASSUME TypeInv, LostInv, Surroundings \/ UNCHANGED vars
  PROVE  LostInv'
<1> SUFFICES ASSUME NEW e \in ValidEvents,
                    e \in LetGo' \/ \E a \in Answers : <<e, a>> \in settlements'
             PROVE  Accounted(e)'
  BY DEF LostInv, ValidEvents
<1>1. \/ UNCHANGED <<settlements, status>>
      \/ \E f \in Events : \/ MessageTimeout(f)
                           \/ \E answer \in Answers : ServerSettles(f, answer)
      \/ TakeBack
  BY DEF Surroundings, SafetyTimerFires, ServerReceivesAnswer, ServerTimesOut, RequestArrives,
         RequestLost, Crash, Restart, Forget, SubscriptionDropped, subVars, vars
<1> DEFINE Answered == e \in LetGo \/ \E a \in Answers : <<e, a>> \in settlements
<1>2. Answered
  <2>1. CASE UNCHANGED <<settlements, status>>
    BY <2>1 DEF LetGo
  <2>2. ASSUME NEW f \in Events, MessageTimeout(f) PROVE Answered
    BY <2>2 DEF MessageTimeout, LetGo, TypeInv, SubTypeOK
  <2>3. ASSUME NEW f \in Events, NEW answer \in Answers, ServerSettles(f, answer) PROVE Answered
    BY <2>3 DEF ServerSettles, LetGo, TypeInv, SubTypeOK
  <2>4. CASE TakeBack
    BY <2>4 DEF TakeBack, LetGo
  <2> QED
    BY <1>1, <2>1, <2>2, <2>3, <2>4
<1> QED
  BY <1>2, SurroundingsKeepAccounted DEF LostInv

-----------------------------------------------------------------------------
(* Written handlings call no hook in this step.                            *)
Quiet == \A h \in Handlings : write[h] = "written" => hookCalls'[h] <= hookCalls[h]

LEMMA HandlingIsQuiet ==
  ASSUME TypeInv, NEW h \in Handlings, HandlingStep(h)
  PROVE  Quiet
<1> SUFFICES ASSUME NEW g \in Handlings, write[g] = "written"
             PROVE  hookCalls'[g] <= hookCalls[g]
  BY DEF Quiet
<1>1. hookCalls[g] \in 0..2
  BY DEF TypeInv, DriverInv, DriverTypeOK
<1>2. CASE AppendError(h)
  BY <1>1, <1>2 DEF AppendError, CallHook, TypeInv, DriverInv, DriverTypeOK
<1>3. CASE UNCHANGED hookCalls
  BY <1>1, <1>3
<1> QED
  BY <1>2, <1>3
  DEF HandlingStep, Handle, ValidationPassed, WriteEvent, ValidationFailed, AppendOk, driverVars

LEMMA SurroundingsAreQuiet ==
  ASSUME TypeInv, Surroundings \/ UNCHANGED vars
  PROVE  Quiet
<1> SUFFICES ASSUME NEW g \in Handlings, write[g] = "written"
             PROVE  hookCalls'[g] <= hookCalls[g]
  BY DEF Quiet
<1>1. hookCalls[g] \in 0..2
  BY DEF TypeInv, DriverInv, DriverTypeOK
<1>2. ASSUME NEW h \in Handlings, SafetyTimerFires(h)
      PROVE  hookCalls'[g] <= hookCalls[g]
  BY <1>1, <1>2
  DEF SafetyTimerFires, SafetyTimeout, CallHook, TypeInv, DriverInv, DriverTypeOK, HookBudget
<1>3. CASE Restart
  BY <1>1, <1>3 DEF Restart, Forget, Fresh
<1>4. ASSUME NEW e \in Events,
             ServerReceivesAnswer(e) \/ ServerTimesOut(e) \/ RequestArrives(e) \/ RequestLost(e)
      PROVE  UNCHANGED hookCalls
  BY <1>4
  DEF ServerReceivesAnswer, ServerTimesOut, RequestArrives, DestinationAppends, RequestLost,
      AppendRequestLost, driverVars
<1>5. ASSUME Crash \/ SubscriptionDropped \/ UNCHANGED vars
      PROVE  UNCHANGED hookCalls
  BY <1>5 DEF Crash, SubscriptionDropped, vars, driverVars
<1> QED
  BY <1>1, <1>2, <1>3, <1>4, <1>5 DEF Surroundings

-----------------------------------------------------------------------------
(* A process that ends itself in this step has a write that is not         *)
(* confirmed.                                                              *)
Caused ==
  running /\ ~running' /\ crashes' = crashes
    => \E h \in Handlings : write'[h] \in {"pending", "failed"}

LEMMA HandlingIsCaused ==
  ASSUME TypeInv, NEW h \in Handlings, HandlingStep(h), Handle(h) => UNCHANGED running
  PROVE  Caused
<1> SUFFICES ASSUME running, ~running' PROVE write'[h] \in {"pending", "failed"}
  BY DEF Caused
<1> QED
  BY DEF HandlingStep, ValidationPassed, ValidationFailed, AppendError, netVars, TypeInv,
         DriverInv, DriverTypeOK

(* An armed timer belongs to a write that is not confirmed (HookBudget),   *)
(* for the answer clears it.                                               *)
LEMMA SurroundingsAreCaused ==
  ASSUME TypeInv, Surroundings \/ UNCHANGED vars
  PROVE  Caused
<1> SUFFICES ASSUME running, ~running', crashes' = crashes
             PROVE  \E h \in Handlings : write'[h] \in {"pending", "failed"}
  BY DEF Caused
<1>1. ASSUME NEW h \in Handlings, SafetyTimerFires(h)
      PROVE  write'[h] \in {"pending", "failed"}
  BY <1>1
  DEF SafetyTimerFires, SafetyTimeout, TypeInv, DriverInv, DriverTypeOK, WriteStates,
      HookBudget
<1>2. ASSUME NEW e \in Events,
             ServerReceivesAnswer(e) \/ ServerTimesOut(e) \/ RequestArrives(e) \/ RequestLost(e)
      PROVE  FALSE
  BY <1>2 DEF ServerReceivesAnswer, ServerTimesOut, RequestArrives, RequestLost, netVars
<1>3. ~Crash
  BY ProcessAssumption DEF TypeInv, Crash, CrashNow
<1>4. ~(Restart \/ SubscriptionDropped \/ UNCHANGED vars)
  BY DEF Restart, Forget, SubscriptionDropped, vars, netVars
<1> QED
  BY <1>1, <1>2, <1>3, <1>4 DEF Surroundings

-----------------------------------------------------------------------------
(* The hook inside a reader: one call per handling if it ends the process, *)
(* for a new process begins with none.                                     *)
LEMMA HandlingKeepsOnce ==
  ASSUME KillsProcess, TypeInv, OnceInv, NEW h \in Handlings, HandlingStep(h)
  PROVE  OnceInv'
<1>1. CASE AppendError(h)
  BY <1>1, HookOnce DEF AppendError, TypeInv
<1>2. CASE ~AppendError(h)
  BY <1>2, NoHookKeepsOnce
  DEF HandlingStep, Handle, ValidationPassed, WriteEvent, ValidationFailed, AppendOk, driverVars
<1> QED
  BY <1>1, <1>2

LEMMA ForgetKeepsOnce ==
  ASSUME Forget
  PROVE  OnceInv'
  BY DEF Forget, Fresh, OnceInv, AliveUnhooked, HookOncePerTry

LEMMA SurroundingsKeepOnce ==
  ASSUME KillsProcess, TypeInv, OnceInv, Surroundings \/ UNCHANGED vars
  PROVE  OnceInv'
<1>1. ASSUME NEW h \in Handlings, SafetyTimerFires(h) PROVE OnceInv'
  BY <1>1, HookOnce DEF SafetyTimerFires, SafetyTimeout, TypeInv
<1>2. CASE Restart
  BY <1>2, ForgetKeepsOnce DEF Restart
<1>3. ASSUME NEW e \in Events,
             ServerReceivesAnswer(e) \/ ServerTimesOut(e) \/ RequestArrives(e) \/ RequestLost(e)
      PROVE  OnceInv'
  BY <1>3, NoHookKeepsOnce
  DEF ServerReceivesAnswer, ServerTimesOut, RequestArrives, DestinationAppends, RequestLost,
      AppendRequestLost, netVars, driverVars
<1>4. CASE Crash \/ SubscriptionDropped \/ UNCHANGED vars
  BY <1>4, NoHookKeepsOnce
  DEF Crash, CrashNow, SubscriptionDropped, vars, netVars, driverVars
<1> QED
  BY <1>1, <1>2, <1>3, <1>4 DEF Surroundings

LEMMA OnceInit == Init => OnceInv
  BY DEF Init, DriverInit, Fresh, OnceInv, AliveUnhooked, HookOncePerTry
=============================================================================

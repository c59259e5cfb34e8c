-------------------------- MODULE GrpcReaderProofs --------------------------
(***************************************************************************)
(* The gRPC reader, for every value of the constants: its types, what it   *)
(* copies, and the exact windows in which its early acknowledgement may    *)
(* lose an event.                                                          *)
(***************************************************************************)
EXTENDS GrpcReader, ReaderProofs

LEMMA CallbackKeepsType ==
  ASSUME TypeInv, NEW h \in Handlings, Callback(h)
  PROVE  TypeInv'
<1> USE DEF TypeInv
<1>1. CASE Receive(h)
  <2>1. NetTypeOK' /\ HandlerTypeOK' /\ UNCHANGED driverVars
    BY <1>1, HandleKeepsHandler DEF Receive, NetTypeOK
  <2>2. SubTypeOK'
    BY <1>1, DeliverKeepsSubscription DEF Receive, Answers
  <2> QED
    BY <1>1, <2>1, <2>2, IdleKeepsDriver DEF Receive, processVars
<1>2. CASE AckThrows(h)
  <2>1. NetTypeOK' /\ HandlerTypeOK' /\ UNCHANGED driverVars
    BY <1>2, HandleKeepsHandler DEF AckThrows, CrashNow
  <2>2. SubTypeOK'
    BY <1>2, DeliverKeepsSubscription DEF AckThrows, Answers
  <2>3. crashes' \in 0..MaxCrashes
    BY <1>2, ProcessAssumption DEF AckThrows, CrashNow
  <2> QED
    BY <1>2, <2>1, <2>2, <2>3, IdleKeepsDriver DEF AckThrows
<1>3. CASE Validated(h) \/ Invalidated(h)
  <2>1. NetTypeOK' /\ HandlerTypeOK' /\ DriverInv'
    BY <1>3, ValidationKeepsHandler, ValidationKeepsDriver DEF Validated, Invalidated
  <2> QED
    BY <1>3, <2>1 DEF Validated, Invalidated, subVars, processVars, SubTypeOK
<1>4. CASE Written(h)
  <2>1. DriverInv'
    BY <1>4, AppendOkKeepsDriver DEF Written
  <2> QED
    BY <1>4, <2>1
    DEF Written, netVars, handlerVars, subVars, processVars, NetTypeOK, HandlerTypeOK, SubTypeOK
<1>5. CASE WriteFailed(h)
  <2>1. NetTypeOK' /\ DriverInv'
    BY <1>5, AppendErrorKeepsDriver, HookKeepsNet DEF WriteFailed, AppendError
  <2> QED
    BY <1>5, <2>1 DEF WriteFailed, handlerVars, subVars, processVars, HandlerTypeOK, SubTypeOK
<1> QED
  BY <1>1, <1>2, <1>3, <1>4, <1>5 DEF Callback

(* A callback takes one step of its handling; an acknowledgement that      *)
(* throws is counted among the deaths the process does not will.           *)
LEMMA CallbackIsHandlingStep ==
  ASSUME TypeInv, NEW h \in Handlings, Callback(h)
  PROVE  HandlingStep(h) /\ (Handle(h) => UNCHANGED running \/ AckThrows(h))
<1>1. HandlingStep(h)
  BY DEF HandlingStep, Callback, Receive, AckThrows, Validated, Invalidated, Written, WriteFailed,
         processVars
<1>2. UNCHANGED running \/ WriteFailed(h) \/ AckThrows(h)
  BY DEF Callback, Receive, Validated, ValidationPassed, Invalidated, ValidationFailed, Written,
         netVars
<1>3. WriteFailed(h) => ~Handle(h)
  BY DEF WriteFailed, AppendError, Handle, driverVars, TypeInv, DriverInv, DriverTypeOK
<1> QED
  BY <1>1, <1>2, <1>3

LEMMA TypeInvAlways == GrpcSpec => []TypeInv
<1>1. TypeInv /\ [GrpcNext]_vars => TypeInv'
  BY CallbackKeepsType, SurroundingsKeepType, StutterKeepsType DEF GrpcNext
<1> QED
  BY <1>1, TypeInit, PTL DEF GrpcSpec

(* Every variable keeps its type; above all no handling ever calls the     *)
(* hook more than twice, whatever timers and answers race.                 *)
THEOREM GrpcTypeCorrect == GrpcSpec => []TypeOK
  BY TypeInvAlways, TypeInvGivesType, PTL

(* No write hangs unreported, although nobody awaits it.                   *)
THEOREM GrpcWritesAreGuarded == GrpcSpec => []PendingIsGuarded
<1>1. TypeInv => PendingIsGuarded
  BY DEF TypeInv, DriverInv
<1> QED
  BY <1>1, TypeInvAlways, PTL

(* No callback, timer or restart reports a write that is confirmed.        *)
THEOREM GrpcNoAlarmAfterWritten == GrpcSpec => NoAlarmAfterSuccess
<1>1. TypeInv /\ [GrpcNext]_vars => [Quiet]_writeVars
  BY CallbackIsHandlingStep, HandlingIsQuiet, SurroundingsAreQuiet DEF GrpcNext
<1> QED
  BY <1>1, TypeInvAlways, PTL DEF GrpcSpec, NoAlarmAfterSuccess, Quiet

(* The v21 reader, which leaves several handlings at work, too calls the   *)
(* default net once for a try at most.                                     *)
THEOREM GrpcHooksOnce ==
  ASSUME KillsProcess
  PROVE  GrpcSpec => []HookOncePerTry
<1>1. TypeInv /\ OnceInv /\ [GrpcNext]_vars => OnceInv'
  BY CallbackIsHandlingStep, HandlingKeepsOnce, SurroundingsKeepOnce DEF GrpcNext
<1>2. OnceInv => HookOncePerTry
  BY DEF OnceInv
<1> QED
  BY <1>1, <1>2, OnceInit, TypeInvAlways, PTL DEF GrpcSpec

(* The process ends itself only while a write is not confirmed.            *)
THEOREM GrpcKillHasCause == GrpcSpec => KillHasCause
<1>1. TypeInv /\ [GrpcNext]_vars => Caused
  <2>1. ASSUME TypeInv, NEW h \in Handlings, AckThrows(h) PROVE Caused
    BY <2>1, ProcessAssumption DEF TypeInv, AckThrows, CrashNow, Caused
  <2> QED
    BY <2>1, CallbackIsHandlingStep, HandlingIsCaused, SurroundingsAreCaused DEF GrpcNext
<1>2. TypeInv /\ [GrpcNext]_vars => [Caused]_vars
  BY <1>1
<1> QED
  BY <1>2, TypeInvAlways, PTL DEF GrpcSpec, KillHasCause, Caused

-----------------------------------------------------------------------------
(* Only valid events reach the destination: acknowledging early does not   *)
(* let the write come before the validation.                               *)
THEOREM GrpcOnlyValidCopied == GrpcSpec => []OnlyValidCopied
<1>1. Init => OnlyValidCopied
  BY DEF Init, DriverInit, OnlyValidCopied
<1>2. ASSUME OnlyValidCopied, [GrpcNext]_vars PROVE OnlyValidCopied'
  <2>1. ASSUME NEW h \in Handlings, Receive(h) \/ AckThrows(h) PROVE OnlyValidCopied'
    BY <1>2, <2>1, IdleKeepsValid DEF Receive, AckThrows, Handle
  <2>2. ASSUME NEW h \in Handlings, Validated(h) \/ Invalidated(h) PROVE OnlyValidCopied'
    BY <1>2, <2>2, ValidationKeepsValid DEF Validated, Invalidated
  <2>3. ASSUME NEW h \in Handlings, Written(h) \/ WriteFailed(h) PROVE OnlyValidCopied'
    BY <1>2, <2>3, AnswerKeepsValid DEF Written, WriteFailed
  <2>4. CASE UNCHANGED vars
    BY <1>2, <2>4, IdleKeepsValid DEF vars
  <2> QED
    BY <1>2, <2>1, <2>2, <2>3, <2>4, SurroundingsKeepValid DEF GrpcNext, Callback
<1> QED
  BY <1>1, <1>2, PTL DEF GrpcSpec

-----------------------------------------------------------------------------
(* The event that is acknowledged at once is already in the handler's hands.*)
LEMMA CallbackKeepsLost ==
  ASSUME TypeInv, LostInv, NEW h \in Handlings, Callback(h)
  PROVE  LostInv'
<1> SUFFICES ASSUME NEW e \in ValidEvents,
                    e \in LetGo' \/ \E a \in Answers : <<e, a>> \in settlements'
             PROVE  Accounted(e)'
  BY DEF LostInv, ValidEvents
<1>e. EventOf(h) \in Events
  BY EventOfHandling
<1>1. HandlingStep(h)
  BY CallbackIsHandlingStep
<1>2. CASE Accounted(e)
  BY <1>1, <1>2, HandlingKeepsAccounted
<1>3. CASE ~Accounted(e)
  <2>1. e \notin LetGo /\ ~\E a \in Answers : <<e, a>> \in settlements
    BY <1>3 DEF LostInv
  <2>2. e \notin LetGo'
    BY <2>1, <1>e
    DEF Callback, Receive, AckThrows, Deliver, Validated, Invalidated, Written, WriteFailed,
        subVars, LetGo, TypeInv, SubTypeOK
  <2>3. EventOf(h) = e /\ (Receive(h) \/ AckThrows(h))
    BY <2>1, <2>2
    DEF Callback, Receive, AckThrows, Validated, Invalidated, Written, WriteFailed, Settle, subVars
  <2>4. h \in checking'
    BY <2>3
    DEF Receive, AckThrows, Handle, RejectUnreadable, RejectNotAllowed, AwaitValidation,
        ValidEvents
  <2> QED
    BY <2>3, <2>4 DEF Accounted, Unfinished
<1> QED
  BY <1>2, <1>3

(* Acknowledged at once, a valid event that is not copied was begun by a   *)
(* process that died, or failed and was reported, or is still at work:     *)
(* redeliveries, late answers and dropped subscriptions lose none.         *)
THEOREM GrpcLostOnlyIfInterrupted == GrpcSpec => []LostOnlyIfInterrupted
<1>1. Init => LostInv
  BY DEF Init, SubInit, LostInv, LetGo
<1>2. TypeInv /\ LostInv /\ [GrpcNext]_vars => LostInv'
  BY CallbackKeepsLost, SurroundingsKeepLost DEF GrpcNext
<1> QED
  BY <1>1, <1>2, TypeInvAlways, LostInvGivesLost, PTL DEF GrpcSpec
=============================================================================

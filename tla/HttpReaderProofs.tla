-------------------------- MODULE HttpReaderProofs --------------------------
(***************************************************************************)
(* The HTTP reader, for every stream, verdict, buffer, number of           *)
(* deliveries and number of deaths: its types, what it copies, and, with   *)
(* the acknowledgement left to the reader, that it lets no valid event go  *)
(* before the event is in the destination.                                 *)
(***************************************************************************)
EXTENDS HttpReader, ReaderProofs, FiniteSetTheorems

(* Each callback of the reader keeps the types.                            *)
LEMMA CallbackKeepsType ==
  ASSUME TypeInv, NEW h \in Handlings, Callback(h)
  PROVE  TypeInv'
<1> USE DEF TypeInv
<1>e. EventOf(h) \in Events
  BY EventOfHandling
<1>1. CASE Receive(h)
  <2>1. NetTypeOK' /\ HandlerTypeOK' /\ UNCHANGED driverVars
    BY <1>1, HandleKeepsHandler DEF Receive, NetTypeOK
  <2>2. SubTypeOK'
    <3> DEFINE answers == (IF h \in rejected' THEN {"skip", "ack"} ELSE {})
                          \cup (IF AutoAck THEN {"ack"} ELSE {})
    <3>1. answers \in SUBSET Answers
      BY DEF Answers
    <3>2. Deliver(h) /\ Settle(EventOf(h), answers)
      BY <1>1 DEF Receive, AnswerAtReceive
    <3> HIDE DEF answers
    <3> QED
      BY <3>1, <3>2, DeliverKeepsSubscription
  <2> QED
    BY <1>1, <2>1, <2>2, IdleKeepsDriver DEF Receive, processVars
<1>2. CASE Validated(h)
  <2>1. NetTypeOK' /\ HandlerTypeOK' /\ DriverInv'
    BY <1>2, ValidationKeepsHandler, ValidationKeepsDriver DEF Validated
  <2> QED
    BY <1>2, <2>1 DEF Validated, subVars, processVars, SubTypeOK
<1>3. CASE Invalidated(h)
  <2>1. NetTypeOK' /\ HandlerTypeOK' /\ DriverInv'
    BY <1>3, ValidationKeepsHandler, ValidationKeepsDriver DEF Invalidated
  <2>2. SubTypeOK'
    BY <1>3, <1>e, SettleKeepsSubscription DEF Invalidated, Answers
  <2> QED
    BY <1>3, <2>1, <2>2 DEF Invalidated, processVars
<1>4. CASE Written(h)
  <2>1. DriverInv'
    BY <1>4, AppendOkKeepsDriver DEF Written
  <2>2. SubTypeOK'
    BY <1>4, <1>e, SettleKeepsSubscription DEF Written, Answers
  <2> QED
    BY <1>4, <2>1, <2>2
    DEF Written, netVars, handlerVars, processVars, NetTypeOK, HandlerTypeOK
<1>5. CASE WriteFailed(h)
  <2>1. NetTypeOK' /\ DriverInv'
    BY <1>5, AppendErrorKeepsDriver, HookKeepsNet DEF WriteFailed, AppendError
  <2>2. SubTypeOK'
    <3>1. (IF running' THEN {"ack"} ELSE {}) \in SUBSET Answers
      BY DEF Answers
    <3> QED
      BY <1>5, <1>e, <3>1, SettleKeepsSubscription DEF WriteFailed
  <2> QED
    BY <1>5, <2>1, <2>2 DEF WriteFailed, handlerVars, processVars, HandlerTypeOK
<1> QED
  BY <1>1, <1>2, <1>3, <1>4, <1>5 DEF Callback

LEMMA NextKeepsType == TypeInv /\ [HttpNext]_vars => TypeInv'
  BY CallbackKeepsType, SurroundingsKeepType, StutterKeepsType DEF HttpNext

LEMMA TypeInvAlways == HttpSpec => []TypeInv
  BY TypeInit, NextKeepsType, PTL DEF HttpSpec

(* Every variable keeps its type; above all no handling ever calls the     *)
(* hook more than twice, whatever timers and answers race.                 *)
THEOREM HttpTypeCorrect == HttpSpec => []TypeOK
  BY TypeInvAlways, TypeInvGivesType, PTL

(* No write of the reader hangs unreported: until its answer its timer is  *)
(* armed or the net was told.                                              *)
THEOREM HttpWritesAreGuarded == HttpSpec => []PendingIsGuarded
<1>1. TypeInv => PendingIsGuarded
  BY DEF TypeInv, DriverInv
<1> QED
  BY <1>1, TypeInvAlways, PTL

(* A callback takes one step of its handling.                              *)
LEMMA CallbackIsHandlingStep ==
  ASSUME TypeInv, NEW h \in Handlings, Callback(h)
  PROVE  HandlingStep(h) /\ (Handle(h) => UNCHANGED running)
<1>1. HandlingStep(h)
  BY DEF HandlingStep, Callback, Receive, Validated, Invalidated, Written, WriteFailed, processVars
<1>2. UNCHANGED running \/ WriteFailed(h)
  BY DEF Callback, Receive, Validated, ValidationPassed, Invalidated, ValidationFailed, Written,
         netVars
<1>3. WriteFailed(h) => ~Handle(h)
  BY DEF WriteFailed, AppendError, Handle, driverVars, TypeInv, DriverInv, DriverTypeOK
<1> QED
  BY <1>1, <1>2, <1>3

LEMMA NextIsQuiet == TypeInv /\ [HttpNext]_vars => Quiet
  BY CallbackIsHandlingStep, HandlingIsQuiet, SurroundingsAreQuiet DEF HttpNext

(* No callback, timer or restart reports a write that is confirmed.        *)
THEOREM HttpNoAlarmAfterWritten == HttpSpec => NoAlarmAfterSuccess
<1>1. TypeInv /\ [HttpNext]_vars => [Quiet]_writeVars
  BY NextIsQuiet
<1> QED
  BY <1>1, TypeInvAlways, PTL DEF HttpSpec, NoAlarmAfterSuccess, Quiet

LEMMA NextKeepsOnce ==
  ASSUME KillsProcess
  PROVE  TypeInv /\ OnceInv /\ [HttpNext]_vars => OnceInv'
  BY CallbackIsHandlingStep, HandlingKeepsOnce, SurroundingsKeepOnce DEF HttpNext

(* Over all restarts and redeliveries the default net is called once for a *)
(* try at most.                                                            *)
THEOREM HttpHooksOnce ==
  ASSUME KillsProcess
  PROVE  HttpSpec => []HookOncePerTry
<1>1. OnceInv => HookOncePerTry
  BY DEF OnceInv
<1> QED
  BY <1>1, OnceInit, NextKeepsOnce, TypeInvAlways, PTL DEF HttpSpec

-----------------------------------------------------------------------------
LEMMA NextKeepsValid == OnlyValidCopied /\ [HttpNext]_vars => OnlyValidCopied'
<1> SUFFICES ASSUME OnlyValidCopied, [HttpNext]_vars PROVE OnlyValidCopied'
  OBVIOUS
<1>1. ASSUME NEW h \in Handlings, Receive(h) PROVE OnlyValidCopied'
  BY <1>1, IdleKeepsValid DEF Receive, Handle
<1>2. ASSUME NEW h \in Handlings, Validated(h) \/ Invalidated(h) PROVE OnlyValidCopied'
  BY <1>2, ValidationKeepsValid DEF Validated, Invalidated
<1>3. ASSUME NEW h \in Handlings, Written(h) \/ WriteFailed(h) PROVE OnlyValidCopied'
  BY <1>3, AnswerKeepsValid DEF Written, WriteFailed
<1>4. CASE UNCHANGED vars
  BY <1>4, IdleKeepsValid DEF vars
<1> QED
  BY <1>1, <1>2, <1>3, <1>4, SurroundingsKeepValid DEF HttpNext, Callback

(* Only valid events reach the destination: validation comes before the    *)
(* request on every path through handle.                                   *)
THEOREM HttpOnlyValidCopied == HttpSpec => []OnlyValidCopied
<1>1. Init => OnlyValidCopied
  BY DEF Init, DriverInit, OnlyValidCopied
<1> QED
  BY <1>1, NextKeepsValid, PTL DEF HttpSpec

-----------------------------------------------------------------------------
(* The event is copied, or a net that lets the process live was told.      *)
Safe(e) == e \in dest \/ (~KillsProcess /\ e \in alerted)

(* LetGoIsCopied made inductive: already the answer on its way to the      *)
(* server is given for a safe event only.                                  *)
AnswersAreSafe ==
  \A e \in ValidEvents, a \in Answers : <<e, a>> \in settlements => Safe(e)

CopyInv == AnswersAreSafe /\ LetGoIsCopied

(* Neither the destination nor the history of a hook ever loses an event.  *)
LEMMA HistoriesGrow ==
  ASSUME [HttpNext]_vars
  PROVE  dest \subseteq dest' /\ alerted \subseteq alerted' /\ reported \subseteq reported'
<1> DEFINE Grows ==
      dest \subseteq dest' /\ alerted \subseteq alerted' /\ reported \subseteq reported'
<1>1. ASSUME NEW h \in Handlings, Callback(h) PROVE Grows
  BY <1>1
  DEF Callback, Receive, Handle, RejectUnreadable, RejectNotAllowed, AwaitValidation, Validated,
      ValidationPassed, WriteEvent, Invalidated, ValidationFailed, InvalidEventHook, Written,
      AppendOk, WriteFailed, AppendError, CallHook, CannotWriteEventHook, driverVars, netVars
<1>2. ASSUME NEW h \in Handlings, SafetyTimerFires(h) PROVE Grows
  BY <1>2 DEF SafetyTimerFires, SafetyTimeout, CallHook, CannotWriteEventHook
<1>3. ASSUME NEW f \in Events,
             ServerReceivesAnswer(f) \/ ServerTimesOut(f) \/ RequestArrives(f) \/ RequestLost(f)
      PROVE  Grows
  BY <1>3
  DEF ServerReceivesAnswer, ServerTimesOut, RequestArrives, RequestLost,
      DestinationAppends, AppendRequestLost, driverVars, netVars
<1>4. ASSUME Crash \/ Restart \/ SubscriptionDropped \/ UNCHANGED vars PROVE Grows
  BY <1>4 DEF Crash, Restart, Forget, SubscriptionDropped, vars, driverVars, netVars
<1> QED
  BY <1>1, <1>2, <1>3, <1>4 DEF HttpNext, Surroundings

(* What is safe stays safe.                                                *)
LEMMA SafeStays ==
  ASSUME [HttpNext]_vars, NEW e \in Events, Safe(e)
  PROVE  Safe(e)'
  BY HistoriesGrow DEF Safe

(* The server lets an event go only on an answer; losing the connection    *)
(* loses answers and lets nothing go.                                      *)
LEMMA SurroundingsLetAnsweredGo ==
  ASSUME TypeInv, Surroundings
  PROVE  /\ settlements' \subseteq settlements
         /\ \A e \in LetGo' : e \in LetGo \/ \E a \in Answers : <<e, a>> \in settlements
<1> DEFINE Lets == /\ settlements' \subseteq settlements
                   /\ \A e \in LetGo' :
                        e \in LetGo \/ \E a \in Answers : <<e, a>> \in settlements
<1>1. ASSUME UNCHANGED <<settlements, status>> PROVE Lets
  BY <1>1 DEF LetGo
<1>2. ASSUME NEW e \in Events, NEW answer \in Answers, ServerSettles(e, answer) PROVE Lets
  BY <1>2 DEF ServerSettles, LetGo
<1>3. ASSUME NEW e \in Events, MessageTimeout(e) PROVE Lets
  BY <1>3 DEF MessageTimeout, LetGo, TypeInv, SubTypeOK
<1>4. CASE TakeBack
  BY <1>4 DEF TakeBack, LetGo
<1>5. \/ UNCHANGED <<settlements, status>>
      \/ \E e \in Events : \/ MessageTimeout(e)
                           \/ \E answer \in Answers : ServerSettles(e, answer)
      \/ TakeBack
  BY DEF Surroundings, SafetyTimerFires, ServerReceivesAnswer, ServerTimesOut, RequestArrives,
         RequestLost, Crash, Restart, Forget, SubscriptionDropped, subVars
<1> QED
  BY <1>1, <1>2, <1>3, <1>4, <1>5

(* Answers: a callback answers a valid event only when the append was      *)
(* confirmed, or was reported and the process lives on.                    *)
LEMMA CallbackAnswersSafely ==
  ASSUME ~AutoAck, CopyInv, [HttpNext]_vars, NEW h \in Handlings, Callback(h)
  PROVE  CopyInv'
<1> DEFINE e == EventOf(h)
<1>e. e \in Events
  BY EventOfHandling
<1>1. CASE Receive(h)
  <2>1. e \in ValidEvents => h \notin rejected'
    BY <1>1 DEF Receive, Handle, Idle, RejectUnreadable, RejectNotAllowed, AwaitValidation,
                ValidEvents
  <2>2. e \in ValidEvents => settlements' = settlements
    BY <1>1, <2>1 DEF Receive, AnswerAtReceive, Settle
  <2>3. \A f \in ValidEvents, a \in Answers :
          <<f, a>> \in settlements' => <<f, a>> \in settlements
    BY <1>1, <2>2 DEF Receive, AnswerAtReceive, Settle
  <2>4. LetGo' \subseteq LetGo
    BY <1>1, <1>e DEF Receive, Deliver, LetGo
  <2> QED
    BY <2>3, <2>4, SafeStays DEF CopyInv, AnswersAreSafe, LetGoIsCopied, Safe, ValidEvents
<1>2. CASE Validated(h)
  <2>1. UNCHANGED <<settlements, status>>
    BY <1>2 DEF Validated, subVars
  <2> QED
    BY <2>1, SafeStays DEF CopyInv, AnswersAreSafe, LetGoIsCopied, Safe, ValidEvents, LetGo
<1>3. ASSUME Invalidated(h) \/ Written(h) \/ WriteFailed(h) PROVE CopyInv'
  <2>1. e \notin ValidEvents \/ Safe(e)' \/ settlements' = settlements
    BY <1>3
    DEF Invalidated, ValidationFailed, Written, AppendOk, WriteFailed, AppendError, CallHook,
        CannotWriteEventHook, Settle, Safe, ValidEvents
  <2>2. \A f \in ValidEvents, a \in Answers :
          <<f, a>> \in settlements' => <<f, a>> \in settlements \/ Safe(f)'
    BY <1>3, <2>1 DEF Invalidated, Written, WriteFailed, Settle
  <2>3. status' = status
    BY <1>3 DEF Invalidated, Written, WriteFailed
  <2> QED
    BY <2>2, <2>3, SafeStays DEF CopyInv, AnswersAreSafe, LetGoIsCopied, Safe, ValidEvents, LetGo
<1> QED
  BY <1>1, <1>2, <1>3 DEF Callback

LEMMA SurroundingsAreSafe ==
  ASSUME TypeInv, CopyInv, [HttpNext]_vars, Surroundings
  PROVE  CopyInv'
  BY SurroundingsLetAnsweredGo, SafeStays
  DEF CopyInv, AnswersAreSafe, LetGoIsCopied, Safe, ValidEvents

LEMMA NextKeepsCopies ==
  ASSUME ~AutoAck
  PROVE  TypeInv /\ CopyInv /\ [HttpNext]_vars => CopyInv'
<1> SUFFICES ASSUME TypeInv, CopyInv, [HttpNext]_vars PROVE CopyInv'
  OBVIOUS
<1>1. ASSUME NEW h \in Handlings, Callback(h) PROVE CopyInv'
  BY <1>1, CallbackAnswersSafely
<1>2. CASE Surroundings
  BY <1>2, SurroundingsAreSafe
<1>3. CASE UNCHANGED vars
  BY <1>3 DEF vars, subVars, netVars, driverVars, CopyInv, AnswersAreSafe, LetGoIsCopied, Safe, LetGo
<1> QED
  BY <1>1, <1>2, <1>3 DEF HttpNext

LEMMA CopyInvAlways ==
  ASSUME ~AutoAck
  PROVE  HttpSpec => []CopyInv
<1>1. Init => CopyInv
  BY DEF Init, SubInit, CopyInv, AnswersAreSafe, LetGoIsCopied, LetGo
<1> QED
  BY <1>1, NextKeepsCopies, TypeInvAlways, PTL DEF HttpSpec

(* With the acknowledgement left to the reader, an event that the source   *)
(* will not send again is copied if it is valid, or a net that lets the    *)
(* process live was told: handle is awaited before the answer.             *)
THEOREM HttpLetGoIsCopied ==
  ASSUME ~AutoAck
  PROVE  HttpSpec => []LetGoIsCopied
<1>1. CopyInv => LetGoIsCopied
  BY DEF CopyInv
<1> QED
  BY <1>1, CopyInvAlways, PTL

-----------------------------------------------------------------------------
(* The event is copied, or one of the hooks was called for it.             *)
Noted(e) == Verdict[e] = "unreadable" \/ e \in dest \cup alerted \cup reported

(* NothingGoesSilently made inductive, as CopyInv is: here the events that *)
(* are not valid count as well.                                            *)
AnswersAreNoted ==
  \A e \in Events, a \in Answers : <<e, a>> \in settlements => Noted(e)

TellInv == AnswersAreNoted /\ NothingGoesSilently

LEMMA NotedStays ==
  ASSUME [HttpNext]_vars, NEW e \in Events, Noted(e)
  PROVE  Noted(e)'
  BY HistoriesGrow DEF Noted

(* The callback answers when it has called a hook or the append has been   *)
(* confirmed, and in the same step: no death comes between the two.        *)
LEMMA CallbackAnswersNoted ==
  ASSUME ~AutoAck, TypeInv, [HttpNext]_vars, NEW h \in Handlings, Callback(h)
  PROVE  /\ LetGo' \subseteq LetGo
         /\ settlements' = settlements \/ Noted(EventOf(h))'
         /\ settlements' \subseteq settlements \cup ({EventOf(h)} \X Answers)
<1> USE DEF Answers
<1>e. EventOf(h) \in Events
  BY EventOfHandling
<1>1. CASE Receive(h)
  <2>1. h \in rejected' => Noted(EventOf(h))'
    BY <1>1
    DEF Receive, Handle, Idle, RejectUnreadable, RejectNotAllowed, AwaitValidation,
        InvalidEventHook, Noted
  <2>2. h \notin rejected' => settlements' = settlements
    BY <1>1 DEF Receive, AnswerAtReceive, Settle
  <2>3. settlements' \subseteq settlements \cup ({EventOf(h)} \X Answers)
    BY <1>1 DEF Receive, AnswerAtReceive, Settle
  <2>4. LetGo' \subseteq LetGo
    BY <1>1, <1>e DEF Receive, Deliver, LetGo
  <2> QED
    BY <2>1, <2>2, <2>3, <2>4
<1>2. CASE Validated(h)
  BY <1>2 DEF Validated, subVars, LetGo
<1>3. ASSUME Invalidated(h) \/ Written(h) \/ WriteFailed(h)
      PROVE  /\ status' = status
             /\ Noted(EventOf(h))'
             /\ settlements' \subseteq settlements \cup ({EventOf(h)} \X Answers)
  <2>1. CASE Invalidated(h)
    BY <2>1 DEF Invalidated, ValidationFailed, InvalidEventHook, Settle, Noted
  <2>2. CASE Written(h)
    BY <2>2 DEF Written, AppendOk, Settle, Noted
  <2>3. CASE WriteFailed(h)
    BY <2>3 DEF WriteFailed, AppendError, CallHook, CannotWriteEventHook, Settle, Noted
  <2> QED
    BY <1>3, <2>1, <2>2, <2>3
<1> QED
  BY <1>1, <1>2, <1>3 DEF Callback, LetGo

LEMMA NextKeepsTelling ==
  ASSUME ~AutoAck
  PROVE  TypeInv /\ TellInv /\ [HttpNext]_vars => TellInv'
<1> SUFFICES ASSUME TypeInv, TellInv, [HttpNext]_vars PROVE TellInv'
  OBVIOUS
<1> USE NotedStays DEF TellInv, AnswersAreNoted, NothingGoesSilently
<1>1. \A e \in LetGo : e \in Events /\ Noted(e)
  BY DEF LetGo, Noted
<1>2. ASSUME \A e \in LetGo' : Noted(e)' PROVE NothingGoesSilently'
  BY <1>2 DEF Noted
<1>3. ASSUME NEW h \in Handlings, Callback(h) PROVE TellInv'
  BY <1>1, <1>2, <1>3, CallbackAnswersNoted
<1>4. CASE Surroundings
  <2>1. LetGo' \subseteq Events
    BY DEF LetGo
  <2> QED
    BY <1>1, <1>2, <1>4, <2>1, SurroundingsLetAnsweredGo
<1>5. CASE UNCHANGED vars
  BY <1>5 DEF vars, subVars, netVars, driverVars, Noted, LetGo
<1> QED
  BY <1>3, <1>4, <1>5 DEF HttpNext

LEMMA TellInit == Init => TellInv
  BY DEF Init, SubInit, TellInv, AnswersAreNoted, NothingGoesSilently, LetGo

(* With the acknowledgement left to the reader, the group lets no event    *)
(* go, whatever its verdict, before it is copied or one of the hooks was   *)
(* called for it: validate and writeEvent call theirs before handle        *)
(* returns. Only an event that cannot be read goes without a word.         *)
THEOREM HttpNothingGoesSilently ==
  ASSUME ~AutoAck
  PROVE  HttpSpec => []NothingGoesSilently
<1>1. TellInv => NothingGoesSilently
  BY DEF TellInv
<1> QED
  BY <1>1, TellInit, NextKeepsTelling, TypeInvAlways, PTL DEF HttpSpec

-----------------------------------------------------------------------------
LEMMA CallbackKeepsLost ==
  ASSUME TypeInv, LostInv, NEW h \in Handlings, Callback(h)
  PROVE  LostInv'
<1> SUFFICES ASSUME NEW e \in ValidEvents,
                    e \in LetGo' \/ \E a \in Answers : <<e, a>> \in settlements'
             PROVE  Accounted(e)'
  BY DEF LostInv, ValidEvents
<1>e. EventOf(h) \in Events
  BY EventOfHandling
<1>1. HandlingStep(h)
  BY CallbackIsHandlingStep
<1>2. CASE Accounted(e)
  BY <1>1, <1>2, HandlingKeepsAccounted
<1>3. CASE ~Accounted(e)
  <2>1. e \notin LetGo /\ ~\E a \in Answers : <<e, a>> \in settlements
    BY <1>3 DEF LostInv
  <2>2. e \notin LetGo'
    BY <2>1, <1>e
    DEF Callback, Receive, Deliver, Validated, Invalidated, Written, WriteFailed, subVars,
        LetGo, TypeInv, SubTypeOK
  <2>3. \E a \in Answers : <<e, a>> \in settlements' \ settlements
    BY <2>1, <2>2
  <2>4. EventOf(h) = e /\ ~Validated(h)
    BY <2>3
    DEF Callback, Receive, AnswerAtReceive, Validated, Invalidated, Written, WriteFailed, Settle,
        subVars
  <2>5. CASE Receive(h)
    BY <2>4, <2>5
    DEF Receive, Handle, RejectUnreadable, RejectNotAllowed, AwaitValidation, ValidEvents,
        Accounted, Unfinished
  <2>6. CASE Invalidated(h)
    BY <2>4, <2>6 DEF Invalidated, ValidationFailed, ValidEvents
  <2>7. CASE Written(h)
    BY <2>4, <2>7 DEF Written, AppendOk, Accounted
  <2>8. CASE WriteFailed(h)
    BY <2>4, <2>8 DEF WriteFailed, AppendError, CallHook, CannotWriteEventHook, Accounted
  <2> QED
    BY <2>4, <2>5, <2>6, <2>7, <2>8 DEF Callback
<1> QED
  BY <1>2, <1>3

LEMMA NextKeepsLost == TypeInv /\ LostInv /\ [HttpNext]_vars => LostInv'
  BY CallbackKeepsLost, SurroundingsKeepLost DEF HttpNext

LEMMA LostInit == Init => LostInv
  BY DEF Init, SubInit, LostInv, LetGo

(* Even when the client library acknowledges for the reader, a valid event *)
(* is lost only with a process that had begun it.                          *)
THEOREM HttpLostOnlyIfInterrupted == HttpSpec => []LostOnlyIfInterrupted
  BY LostInit, NextKeepsLost, TypeInvAlways, LostInvGivesLost, PTL DEF HttpSpec

-----------------------------------------------------------------------------
LEMMA NextIsCaused == TypeInv /\ [HttpNext]_vars => Caused
  BY CallbackIsHandlingStep, HandlingIsCaused, SurroundingsAreCaused DEF HttpNext

(* The process ends itself only while a write is not confirmed.            *)
THEOREM HttpKillHasCause == HttpSpec => KillHasCause
<1>1. TypeInv /\ [HttpNext]_vars => [Caused]_vars
  BY NextIsCaused
<1> QED
  BY <1>1, TypeInvAlways, PTL DEF HttpSpec, KillHasCause, Caused

-----------------------------------------------------------------------------
(* What the server waits for it has sent to a client it still has, under   *)
(* the number of a handling.                                               *)
SentToClient ==
  /\ ~connected => InFlight = {}
  /\ \A e \in InFlight : <<e, deliveries[e]>> \in Handlings

AllInHand == \A e \in InFlight : InHand(e)

LEMMA NextKeepsSent == TypeInv /\ SentToClient /\ [HttpNext]_vars => SentToClient'
<1> SUFFICES ASSUME TypeInv, SentToClient, [HttpNext]_vars PROVE SentToClient'
  OBVIOUS
<1> USE DEF SentToClient, InFlight, TypeInv, SubTypeOK
<1>1. ASSUME UNCHANGED <<status, deliveries, connected>> PROVE SentToClient'
  BY <1>1
<1>2. ASSUME NEW h \in Handlings, Receive(h) PROVE SentToClient'
  <2>1. EventOf(h) \in Events /\ h = <<EventOf(h), deliveries[EventOf(h)] + 1>>
    BY <1>2, EventOfHandling DEF Receive, Deliver
  <2> QED
    BY <1>2, <2>1 DEF Receive, Deliver
<1>3. ASSUME NEW h \in Handlings, Validated(h) \/ Invalidated(h) \/ Written(h)
                                  \/ WriteFailed(h) \/ SafetyTimerFires(h)
      PROVE  UNCHANGED <<status, deliveries, connected>>
  BY <1>3 DEF Validated, Invalidated, Written, WriteFailed, SafetyTimerFires, subVars
<1>4. ASSUME NEW f \in Events, ServerReceivesAnswer(f) \/ ServerTimesOut(f)
      PROVE  SentToClient'
  <2>1. UNCHANGED <<deliveries, connected>> /\ InFlight' \subseteq InFlight
    BY <1>4
    DEF ServerReceivesAnswer, ServerTimesOut, ServerSettles, MessageTimeout, Settled, Answers
  <2> QED
    BY <2>1
<1>5. ASSUME \/ \E f \in Events : RequestArrives(f) \/ RequestLost(f)
             \/ Crash \/ UNCHANGED vars
      PROVE  UNCHANGED <<status, deliveries, connected>>
  BY <1>5 DEF RequestArrives, RequestLost, Crash, vars, subVars
<1>6. ASSUME Restart \/ SubscriptionDropped PROVE SentToClient'
  BY <1>6 DEF Restart, SubscriptionDropped, TakeBack
<1> QED
  BY <1>1, <1>2, <1>3, <1>4, <1>5, <1>6 DEF HttpNext, Callback, Surroundings

(* A callback that leaves an event without an answer leaves it to a later  *)
(* callback of the same handling; one that ends the handling answers.      *)
LEMMA CallbackKeepsInHand ==
  ASSUME TypeInv, SentToClient, AllInHand, running', NEW h \in Handlings, Callback(h)
  PROVE  AllInHand'
<1> SUFFICES ASSUME NEW e \in InFlight' PROVE InHand(e)'
  BY DEF AllInHand
<1> USE DEF InHand
<1>t. /\ write \in [Handlings -> WriteStates] /\ EventOf(h) \in Events
      /\ deliveries \in [Events -> 0..MaxDeliveries]
  BY EventOfHandling DEF TypeInv, DriverInv, DriverTypeOK, SubTypeOK
<1>1. CASE Receive(h)
  <2>1. CASE e = EventOf(h)
    <3>1. h = <<e, deliveries'[e]>> /\ connected
      BY <1>1, <1>t, <2>1 DEF Receive, Deliver
    <3>2. h \in checking' \/ h \in rejected'
      BY <1>1 DEF Receive, Handle, RejectUnreadable, RejectNotAllowed, AwaitValidation
    <3>3. h \in rejected' => <<e, "ack">> \in settlements'
      BY <1>1, <2>1, <3>1 DEF Receive, AnswerAtReceive, Settle
    <3> QED
      BY <3>1, <3>2, <3>3 DEF Answers
  <2>2. CASE e # EventOf(h)
    <3>1. e \in InFlight /\ deliveries'[e] = deliveries[e]
      BY <1>1, <1>t, <2>2 DEF Receive, Deliver, InFlight, TypeInv, SubTypeOK
    <3>2. /\ settlements \subseteq settlements' /\ checking \subseteq checking'
          /\ write' = write
      BY <1>1
      DEF Receive, AnswerAtReceive, Settle, Handle, RejectUnreadable, RejectNotAllowed,
          AwaitValidation, driverVars
    <3> QED
      BY <3>1, <3>2 DEF AllInHand
  <2> QED
    BY <2>1, <2>2
<1>2. ASSUME Validated(h) \/ Invalidated(h) \/ Written(h) \/ WriteFailed(h)
      PROVE  InHand(e)'
  <2>1. e \in InFlight /\ connected /\ deliveries' = deliveries
        /\ settlements \subseteq settlements'
    BY <1>2 DEF Validated, Invalidated, Written, WriteFailed, Settle, subVars, InFlight, SentToClient
  <2> DEFINE g == <<e, deliveries[e]>>
  <2>2. InHand(e) /\ g \in Handlings /\ EventOf(g) = e
    BY <2>1 DEF AllInHand, SentToClient, EventOf
  <2>3. CASE h # g
    <3>1. (g \in checking => g \in checking') /\ write'[g] = write[g]
      BY <1>2, <1>t, <2>2, <2>3
      DEF Validated, ValidationPassed, WriteEvent, Invalidated, ValidationFailed, Written,
          AppendOk, WriteFailed, AppendError, handlerVars, driverVars
    <3> QED
      BY <2>1, <2>2, <3>1
  <2>4. CASE h = g
    <3>1. CASE Validated(h)
      BY <1>t, <2>1, <2>4, <3>1 DEF Validated, ValidationPassed, WriteEvent
    <3>2. CASE Invalidated(h) \/ Written(h) \/ WriteFailed(h)
      <4>1. <<e, "ack">> \in settlements'
        BY <2>1, <2>2, <2>4, <3>2 DEF Invalidated, Written, WriteFailed, Settle
      <4> QED
        BY <4>1 DEF Answers
    <3> QED
      BY <1>2, <3>1, <3>2
  <2> QED
    BY <2>3, <2>4
<1> QED
  BY <1>1, <1>2 DEF Callback

(* The server uses an answer up only together with its wait for one.       *)
LEMMA NextKeepsInHand ==
  ASSUME TypeInv, SentToClient, running => AllInHand, [HttpNext]_vars, running'
  PROVE  AllInHand'
<1> USE DEF AllInHand, InHand, InFlight
<1>1. ASSUME NEW h \in Handlings, Callback(h) PROVE AllInHand'
  <2>1. running
    BY <1>1
    DEF Callback, Receive, Handle, Validated, ValidationPassed, Invalidated, ValidationFailed,
        Written, AppendOk, WriteFailed, AppendError
  <2> QED
    BY <1>1, <2>1, CallbackKeepsInHand
<1>2. ASSUME NEW h \in Handlings, SafetyTimerFires(h) PROVE AllInHand'
  BY <1>2 DEF SafetyTimerFires, SafetyTimeout, handlerVars, subVars
<1>3. ASSUME NEW f \in Events, ServerReceivesAnswer(f) \/ ServerTimesOut(f)
      PROVE  AllInHand'
  <2>1. /\ running
        /\ UNCHANGED <<write, checking, deliveries>>
        /\ \A e \in Events \ {f} : status'[e] = status[e]
        /\ \A e \in Events \ {f}, a \in Answers :
             <<e, a>> \in settlements => <<e, a>> \in settlements'
    BY <1>3
    DEF ServerReceivesAnswer, ServerTimesOut, ServerSettles, MessageTimeout, netVars,
        driverVars, handlerVars, TypeInv, SubTypeOK
  <2>2. f \notin InFlight'
    BY <1>3
    DEF ServerReceivesAnswer, ServerTimesOut, ServerSettles, MessageTimeout, Settled, Answers,
        TypeInv, SubTypeOK
  <2> QED
    BY <2>1, <2>2
<1>4. ASSUME NEW f \in Events, RequestArrives(f) \/ RequestLost(f) PROVE AllInHand'
  BY <1>4
  DEF RequestArrives, DestinationAppends, RequestLost, AppendRequestLost, netVars, handlerVars,
      subVars
<1>5. CASE UNCHANGED vars
  BY <1>5 DEF vars, netVars, driverVars, handlerVars, subVars
<1>6. ASSUME Crash \/ Restart \/ SubscriptionDropped PROVE AllInHand'
  BY <1>6 DEF Crash, CrashNow, Restart, SubscriptionDropped, TakeBack
<1> QED
  BY <1>1, <1>2, <1>3, <1>4, <1>5, <1>6 DEF HttpNext, Surroundings

(* No delivery is left without an answer, given or to come: what the       *)
(* handler rejects is answered too, and what it awaits ends in an answer   *)
(* or with the process.                                                    *)
THEOREM HttpInFlightIsInHand == HttpSpec => []InFlightIsInHand
<1>1. Init => SentToClient /\ InFlightIsInHand
  BY DEF Init, SubInit, SentToClient, InFlightIsInHand, InFlight
<1>2. TypeInv /\ SentToClient /\ InFlightIsInHand /\ [HttpNext]_vars => InFlightIsInHand'
  BY NextKeepsInHand DEF InFlightIsInHand, AllInHand
<1> QED
  BY <1>1, <1>2, NextKeepsSent, TypeInvAlways, PTL DEF HttpSpec

-----------------------------------------------------------------------------
(* What the abstract specification sees of a step that settles nothing.    *)
LEMMA UnsettledUnseen ==
  ASSUME SubTypeOK,
         \/ status' = status
         \/ \E h \in Handlings : Deliver(h)
         \/ TakeBack
  PROVE  LetGo' = LetGo /\ Parked' = Parked
<1>1. CASE status' = status
  BY <1>1 DEF LetGo, Parked
<1>2. ASSUME NEW h \in Handlings, Deliver(h) PROVE LetGo' = LetGo /\ Parked' = Parked
  BY <1>2, EventOfHandling DEF Deliver, LetGo, Parked, SubTypeOK
<1>3. CASE TakeBack
  BY <1>3 DEF TakeBack, LetGo, Parked, SubTypeOK
<1> QED
  BY <1>1, <1>2, <1>3

(* The callbacks of the reader and the steps of the process itself stutter.*)
LEMMA ProcessUnseen ==
  ASSUME TypeInv,
         \/ \E h \in Handlings : Callback(h) \/ SafetyTimerFires(h)
         \/ \E e \in Events : RequestLost(e)
         \/ Crash \/ Restart \/ SubscriptionDropped \/ UNCHANGED vars
  PROVE  UNCHANGED <<dest, LetGo, Parked>>
<1>1. dest' = dest
  BY DEF Callback, Receive, Handle, Validated, ValidationPassed, WriteEvent, Invalidated,
         ValidationFailed, Written, AppendOk, WriteFailed, AppendError, SafetyTimerFires,
         SafetyTimeout, RequestLost, AppendRequestLost, Crash, Restart, Forget,
         SubscriptionDropped,
         vars, driverVars
<1>2. status' = status \/ (\E h \in Handlings : Deliver(h)) \/ TakeBack
  BY DEF Callback, Receive, Validated, Invalidated, Written, WriteFailed, SafetyTimerFires,
         RequestLost, Crash, Restart, Forget, SubscriptionDropped, vars, subVars
<1> QED
  BY <1>1, <1>2, UnsettledUnseen DEF TypeInv

(* The server's steps and the arrival of a request are the abstract ones.  *)
LEMMA ServerReleasesOrAbandons ==
  ASSUME KillsProcess, TypeInv, CopyInv,
         NEW e \in Events, ServerReceivesAnswer(e) \/ ServerTimesOut(e)
  PROVE  [Promise!CopyNext]_<<dest, LetGo, Parked>>
<1>1. dest' = dest
  BY DEF ServerReceivesAnswer, ServerTimesOut, driverVars
<1>2. CASE status' = status
  BY <1>1, <1>2 DEF LetGo, Parked
<1>3. ASSUME NEW answer \in Answers, ServerSettles(e, answer), status[e] = "inflight"
      PROVE  Promise!CopyNext
  <2>1. status' = [status EXCEPT ![e] = Settled[answer]]
    BY <1>3 DEF ServerSettles
  <2>2. e \notin LetGo \cup Parked
    BY <1>3 DEF LetGo, Parked
  <2>3. e \in ValidEvents => e \in dest
    BY <1>3 DEF ServerSettles, CopyInv, AnswersAreSafe, Safe
  <2>4. CASE answer = "park"
    <3>1. Parked' = Parked \cup {e} /\ LetGo' = LetGo
      BY <1>3, <2>1, <2>4 DEF Parked, LetGo, Settled, Answers, TypeInv, SubTypeOK
    <3> QED
      BY <1>1, <2>2, <3>1 DEF Promise!CopyNext, Promise!Abandon, Promise!Events, Events
  <2>5. CASE answer \in {"ack", "skip"}
    <3>1. LetGo' = LetGo \cup {e} /\ Parked' = Parked
      BY <1>3, <2>1, <2>5 DEF Parked, LetGo, Settled, Answers, TypeInv, SubTypeOK
    <3> QED
      BY <1>1, <2>2, <2>3, <3>1
      DEF Promise!CopyNext, Promise!Release, Promise!Events, Promise!ValidEvents, Events,
          ValidEvents
  <2> QED
    BY <2>4, <2>5 DEF Answers
<1>4. ASSUME MessageTimeout(e), status' # status
      PROVE  [Promise!CopyNext]_<<dest, LetGo, Parked>>
  <2>1. CASE status' = [status EXCEPT ![e] = "queued"]
    <3>1. LetGo' = LetGo /\ Parked' = Parked
      BY <1>4, <2>1 DEF MessageTimeout, LetGo, Parked, TypeInv, SubTypeOK
    <3> QED
      BY <1>1, <3>1
  <2>2. CASE status' = [status EXCEPT ![e] = "parked"]
    <3>1. LetGo' = LetGo /\ Parked' = Parked \cup {e} /\ e \notin LetGo \cup Parked
      BY <1>4, <2>2 DEF MessageTimeout, LetGo, Parked, TypeInv, SubTypeOK
    <3> QED
      BY <1>1, <3>1 DEF Promise!CopyNext, Promise!Abandon, Promise!Events, Events
  <2> QED
    BY <1>4, <2>1, <2>2 DEF MessageTimeout
<1> QED
  BY <1>2, <1>3, <1>4 DEF ServerReceivesAnswer, ServerTimesOut, ServerSettles

LEMMA ArrivalCopies ==
  ASSUME OnlyValidCopied, NEW e \in Events, RequestArrives(e)
  PROVE  [Promise!CopyNext]_<<dest, LetGo, Parked>>
<1>1. LetGo' = LetGo /\ Parked' = Parked
  BY DEF RequestArrives, subVars, LetGo, Parked
<1>2. e \in ValidEvents /\ dest' = dest \cup {e}
  BY DEF RequestArrives, DestinationAppends, OnlyValidCopied
<1>3. CASE e \in dest
  BY <1>1, <1>2, <1>3
<1>4. CASE e \notin dest
  BY <1>1, <1>2, <1>4
  DEF Promise!CopyNext, Promise!Copy, Promise!Events, Promise!ValidEvents, Events, ValidEvents
<1> QED
  BY <1>3, <1>4

(* Every step of the reader and around it is an abstract one or a stutter. *)
LEMMA NextCopies ==
  ASSUME KillsProcess
  PROVE  TypeInv /\ CopyInv /\ OnlyValidCopied /\ [HttpNext]_vars
           => [Promise!CopyNext]_<<dest, LetGo, Parked>>
<1> SUFFICES ASSUME TypeInv, CopyInv, OnlyValidCopied, [HttpNext]_vars
             PROVE  [Promise!CopyNext]_<<dest, LetGo, Parked>>
  OBVIOUS
<1>1. ASSUME NEW e \in Events, ServerReceivesAnswer(e) \/ ServerTimesOut(e)
      PROVE  [Promise!CopyNext]_<<dest, LetGo, Parked>>
  BY <1>1, ServerReleasesOrAbandons
<1>2. ASSUME NEW e \in Events, RequestArrives(e)
      PROVE  [Promise!CopyNext]_<<dest, LetGo, Parked>>
  BY <1>2, ArrivalCopies
<1>3. ASSUME \/ \E h \in Handlings : Callback(h) \/ SafetyTimerFires(h)
             \/ \E e \in Events : RequestLost(e)
             \/ Crash \/ Restart \/ SubscriptionDropped \/ UNCHANGED vars
      PROVE  [Promise!CopyNext]_<<dest, LetGo, Parked>>
  BY <1>3, ProcessUnseen
<1> QED
  BY <1>1, <1>2, <1>3 DEF HttpNext, Surroundings

LEMMA CopyInit == Init => Promise!CopyInit
  BY DEF Init, DriverInit, SubInit, Promise!CopyInit, LetGo, Parked

(* The reader, the handler and the driver, under the default net and with  *)
(* the acknowledgement left to the reader, implement ReliableCopy.         *)
THEOREM HttpCopiesReliably ==
  ASSUME KillsProcess, ~AutoAck
  PROVE  HttpSpec => CopiesReliably
  BY CopyInit, NextCopies, TypeInvAlways, CopyInvAlways, HttpOnlyValidCopied, PTL
  DEF HttpSpec, CopiesReliably, Promise!CopySpec, Promise!copyVars

-----------------------------------------------------------------------------
(* With a buffer of one the copies keep the order of the source. What is   *)
(* inductive: before an event is touched for the first time, the server    *)
(* has settled all those ahead of it, and what it has settled stays so.    *)
Final == {"acked", "skipped", "parked"}

Touched(f) ==
  \/ status[f] # "queued"
  \/ f \in sent \cup dest
  \/ \E h \in checking : EventOf(h) = f

OrderInv == \A e, f \in Events : e < f /\ Touched(f) => status[e] \in Final

(* An event is delivered when nothing is in flight and nothing is queued   *)
(* ahead of it.                                                            *)
LEMMA DeliveredBehindFinal ==
  ASSUME TypeInv, BufferSize = 1, NEW h \in Handlings, Deliver(h),
         NEW e \in Events, e < EventOf(h)
  PROVE  status[e] \in Final
<1>1. IsFiniteSet(InFlight)
  BY EventsAssumption, FS_Interval, FS_Subset DEF InFlight, Events
<1>2. Cardinality(InFlight) \in Nat /\ Cardinality(InFlight) < 1
  BY <1>1, FS_CardinalityType DEF Deliver
<1>3. InFlight = {}
  BY <1>1, <1>2, FS_EmptySet
<1>4. EventOf(h) \in Events
  BY EventOfHandling
<1>5. status[e] # "queued"
  BY <1>4, EventsAssumption DEF Deliver, Events
<1>6. status[e] # "inflight"
  BY <1>3 DEF InFlight
<1> QED
  BY <1>5, <1>6 DEF TypeInv, SubTypeOK, Statuses, Final

(* Nothing but a delivery touches an event for the first time.             *)
LEMMA TouchedByDelivery ==
  ASSUME TypeInv, [HttpNext]_vars, NEW f \in Events, Touched(f)', ~Touched(f)
  PROVE  \E h \in Handlings : Deliver(h) /\ EventOf(h) = f
<1> USE DEF Touched
<1>1. ASSUME NEW h \in Handlings, Receive(h)
      PROVE  Deliver(h) /\ EventOf(h) = f
  <2>1. checking' \subseteq checking \cup {h} /\ UNCHANGED driverVars /\ Deliver(h)
    BY <1>1
    DEF Receive, Handle, RejectUnreadable, RejectNotAllowed, AwaitValidation
  <2> QED
    BY <2>1 DEF Deliver, driverVars, TypeInv, SubTypeOK
<1>2. ASSUME NEW h \in Handlings, Validated(h) \/ Invalidated(h) PROVE FALSE
  BY <1>2
  DEF Validated, ValidationPassed, WriteEvent, Invalidated, ValidationFailed, subVars,
      driverVars
<1>3. ASSUME NEW h \in Handlings, Written(h) \/ WriteFailed(h) \/ SafetyTimerFires(h)
      PROVE  FALSE
  BY <1>3
  DEF Written, AppendOk, WriteFailed, AppendError, SafetyTimerFires, SafetyTimeout,
      handlerVars, subVars
<1>4. ASSUME NEW e \in Events, ServerReceivesAnswer(e) \/ ServerTimesOut(e) PROVE FALSE
  BY <1>4
  DEF ServerReceivesAnswer, ServerTimesOut, ServerSettles, MessageTimeout, driverVars,
      handlerVars, TypeInv, SubTypeOK
<1>5. ASSUME NEW e \in Events, RequestArrives(e) \/ RequestLost(e) PROVE FALSE
  BY <1>5
  DEF RequestArrives, DestinationAppends, RequestLost, AppendRequestLost, handlerVars,
      subVars
<1>6. ASSUME Crash \/ UNCHANGED vars PROVE FALSE
  BY <1>6 DEF Crash, vars, driverVars, handlerVars, subVars
<1>7. ASSUME Restart \/ SubscriptionDropped PROVE FALSE
  BY <1>7
  DEF Restart, Forget, SubscriptionDropped, TakeBack, driverVars, handlerVars, TypeInv,
      SubTypeOK
<1> QED
  BY <1>1, <1>2, <1>3, <1>4, <1>5, <1>6, <1>7 DEF HttpNext, Callback, Surroundings

(* What the server has settled or parked it never touches again.           *)
LEMMA FinalStays ==
  ASSUME TypeInv, [HttpNext]_vars, NEW e \in Events, status[e] \in Final
  PROVE  status'[e] \in Final
<1> USE DEF Final
<1>1. CASE UNCHANGED status
  BY <1>1
<1>2. ASSUME NEW h \in Handlings, Receive(h) PROVE status'[e] \in Final
  BY <1>2 DEF Receive, Deliver, TypeInv, SubTypeOK
<1>3. ASSUME NEW h \in Handlings, Validated(h) \/ Invalidated(h) \/ Written(h)
                                  \/ WriteFailed(h) \/ SafetyTimerFires(h)
      PROVE  UNCHANGED status
  BY <1>3 DEF Validated, Invalidated, Written, WriteFailed, SafetyTimerFires, subVars
<1>4. ASSUME NEW g \in Events, ServerReceivesAnswer(g) \/ ServerTimesOut(g)
      PROVE  status'[e] \in Final
  BY <1>4
  DEF ServerReceivesAnswer, ServerTimesOut, ServerSettles, MessageTimeout, TypeInv, SubTypeOK
<1>5. ASSUME \/ \E g \in Events : RequestArrives(g) \/ RequestLost(g)
             \/ Crash \/ UNCHANGED vars
      PROVE  UNCHANGED status
  BY <1>5 DEF RequestArrives, RequestLost, Crash, vars, subVars
<1>6. ASSUME Restart \/ SubscriptionDropped PROVE status'[e] \in Final
  BY <1>6 DEF Restart, SubscriptionDropped, TakeBack
<1> QED
  BY <1>1, <1>2, <1>3, <1>4, <1>5, <1>6 DEF HttpNext, Callback, Surroundings

LEMMA NextKeepsOrder ==
  ASSUME BufferSize = 1
  PROVE  TypeInv /\ OrderInv /\ [HttpNext]_vars => OrderInv'
<1> SUFFICES ASSUME TypeInv, OrderInv, [HttpNext]_vars,
                    NEW e \in Events, NEW f \in Events, e < f, Touched(f)'
             PROVE  status'[e] \in Final
  BY DEF OrderInv
<1>1. status[e] \in Final
  <2>1. CASE Touched(f)
    BY <2>1 DEF OrderInv
  <2>2. CASE ~Touched(f)
    BY <2>2, TouchedByDelivery, DeliveredBehindFinal
  <2> QED
    BY <2>1, <2>2
<1> QED
  BY <1>1, FinalStays

LEMMA OrderInit == Init => OrderInv
  BY DEF Init, DriverInit, HandlerInit, SubInit, OrderInv, Touched

LEMMA OrderInvGivesOrder == OrderInv /\ KillsProcess /\ LetGoIsCopied => InOrder
  BY DEF OrderInv, LetGoIsCopied, InOrder, Touched, Final, LetGo, ValidEvents

(* With a buffer of one, the default net and its own acknowledgements the  *)
(* legacy reader copies in the order of the source, up to parked events.   *)
THEOREM HttpCopiesInOrder ==
  ASSUME BufferSize = 1, KillsProcess, ~AutoAck
  PROVE  HttpSpec => []InOrder
  BY OrderInit, NextKeepsOrder, OrderInvGivesOrder, TypeInvAlways, HttpLetGoIsCopied, PTL
  DEF HttpSpec
=============================================================================

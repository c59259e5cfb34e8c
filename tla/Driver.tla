------------------------------- MODULE Driver -------------------------------
(***************************************************************************)
(* The driver: it appends one formatted event to the destination store     *)
(* against an "aggressive timeout". GrpcDriverService and                  *)
(* HttpDriverService differ only in the client they call.                  *)
(*                                                                         *)
(* The JavaScript event loop runs one callback at a time, so the code      *)
(* between two awaits is one action. The append request, the destination   *)
(* and the answer are on the other side of the network: a request in       *)
(* `sent' may reach the destination at any later time, also after the      *)
(* driver gave up on it and after the process died.                        *)
(***************************************************************************)
EXTENDS SafetyNet

VARIABLES
  write,      \* writeEvent of each handling: "none", "pending", "written", "failed"
  timer,      \* the handling's safety timer is armed
  hookCalls,  \* calls of cannotWriteEventHook for this handling
  sent,       \* events whose append request is on its way to the destination
  dest        \* events the destination store holds

driverVars == <<write, timer, hookCalls, sent, dest>>

WriteStates == {"none", "pending", "written", "failed"}

DriverTypeOK ==
  /\ write \in [Handlings -> WriteStates]
  /\ timer \in [Handlings -> BOOLEAN]
  /\ hookCalls \in [Handlings -> 0..2]
  /\ sent \in SUBSET Events
  /\ dest \in SUBSET Events

(* What a fresh process knows of each of its writes.                       *)
Fresh(v) == [h \in Handlings |-> v]

DriverInit ==
  /\ write = Fresh("none")
  /\ timer = Fresh(FALSE)
  /\ hookCalls = Fresh(0)
  /\ sent = {}
  /\ dest = {}

-----------------------------------------------------------------------------
(* Both ways into the hook go through here: one more call for h.           *)
CallHook(h) ==
  /\ hookCalls' = [hookCalls EXCEPT ![h] = @ + 1]
  /\ CannotWriteEventHook(h)

(* Mutant: the append is requested before the safety timer is set, and     *)
(* nothing sets it afterwards.                                             *)
WriteEventUnguarded(h) ==
  /\ write[h] = "none"
  /\ write' = [write EXCEPT ![h] = "pending"]
  /\ sent' = sent \cup {EventOf(h)}
  /\ UNCHANGED <<timer, hookCalls, dest>>

(* writeEvent up to its first await: arm the timer, request the append.    *)
WriteEvent(h) ==
  /\ write[h] = "none"
  /\ write' = [write EXCEPT ![h] = "pending"]
  /\ timer' = [timer EXCEPT ![h] = TRUE]
  /\ sent' = sent \cup {EventOf(h)}
  /\ UNCHANGED <<hookCalls, dest>>

(* Mutant: clearTimeout is forgotten.                                      *)
AppendOkKeepsTimer(h) ==
  /\ running
  /\ write[h] = "pending"
  /\ EventOf(h) \in dest
  /\ write' = [write EXCEPT ![h] = "written"]
  /\ UNCHANGED <<timer, hookCalls, sent, dest>>

(* Mutant: the append is not awaited.                                      *)
AppendOkAtOnce(h) ==
  /\ running
  /\ write[h] = "pending"
  /\ write' = [write EXCEPT ![h] = "written"]
  /\ timer' = [timer EXCEPT ![h] = FALSE]
  /\ UNCHANGED <<hookCalls, sent, dest>>

(* The awaited append resolves: the timer is cleared, writeEvent resolves. *)
AppendOk(h) ==
  /\ running
  /\ write[h] = "pending"
  /\ EventOf(h) \in dest
  /\ write' = [write EXCEPT ![h] = "written"]
  /\ timer' = [timer EXCEPT ![h] = FALSE]
  /\ UNCHANGED <<hookCalls, sent, dest>>

(* The awaited append rejects: clearTimeout is skipped, the catch block    *)
(* calls the hook, and writeEvent resolves all the same.                   *)
AppendError(h) ==
  /\ running
  /\ write[h] = "pending"
  /\ write' = [write EXCEPT ![h] = "failed"]
  /\ CallHook(h)
  /\ UNCHANGED <<timer, sent, dest>>

(* Mutant: setInterval in place of setTimeout.                             *)
SafetyTimeoutRepeats(h) ==
  /\ running
  /\ timer[h]
  /\ CallHook(h)
  /\ UNCHANGED <<write, timer, sent, dest>>

(* The safety timer fires, whatever became of the append.                  *)
SafetyTimeout(h) ==
  /\ running
  /\ timer[h]
  /\ timer' = [timer EXCEPT ![h] = FALSE]
  /\ CallHook(h)
  /\ UNCHANGED <<write, sent, dest>>

-----------------------------------------------------------------------------
(* The destination store. Appending an event id it holds changes nothing.  *)
DestinationAppends(e) ==
  /\ e \in sent
  /\ sent' = sent \ {e}
  /\ dest' = dest \cup {e}
  /\ UNCHANGED <<write, timer, hookCalls>>

AppendRequestLost(e) ==
  /\ e \in sent
  /\ sent' = sent \ {e}
  /\ UNCHANGED <<write, timer, hookCalls, dest>>

-----------------------------------------------------------------------------
(***************************************************************************)
(* The driver on its own: any number of concurrent writeEvent calls.       *)
(***************************************************************************)
StartWrite(h) ==
  /\ running
  /\ WriteEvent(h)
  /\ UNCHANGED netVars

WriteAnswered(h) == AppendOk(h) /\ UNCHANGED netVars

WriteRefused(h) == AppendError(h) /\ UNCHANGED reported

TimerFires(h) == SafetyTimeout(h) /\ UNCHANGED reported

Destination(e) ==
  /\ DestinationAppends(e) \/ AppendRequestLost(e)
  /\ UNCHANGED netVars

WriteNext ==
  \/ \E h \in Handlings :
       StartWrite(h) \/ WriteAnswered(h) \/ WriteRefused(h) \/ TimerFires(h)
  \/ \E e \in Events : Destination(e)

writeVars == <<netVars, driverVars>>

WriteInit == NetInit /\ DriverInit

(* A timer that is armed eventually fires: the one fairness assumed. The   *)
(* destination owes nothing.                                               *)
TimerIsFair(h) == WF_writeVars(TimerFires(h))

WriteSpec ==
  /\ WriteInit
  /\ [][WriteNext]_writeVars
  /\ \A h \in Handlings : TimerIsFair(h)

-----------------------------------------------------------------------------
WriteTypeOK == NetTypeOK /\ DriverTypeOK

(* Between the request of an append and its answer the safety timer is     *)
(* armed or its hook has been called: no write can hang unreported, the    *)
(* reason for the "aggressive timeout" of writeEvent.                      *)
PendingIsGuarded ==
  \A h \in Handlings : write[h] = "pending" => timer[h] \/ hookCalls[h] > 0

(* Once the append of a handling is confirmed the hook is never called for *)
(* that handling again (clearTimeout after the await).                     *)
NoAlarmAfterSuccess ==
  [][\A h \in Handlings : write[h] = "written" => hookCalls'[h] <= hookCalls[h]]_writeVars

(* Every write is confirmed or reported to the safety net, or the process  *)
(* is gone, even if the destination never answers.                         *)
EveryWriteAnswered ==
  \A h \in Handlings :
    write[h] = "pending" ~> (write[h] = "written" \/ hookCalls[h] > 0 \/ ~running)

(* The interface comment says the hook is triggered after the timeout "for *)
(* every try": one try of an event then calls it at most once.             *)
HookOncePerTry == \A h \in Handlings : hookCalls[h] <= 1
=============================================================================

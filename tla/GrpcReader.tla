----------------------------- MODULE GrpcReader -----------------------------
(***************************************************************************)
(* GrpcReaderService, the reader of a v21 source: the 'data' callback of   *)
(* the persistent subscription calls onEvent and acknowledges the event at *)
(* once. onEvent is an async function nobody awaits: it logs and swallows  *)
(* what EventHandler.handle rejects with, so it throws nothing the         *)
(* callback could catch.                                                   *)
(***************************************************************************)
EXTENDS ReaderProcess

(* onEvent runs to its first await, then ack.                              *)
Receive(h) ==
  /\ Deliver(h)
  /\ Handle(h)
  /\ Settle(EventOf(h), {"ack"})
  /\ UNCHANGED <<running, processVars>>

(* The catch block: ack throws (onEvent cannot), the event is parked and   *)
(* the error thrown again out of the callback, which ends the process.     *)
AckThrows(h) ==
  /\ Deliver(h)
  /\ Handle(h)
  /\ Settle(EventOf(h), {"park"})
  /\ CrashNow
  /\ UNCHANGED interrupted

(* The rest of onEvent, after the acknowledgement.                         *)
Validated(h) ==
  /\ ValidationPassed(h)
  /\ UNCHANGED <<subVars, processVars>>

Invalidated(h) ==
  /\ ValidationFailed(h)
  /\ UNCHANGED <<subVars, processVars>>

Written(h) ==
  /\ AppendOk(h)
  /\ UNCHANGED <<netVars, handlerVars, subVars, processVars>>

WriteFailed(h) ==
  /\ AppendError(h)
  /\ UNCHANGED <<reported, handlerVars, subVars, processVars>>

Callback(h) ==
  \/ Receive(h)
  \/ AckThrows(h)
  \/ Validated(h)
  \/ Invalidated(h)
  \/ Written(h)
  \/ WriteFailed(h)

GrpcNext == (\E h \in Handlings : Callback(h)) \/ Surroundings

GrpcSpec == Init /\ [][GrpcNext]_vars

-----------------------------------------------------------------------------
(* The README says the interconnect will "write events into the            *)
(* destination one, after checking that the events are allowed and valid": *)
(* a valid event the source will not send again is in the destination, on  *)
(* its way there, or in the hands of the process.                          *)
NothingForgotten ==
  \A e \in LetGo \cap ValidEvents :
    \/ e \in dest \cup sent
    \/ \E h \in Handlings : EventOf(h) = e /\ Unfinished(h)
=============================================================================

---------------------------- MODULE EventHandler ----------------------------
(***************************************************************************)
(* EventHandlerService.handle: validate, format, write. Of the validator   *)
(* this module keeps which events it lets through, when it answers and     *)
(* whether it calls the safety net. Formatting keeps the event's identity, *)
(* so it leaves no trace here.                                             *)
(***************************************************************************)
EXTENDS Driver

VARIABLES
  checking,  \* handlings that await class-validator
  rejected   \* handlings whose promise was rejected

handlerVars == <<checking, rejected>>

HandlerTypeOK ==
  /\ checking \in SUBSET Handlings
  /\ rejected \in SUBSET Handlings

HandlerInit == checking = {} /\ rejected = {}

(* The handling has begun and the driver has not confirmed the event.      *)
Unfinished(h) == h \in checking \/ write[h] \in {"pending", "failed"}

Idle(h) == h \notin checking \cup rejected /\ write[h] = "none"

-----------------------------------------------------------------------------
(* The payload cannot be read: validate throws before any hook, although   *)
(* the interface says of invalidEventHook that it is "triggered after the  *)
(* detection of a non valid event".                                        *)
RejectUnreadable(h) ==
  /\ Verdict[EventOf(h)] = "unreadable"
  /\ rejected' = rejected \cup {h}
  /\ UNCHANGED <<checking, reported>>

(* tryToInstantiateEvent fails: the hook, then NotAllowedEventError.       *)
RejectNotAllowed(h) ==
  /\ Verdict[EventOf(h)] = "notAllowed"
  /\ rejected' = rejected \cup {h}
  /\ InvalidEventHook(h)
  /\ UNCHANGED checking

(* The event could be instantiated: class-validator is awaited.            *)
AwaitValidation(h) ==
  /\ Verdict[EventOf(h)] \in {"valid", "invalid"}
  /\ checking' = checking \cup {h}
  /\ UNCHANGED <<rejected, reported>>

(* handle up to its first await. Whether the process goes on after the     *)
(* callback that called it is for the caller to say.                       *)
Handle(h) ==
  /\ running
  /\ Idle(h)
  /\ RejectUnreadable(h) \/ RejectNotAllowed(h) \/ AwaitValidation(h)
  /\ UNCHANGED <<alerted, driverVars>>

(* Mutant: the list of validation errors is not looked at.                 *)
ValidationPassedUnchecked(h) ==
  /\ running
  /\ h \in checking
  /\ checking' = checking \ {h}
  /\ WriteEvent(h)
  /\ UNCHANGED <<netVars, rejected>>

(* No validation error: format the event and call writeEvent.              *)
ValidationPassed(h) ==
  /\ running
  /\ h \in checking
  /\ Verdict[EventOf(h)] = "valid"
  /\ checking' = checking \ {h}
  /\ WriteEvent(h)
  /\ UNCHANGED <<netVars, rejected>>

(* Mutant: InvalidEventError is thrown before the hook is called.          *)
ValidationFailedSilently(h) ==
  /\ running
  /\ h \in checking
  /\ Verdict[EventOf(h)] = "invalid"
  /\ checking' = checking \ {h}
  /\ rejected' = rejected \cup {h}
  /\ UNCHANGED <<netVars, driverVars>>

(* Validation errors: the hook, then InvalidEventError.                    *)
ValidationFailed(h) ==
  /\ running
  /\ h \in checking
  /\ Verdict[EventOf(h)] = "invalid"
  /\ checking' = checking \ {h}
  /\ rejected' = rejected \cup {h}
  /\ InvalidEventHook(h)
  /\ UNCHANGED <<running, alerted, driverVars>>
=============================================================================

------------------------------- MODULE Events -------------------------------
(***************************************************************************)
(* The events of one subscribed stream of the source event store, what the *)
(* validator answers for each of them, and the names of their handlings.   *)
(*                                                                         *)
(* An event keeps its id when it is copied (the formatters carry the       *)
(* eventId and the drivers append with it), so one number stands for the   *)
(* source event, the formatted event and the copy.                         *)
(***************************************************************************)
EXTENDS Naturals, FiniteSets

CONSTANTS
  NEvents,        \* length of the source stream
  MaxDeliveries,  \* deliveries of one event to one connection before it is parked
  Verdict         \* what the validator makes of each event

Events == 1..NEvents

(***************************************************************************)
(* "notAllowed": no class for the type, or its constructor throws.         *)
(* "invalid":    class-validator reports errors.                           *)
(* "unreadable": the validator throws outside its own error handling, as   *)
(*               JSON.parse does on a payload that is not JSON or on a     *)
(*               link whose event is gone.                                 *)
(***************************************************************************)
Verdicts == {"valid", "invalid", "notAllowed", "unreadable"}

ASSUME EventsAssumption ==
  /\ NEvents \in Nat
  /\ MaxDeliveries \in Nat \ {0}
  /\ Verdict \in [Events -> Verdicts]

ValidEvents == {e \in Events : Verdict[e] = "valid"}

(* One call of EventHandler.handle: the k-th delivery of event e.          *)
Handlings == Events \X (1..MaxDeliveries)

EventOf(h) == h[1]
=============================================================================

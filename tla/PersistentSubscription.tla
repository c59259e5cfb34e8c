----------------------- MODULE PersistentSubscription -----------------------
(***************************************************************************)
(* The persistent subscription group of the source event store, as the     *)
(* readers use it: the server keeps the position of every event, sends at  *)
(* most BufferSize unanswered events to its one client, sends an event     *)
(* again when the client does not answer in time, parks it after           *)
(* MaxDeliveries, and takes the events of a lost client back. The server   *)
(* is not part of the repository: this is what the code relies on.         *)
(***************************************************************************)
EXTENDS Events

CONSTANT BufferSize  \* unanswered events the server allows this client

ASSUME SubscriptionAssumption == BufferSize \in Nat \ {0}

VARIABLES
  status,       \* where the server has each event
  deliveries,   \* times each event was sent to the present connection
  settlements,  \* answers of the client on their way to the server
  connected     \* the server has a client for this group

subVars == <<status, deliveries, settlements, connected>>

Statuses == {"queued", "inflight", "acked", "skipped", "parked"}

Answers == {"ack", "skip", "park"}

Settled == [ack |-> "acked", skip |-> "skipped", park |-> "parked"]

SubTypeOK ==
  /\ status \in [Events -> Statuses]
  /\ deliveries \in [Events -> 0..MaxDeliveries]
  /\ settlements \in SUBSET (Events \X Answers)
  /\ connected \in BOOLEAN

SubInit ==
  /\ status = [e \in Events |-> "queued"]
  /\ deliveries = [e \in Events |-> 0]
  /\ settlements = {}
  /\ connected = TRUE

InFlight == {e \in Events : status[e] = "inflight"}

(* Events the server will never send again.                                *)
LetGo == {e \in Events : status[e] \in {"acked", "skipped"}}

Parked == {e \in Events : status[e] = "parked"}

-----------------------------------------------------------------------------
(* The server sends h, the next delivery of the first queued event.        *)
Deliver(h) ==
  LET e == EventOf(h) IN
  /\ connected
  /\ status[e] = "queued"
  /\ \A f \in 1..(e - 1) : status[f] # "queued"
  /\ Cardinality(InFlight) < BufferSize
  /\ h = <<e, deliveries[e] + 1>>
  /\ status' = [status EXCEPT ![e] = "inflight"]
  /\ deliveries' = [deliveries EXCEPT ![e] = @ + 1]
  /\ UNCHANGED connected

(* The client sends its answers for an event, if it still has a server.    *)
Settle(e, answers) ==
  settlements' = IF connected THEN settlements \cup ({e} \X answers)
                              ELSE settlements

(* The server receives an answer: it counts for an unanswered event only.  *)
ServerSettles(e, answer) ==
  /\ <<e, answer>> \in settlements
  /\ settlements' = settlements \ {<<e, answer>>}
  /\ status' = IF status[e] = "inflight"
                 THEN [status EXCEPT ![e] = Settled[answer]]
                 ELSE status
  /\ UNCHANGED <<deliveries, connected>>

(* The client took too long: the event is queued again or parked.          *)
MessageTimeout(e) ==
  /\ connected
  /\ status[e] = "inflight"
  /\ \/ /\ deliveries[e] < MaxDeliveries
        /\ status' = [status EXCEPT ![e] = "queued"]
     \/ status' = [status EXCEPT ![e] = "parked"]
  /\ UNCHANGED <<deliveries, settlements, connected>>

(* The connection is gone: its events are queued, its answers are lost.    *)
TakeBack ==
  /\ status' = [e \in Events |->
                  IF status[e] = "inflight" THEN "queued" ELSE status[e]]
  /\ deliveries' = [e \in Events |-> 0]
  /\ settlements' = {}
=============================================================================

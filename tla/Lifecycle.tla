----------------------------- MODULE Lifecycle ------------------------------
(***************************************************************************)
(* The legacy reader with its start taken apart: events of one             *)
(* subscription are handled while the later ones are still asserted and    *)
(* connected, a step of the start that fails kills handlings at work, a    *)
(* write that fails ends a start half way, and the server notices the      *)
(* death of a client some time before the next one subscribes.             *)
(*                                                                         *)
(* HttpReader gives the reader, Startup the start.                         *)
(***************************************************************************)
EXTENDS HttpReader

CONSTANTS
  NSubs,        \* persistent subscriptions of the configuration
  Ours,         \* the one HttpReader is about
  MaxFailures   \* bound on the failures of the environment

ASSUME LifecycleAssumption ==
  /\ NSubs \in Nat
  /\ Ours \in 1..NSubs
  /\ MaxFailures = MaxCrashes

VARIABLES
  source, destination, step, at, driverUp, sourceUp, chains, upserted,
  consuming, groups, failures

Boot == INSTANCE Startup

bootVars == <<source, destination, step, at, driverUp, sourceUp, chains, upserted,
              consuming, groups, failures>>
lifeVars == <<vars, bootVars>>

(* A legacy source that knows none of the groups yet. What `connected'     *)
(* stands for at first is the client of an earlier process.                *)
LifeInit ==
  /\ Init
  /\ Boot!StartupInit
  /\ Boot!LegacySource
  /\ destination = source
  /\ groups = {}

-----------------------------------------------------------------------------
(* process.exit wherever the start has come to.                            *)
Exit ==
  /\ step' = "exited"
  /\ consuming' = {}
  /\ UNCHANGED <<source, destination, at, driverUp, sourceUp, chains, upserted,
                 groups, failures>>

(* A callback or a timer of the reader; the hook may have exited.          *)
Handles(h) ==
  /\ Ours \in consuming
  /\ Callback(h) \/ SafetyTimerFires(h)
  /\ IF running' THEN UNCHANGED bootVars ELSE Exit

(* A step of the start that does not concern our subscription.             *)
StartGoesOn ==
  /\ \/ Boot!DriverConnects
     \/ Boot!HttpChecked
     \/ Boot!SourceConnects
     \/ Boot!AssertSubscription
     \/ at # Ours /\ Boot!Connect
  /\ UNCHANGED vars

(* Our subscription is connected: the server now has this process for a    *)
(* client, and may send at once.                                           *)
Subscribe ==
  /\ at = Ours
  /\ ~connected
  /\ Boot!Connect
  /\ connected' = TRUE
  /\ UNCHANGED <<netVars, driverVars, handlerVars, status, deliveries, settlements,
                 processVars>>

(* A step of the start fails or the process is killed.                     *)
Die == Boot!Fail /\ Crash

StartAgain ==
  /\ Boot!StartAgain
  /\ Forget
  /\ UNCHANGED subVars

(* The server notices that its client is gone. Until then it may still     *)
(* receive what that client had answered.                                  *)
ServerNotices ==
  /\ connected
  /\ Ours \notin consuming
  /\ connected' = FALSE
  /\ TakeBack
  /\ UNCHANGED <<netVars, driverVars, handlerVars, processVars, bootVars>>

Around ==
  /\ \/ \E e \in Events :
          \/ ServerReceivesAnswer(e)
          \/ ServerTimesOut(e)
          \/ RequestArrives(e)
          \/ RequestLost(e)
     \/ SubscriptionDropped
  /\ UNCHANGED bootVars

LifeNext ==
  \/ \E h \in Handlings : Handles(h)
  \/ StartGoesOn
  \/ Subscribe
  \/ Die
  \/ StartAgain
  \/ ServerNotices
  \/ Around

(* What is due in the event loop for one handling, and what is due at the  *)
(* server for one event it waits for.                                      *)
ReceiveDue(h) == Receive(h) /\ Handles(h)

ValidationDue(h) == (Validated(h) \/ Invalidated(h)) /\ Handles(h)

AnswerDue(h) == Written(h) /\ Handles(h)

TimerDue(h) == SafetyTimerFires(h) /\ Handles(h)

SettlementDue(e) == e \in InFlight /\ ServerReceivesAnswer(e) /\ Around

(***************************************************************************)
(* The event loop runs every callback that is due, the server sends and    *)
(* settles, the start goes on after every failure. A request that is sent  *)
(* again and again is applied one day, and a write that is tried again and *)
(* again is answered before its timer one day: without that a destination  *)
(* may stay out of reach for good.                                         *)
(***************************************************************************)
LoopIsFair(h) ==
  /\ WF_lifeVars(ReceiveDue(h))
  /\ WF_lifeVars(ValidationDue(h))
  /\ SF_lifeVars(AnswerDue(h))
  /\ WF_lifeVars(TimerDue(h))

StoresAreFair(e) ==
  /\ SF_lifeVars(SettlementDue(e))
  /\ SF_lifeVars(RequestArrives(e) /\ Around)

LifeFairness ==
  /\ \A h \in Handlings : LoopIsFair(h)
  /\ \A e \in Events : StoresAreFair(e)
  /\ WF_lifeVars(StartGoesOn)
  /\ WF_lifeVars(Subscribe)
  /\ WF_lifeVars(StartAgain)
  /\ WF_lifeVars(ServerNotices)

LifeSpec == LifeInit /\ [][LifeNext]_lifeVars

FairLifeSpec == LifeSpec /\ LifeFairness

-----------------------------------------------------------------------------
LifeTypeOK ==
  /\ TypeOK
  /\ Boot!StartupTypeOK
  /\ running = (step # "exited")

(* No handling begins before both connections of its own process are up,   *)
(* and what is at work was delivered to this process: a start never meets  *)
(* handlings, timers or writes of the one that failed before it.           *)
WorksOnOwnConnections ==
  \A h \in Handlings :
    running /\ (h \in checking \cup rejected \/ write[h] # "none" \/ timer[h])
      => driverUp /\ sourceUp /\ Ours \in upserted /\ Ours \in consuming

(* The server waits for this process to answer the delivery h.             *)
Awaited(h) ==
  /\ Ours \in consuming
  /\ EventOf(h) \in InFlight
  /\ h[2] = deliveries[EventOf(h)]

(* With the default net no delivery is awaited for ever: it is answered,   *)
(* or given up, or the process dies and leaves it to the next. This is     *)
(* what keeps a buffer of one from being blocked for good.                 *)
EveryDeliveryAnswered == \A h \in Handlings : Awaited(h) ~> ~Awaited(h)

(* The start of all subscriptions is reached in spite of events that end   *)
(* the process half way through it, and then every valid event is copied   *)
(* or parked.                                                              *)
StartsAndCopies ==
  /\ <>[](consuming = 1..NSubs)
  /\ EventuallyCopied
=============================================================================

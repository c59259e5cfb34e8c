--------------------------- MODULE ReaderProcess ---------------------------
(***************************************************************************)
(* What the two readers share: one process between a subscription group of *)
(* the source and the destination, its death and its restart. Nothing is   *)
(* persisted by the process itself: what survives it is the state of the   *)
(* group, the destination, and the append requests on the network.         *)
(***************************************************************************)
EXTENDS EventHandler, PersistentSubscription

CONSTANTS
  MaxCrashes,  \* bound on deaths that are not the process's own doing
  MayDrop      \* the subscription may be dropped while the process lives

ASSUME ProcessAssumption ==
  /\ MaxCrashes \in Nat
  /\ MayDrop \in BOOLEAN

VARIABLES
  crashes,      \* deaths so far
  interrupted   \* history: events a dead process had begun and not confirmed

processVars == <<crashes, interrupted>>

vars == <<netVars, driverVars, handlerVars, subVars, processVars>>

TypeOK ==
  /\ NetTypeOK
  /\ DriverTypeOK
  /\ HandlerTypeOK
  /\ SubTypeOK
  /\ crashes \in 0..MaxCrashes
  /\ interrupted \in SUBSET Events

Init ==
  /\ NetInit
  /\ DriverInit
  /\ HandlerInit
  /\ SubInit
  /\ crashes = 0
  /\ interrupted = {}

-----------------------------------------------------------------------------
(* A safety timer fires: nothing but the driver and the net is concerned.  *)
SafetyTimerFires(h) ==
  /\ SafetyTimeout(h)
  /\ UNCHANGED <<reported, handlerVars, subVars, processVars>>

CrashNow ==
  /\ crashes < MaxCrashes
  /\ crashes' = crashes + 1
  /\ running' = FALSE

(* The process dies: kill, out of memory, a connection guard's exit.       *)
Crash ==
  /\ running
  /\ CrashNow
  /\ UNCHANGED <<alerted, reported, driverVars, handlerVars, subVars, interrupted>>

(* A new process remembers nothing of the handlings of the one before.     *)
Forget ==
  /\ running' = TRUE
  /\ write' = Fresh("none")
  /\ timer' = Fresh(FALSE)
  /\ hookCalls' = Fresh(0)
  /\ checking' = {}
  /\ rejected' = {}
  /\ interrupted' = interrupted \cup {EventOf(h) : h \in {g \in Handlings : Unfinished(g)}}
  /\ UNCHANGED <<alerted, reported, sent, dest, crashes>>

(* Something starts the process again, it connects to both stores and      *)
(* subscribes; the server has noticed that the old connection is closed    *)
(* and taken its events back. Lifecycle takes this step apart.             *)
Restart ==
  /\ ~running
  /\ Forget
  /\ TakeBack
  /\ connected' = TRUE

(* The server ends the subscription. The readers pass this on to a         *)
(* callback of the application and do not subscribe again.                 *)
SubscriptionDropped ==
  /\ MayDrop
  /\ connected
  /\ connected' = FALSE
  /\ TakeBack
  /\ UNCHANGED <<netVars, driverVars, handlerVars, processVars>>

ServerReceivesAnswer(e) ==
  /\ \E answer \in Answers : ServerSettles(e, answer)
  /\ UNCHANGED <<netVars, driverVars, handlerVars, processVars>>

ServerTimesOut(e) ==
  /\ MessageTimeout(e)
  /\ UNCHANGED <<netVars, driverVars, handlerVars, processVars>>

RequestArrives(e) ==
  /\ DestinationAppends(e)
  /\ UNCHANGED <<netVars, handlerVars, subVars, processVars>>

RequestLost(e) ==
  /\ AppendRequestLost(e)
  /\ UNCHANGED <<netVars, handlerVars, subVars, processVars>>

(* What happens around the reader, whichever reader it is.                 *)
Surroundings ==
  \/ \E h \in Handlings : SafetyTimerFires(h)
  \/ \E e \in Events :
       \/ ServerReceivesAnswer(e)
       \/ ServerTimesOut(e)
       \/ RequestArrives(e)
       \/ RequestLost(e)
  \/ Crash
  \/ Restart
  \/ SubscriptionDropped

-----------------------------------------------------------------------------
(* Nothing but valid events is ever sent to the destination, however the   *)
(* deliveries, the validations and the writes interleave.                  *)
OnlyValidCopied == sent \cup dest \subseteq ValidEvents

(* An acknowledged valid event is copied, or the process that received it  *)
(* still works on it, or died while it did, or told the safety net. These  *)
(* are all the windows in which a reader that acknowledges at once can     *)
(* lose an event: a redelivery or a late append opens no other.            *)
LostOnlyIfInterrupted ==
  \A e \in LetGo \cap ValidEvents :
    \/ e \in dest \cup interrupted \cup alerted
    \/ \E h \in Handlings : EventOf(h) = e /\ Unfinished(h)

(* The process ends itself only because of a write that was not confirmed: *)
(* no timer of a copied event is left behind to stop a healthy process.    *)
KillHasCause ==
  [][running /\ ~running' /\ crashes' = crashes
       => \E h \in Handlings : write'[h] \in {"pending", "failed"}]_vars
=============================================================================

------------------------------ MODULE Startup ------------------------------
(***************************************************************************)
(* The start of the application: which reader and which driver the         *)
(* configuration selects, and the awaited steps of their onModuleInit in   *)
(* the order Nest runs them, the imported module (the driver's) first.     *)
(* Any step may fail; the bootstrap then exits with code 1, whatever the   *)
(* reader has already connected to, and something starts the process       *)
(* again. The groups of the source survive.                                *)
(*                                                                         *)
(* SubscriptionSettings and Lifecycle are built from these steps.          *)
(***************************************************************************)
EXTENDS Naturals

CONSTANTS
  NSubs,       \* persistent subscriptions of the configuration
  MaxFailures  \* bound on the failures of the environment

ASSUME StartupAssumption ==
  /\ NSubs \in Nat \ {0}
  /\ MaxFailures \in Nat

Subs == 1..NSubs

(***************************************************************************)
(* What a connection's configuration gives: a gRPC connection string, the  *)
(* TCP and HTTP endpoints of a legacy store, or both.                      *)
(***************************************************************************)
Configurations ==
  {c \in [connectionString: BOOLEAN, endpoints: BOOLEAN] :
     c.connectionString \/ c.endpoints}

VARIABLES
  source,       \* configuration of the source
  destination,  \* configuration of the destination
  step,         \* what onModuleInit awaits
  at,           \* the subscription it has come to
  driverUp,     \* the driver's client is connected and was pinged
  sourceUp,     \* so is the reader's
  chains,       \* ping chains on the reader's client
  upserted,     \* subscriptions created, updated or asserted by this process
  consuming,    \* subscriptions that deliver events to this process
  groups,       \* subscription groups that exist on the source
  failures      \* failures so far

confVars == <<source, destination>>
linkVars == <<driverUp, sourceUp, chains>>
subscriptionVars == <<upserted, consuming, groups>>

startupVars == <<confVars, step, at, linkVars, subscriptionVars, failures>>

Steps == {"driver", "http", "source", "pinger", "upsert", "update",
          "subscribe", "running", "exited"}

StartupTypeOK ==
  /\ source \in Configurations
  /\ destination \in Configurations
  /\ step \in Steps
  /\ at \in Subs
  /\ driverUp \in BOOLEAN
  /\ sourceUp \in BOOLEAN
  /\ chains \in 0..2
  /\ upserted \in SUBSET Subs
  /\ consuming \in SUBSET Subs
  /\ groups \in SUBSET Subs
  /\ failures \in 0..MaxFailures

(* Which store a configuration means.                                      *)
IsLegacyConf(configuration) == ~configuration.connectionString

LegacySource == IsLegacyConf(source)

StartupInit ==
  /\ source \in Configurations
  /\ destination \in Configurations
  /\ step = "driver"
  /\ at = 1
  /\ driverUp = FALSE
  /\ sourceUp = FALSE
  /\ chains = 0
  /\ upserted = {}
  /\ consuming = {}
  /\ groups \in SUBSET Subs
  /\ failures = 0

-----------------------------------------------------------------------------
(* Mutant: the driver's connection is not awaited.                         *)
DriverConnectsLater ==
  /\ step = "driver"
  /\ step' = IF LegacySource THEN "http" ELSE "source"
  /\ driverUp' \in BOOLEAN
  /\ UNCHANGED <<confVars, at, sourceUp, chains, subscriptionVars, failures>>

(* The driver's onModuleInit: connect, first ping.                         *)
DriverConnects ==
  /\ step = "driver"
  /\ step' = IF LegacySource THEN "http" ELSE "source"
  /\ driverUp' = TRUE
  /\ UNCHANGED <<confVars, at, sourceUp, chains, subscriptionVars, failures>>

(* The legacy reader asks over HTTP whether $all exists.                   *)
HttpChecked ==
  /\ step = "http"
  /\ step' = "source"
  /\ UNCHANGED <<confVars, at, linkVars, subscriptionVars, failures>>

(* The reader's connection initializer: connect, first ping of a chain.    *)
SourceConnects ==
  /\ step = "source"
  /\ step' = IF LegacySource THEN "upsert" ELSE "pinger"
  /\ sourceUp' = TRUE
  /\ chains' = 1
  /\ UNCHANGED <<confVars, at, driverUp, subscriptionVars, failures>>

(* startEventstoreClient of the gRPC reader: a second chain.               *)
SecondPinger ==
  /\ step = "pinger"
  /\ step' = "upsert"
  /\ chains' = chains + 1
  /\ UNCHANGED <<confVars, at, driverUp, sourceUp, subscriptionVars, failures>>

(* HTTP: assert creates the group or updates it.                           *)
AssertSubscription ==
  /\ step = "upsert"
  /\ LegacySource
  /\ upserted' = upserted \cup {at}
  /\ groups' = groups \cup {at}
  /\ step' = "subscribe"
  /\ UNCHANGED <<confVars, at, linkVars, consuming, failures>>

(* Mutant: the reader of several subscriptions stops after the first.      *)
ConnectFirst ==
  /\ step = "subscribe"
  /\ LegacySource
  /\ consuming' = consuming \cup {at}
  /\ step' = "running"
  /\ UNCHANGED <<confVars, at, linkVars, upserted, groups, failures>>

(* TCP: connect to the group just asserted, then turn to the next one.     *)
Connect ==
  /\ step = "subscribe"
  /\ LegacySource
  /\ consuming' = consuming \cup {at}
  /\ IF at < NSubs THEN at' = at + 1 /\ step' = "upsert"
                   ELSE at' = at /\ step' = "running"
  /\ UNCHANGED <<confVars, linkVars, upserted, groups, failures>>

(* gRPC: the group is new, or the error says it exists already.            *)
Create ==
  /\ step = "upsert"
  /\ ~LegacySource
  /\ IF at \in groups
       THEN /\ step' = "update"
            /\ UNCHANGED <<at, upserted, groups>>
       ELSE /\ groups' = groups \cup {at}
            /\ upserted' = upserted \cup {at}
            /\ IF at < NSubs THEN at' = at + 1 /\ step' = step
                             ELSE at' = at /\ step' = "subscribe"
  /\ UNCHANGED <<confVars, linkVars, consuming, failures>>

(* gRPC: update the group that exists.                                     *)
Update ==
  /\ step = "update"
  /\ upserted' = upserted \cup {at}
  /\ IF at < NSubs THEN at' = at + 1 /\ step' = "upsert"
                   ELSE at' = at /\ step' = "subscribe"
  /\ UNCHANGED <<confVars, linkVars, consuming, groups, failures>>

(* gRPC: once all groups are there, subscribe to all of them.              *)
SubscribeAll ==
  /\ step = "subscribe"
  /\ ~LegacySource
  /\ consuming' = Subs
  /\ step' = "running"
  /\ UNCHANGED <<confVars, at, linkVars, upserted, groups, failures>>

(* The awaited step rejects and the bootstrap exits, or the process dies   *)
(* later on.                                                               *)
Fail ==
  /\ step # "exited"
  /\ failures < MaxFailures
  /\ failures' = failures + 1
  /\ step' = "exited"
  /\ consuming' = {}
  /\ UNCHANGED <<confVars, at, linkVars, upserted, groups>>

(* Mutant: the subscriptions are gone through from where they were left.   *)
StartAgainWhereLeft ==
  /\ step = "exited"
  /\ step' = "driver"
  /\ driverUp' = FALSE
  /\ sourceUp' = FALSE
  /\ chains' = 0
  /\ upserted' = {}
  /\ UNCHANGED <<confVars, at, consuming, groups, failures>>

StartAgain ==
  /\ step = "exited"
  /\ step' = "driver"
  /\ at' = 1
  /\ driverUp' = FALSE
  /\ sourceUp' = FALSE
  /\ chains' = 0
  /\ upserted' = {}
  /\ UNCHANGED <<confVars, consuming, groups, failures>>

-----------------------------------------------------------------------------
(* No event can reach the process before its driver is connected and its   *)
(* link to the source was pinged: an earlier event would meet a driver     *)
(* without a client.                                                       *)
ReadyBeforeEvents == consuming # {} => driverUp /\ sourceUp

(* The process consumes a subscription only after it has brought the group *)
(* up to date, and with a v21 source only after it has done so for all.    *)
UpsertedBeforeEvents ==
  /\ consuming \subseteq upserted \cap groups
  /\ consuming # {} /\ ~LegacySource => upserted = Subs
=============================================================================

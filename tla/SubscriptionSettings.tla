------------------------ MODULE SubscriptionSettings ------------------------
(***************************************************************************)
(* Which configured value reaches which call of the start: the settings a  *)
(* subscription group is created, updated or asserted with, and the buffer *)
(* it is consumed with, over starts that fail half way and redeployments   *)
(* with another configuration. The steps are those of Startup.             *)
(***************************************************************************)
EXTENDS Startup

CONSTANT Undefined  \* a field the configuration leaves out

VARIABLES
  given,       \* the configuration of each subscription
  settings,    \* the settings of the groups that exist
  born,        \* groups this process has created
  connection   \* the buffer each subscription was last consumed with

settingsVars == <<given, settings, born, connection>>
allVars == <<startupVars, settingsVars>>

-----------------------------------------------------------------------------
(* Settings, and what the stores and their clients take for those not set. *)
Defaults == [liveBufferSize |-> 500, resolveLinkTos |-> FALSE]
DefaultBuffer == 10

Settings == [liveBufferSize : {1, 20, 500}, resolveLinkTos : BOOLEAN]

(* What a configuration may give: options (settingsForCreation for a v21   *)
(* source) that name some settings, one of them in either of two           *)
(* spellings, and a buffer for the connection.                             *)
Given ==
  {[options |-> Undefined, bufferSize |-> Undefined],
   [options |-> [liveBufferSize |-> 20], bufferSize |-> Undefined],
   [options |-> [liveBufferSize |-> 1, resolveLinktos |-> TRUE], bufferSize |-> Undefined],
   [options |-> [liveBufferSize |-> 1, resolveLinkTos |-> TRUE], bufferSize |-> 1]}

(* { ...object } of an object that may be undefined.                       *)
Spread(object) == IF object = Undefined THEN << >> ELSE object

(* { ...under, ...over }                                                   *)
Over(over, under) ==
  [f \in DOMAIN over \cup DOMAIN under |-> IF f \in DOMAIN over THEN over[f] ELSE under[f]]

Truthy(object, field) == field \in DOMAIN object /\ object[field]

(* Mutant: only one of the spellings is looked at.                         *)
AssertedOneSpelling(options) ==
  [liveBufferSize |-> Over(options, Defaults).liveBufferSize,
   resolveLinkTos |-> Truthy(options, "resolveLinkTos")]

(* What the legacy group is asserted with; the store knows one spelling.   *)
Asserted(options) ==
  [liveBufferSize |-> Over(options, Defaults).liveBufferSize,
   resolveLinkTos |-> Truthy(options, "resolveLinkTos") \/ Truthy(options, "resolveLinktos")]

(* A v21 store knows one spelling too.                                     *)
Known(object) ==
  [liveBufferSize |-> object.liveBufferSize, resolveLinkTos |-> object.resolveLinkTos]

(* Mutant: the spreads are in the wrong order.                             *)
UpdatedDefaultsLast(options) == Known(Over(Defaults, Spread(options)))

Updated(options) == Known(Over(Spread(options), Defaults))

Created(options) == [Updated(options) EXCEPT !.liveBufferSize = 1]

BufferOf(subscription) ==
  IF subscription.bufferSize = Undefined THEN DefaultBuffer ELSE subscription.bufferSize

-----------------------------------------------------------------------------
SettingsTypeOK ==
  /\ StartupTypeOK
  /\ given \in [Subs -> Given]
  /\ settings \in [groups -> Settings]
  /\ born \in SUBSET groups
  /\ connection \in [Subs -> {0, 1, DefaultBuffer}]

(* The destination plays no part here.                                     *)
SettingsInit ==
  /\ StartupInit
  /\ destination = source
  /\ given \in [Subs -> Given]
  /\ settings \in [groups -> {Defaults, [liveBufferSize |-> 1, resolveLinkTos |-> TRUE]}]
  /\ born = {}
  /\ connection = [s \in Subs |-> 0]

Apply(value) ==
  settings' = [s \in DOMAIN settings \cup {at} |-> IF s = at THEN value ELSE settings[s]]

AssertGroup ==
  /\ given[at].options # Undefined
  /\ AssertSubscription
  /\ Apply(Asserted(given[at].options))
  /\ UNCHANGED <<given, born, connection>>

(* options may be left out, but the legacy reader looks into them.         *)
AssertThrows ==
  /\ step = "upsert"
  /\ LegacySource
  /\ given[at].options = Undefined
  /\ step' = "exited"
  /\ consuming' = {}
  /\ UNCHANGED <<confVars, at, linkVars, upserted, groups, failures, settingsVars>>

ConnectGroup ==
  /\ Connect
  /\ connection' = [connection EXCEPT ![at] = BufferOf(given[at])]
  /\ UNCHANGED <<given, settings, born>>

(* Mutant: the settings are read without ?. and may be missing.            *)
CreateGroupUnchecked ==
  /\ given[at].options # Undefined
  /\ Create
  /\ IF at \in groups
       THEN UNCHANGED <<settings, born>>
       ELSE Apply(Created(given[at].options)) /\ born' = born \cup {at}
  /\ UNCHANGED <<given, connection>>

CreateGroup ==
  /\ Create
  /\ IF at \in groups
       THEN UNCHANGED <<settings, born>>
       ELSE Apply(Created(given[at].options)) /\ born' = born \cup {at}
  /\ UNCHANGED <<given, connection>>

(* Mutant: the update forces the buffer of one, as the creation does.      *)
UpdateGroupForced ==
  /\ Update
  /\ Apply(Created(given[at].options))
  /\ UNCHANGED <<given, born, connection>>

(* Mutant: the update sends nothing but what the configuration names.      *)
UpdateGroupBare ==
  /\ Update
  /\ Apply(Spread(given[at].options))
  /\ UNCHANGED <<given, born, connection>>

(* Mutant: after the update the creation is tried again.                   *)
UpdateGroupAndRetry ==
  /\ step = "update"
  /\ upserted' = upserted \cup {at}
  /\ step' = "upsert"
  /\ Apply(Updated(given[at].options))
  /\ UNCHANGED <<confVars, at, linkVars, consuming, groups, failures, given, born, connection>>

UpdateGroup ==
  /\ Update
  /\ Apply(Updated(given[at].options))
  /\ UNCHANGED <<given, born, connection>>

(* The gRPC subscription is opened without options.                        *)
SubscribeGroups ==
  /\ SubscribeAll
  /\ connection' = [s \in Subs |-> DefaultBuffer]
  /\ UNCHANGED <<given, settings, born>>

(* The process is started again, maybe with another configuration.         *)
Redeploy ==
  /\ StartAgain
  /\ given' \in [Subs -> Given]
  /\ born' = {}
  /\ UNCHANGED <<settings, connection>>

ConnectStores ==
  /\ DriverConnects \/ HttpChecked \/ SourceConnects \/ SecondPinger
  /\ UNCHANGED settingsVars

ProceedWithSettings ==
  \/ ConnectStores
  \/ AssertGroup
  \/ AssertThrows
  \/ ConnectGroup
  \/ CreateGroup
  \/ UpdateGroup
  \/ SubscribeGroups
  \/ Redeploy

SettingsNext == ProceedWithSettings \/ (Fail /\ UNCHANGED settingsVars)

SettingsSpec ==
  /\ SettingsInit
  /\ [][SettingsNext]_allVars
  /\ WF_allVars(ProceedWithSettings)

-----------------------------------------------------------------------------
(* The settings a configuration asks for, said once for both readers.      *)
Links(options) ==
  \E name \in DOMAIN options \cap {"resolveLinkTos", "resolveLinktos"} :
    /\ LegacySource \/ name = "resolveLinkTos"
    /\ options[name]

Configured(s) ==
  LET options == Spread(given[s].options)
  IN  [liveBufferSize |-> IF "liveBufferSize" \in DOMAIN options
                            THEN options.liveBufferSize ELSE 500,
       resolveLinkTos |-> Links(options)]

(* What is consumed has the settings of the configuration of this start,   *)
(* whatever earlier starts with other configurations have left half done.  *)
(* A v21 group has a buffer of one instead exactly if this process has     *)
(* created it. A legacy one is consumed with the buffer that was asked for,*)
(* a v21 one with the client's own, whatever was asked for.                *)
AsConfigured(s) ==
  settings[s] = IF s \in born /\ ~LegacySource
                  THEN [Configured(s) EXCEPT !.liveBufferSize = 1]
                  ELSE Configured(s)

ConsumesAsConfigured ==
  \A s \in consuming :
    /\ AsConfigured(s)
    /\ connection[s] = IF LegacySource THEN BufferOf(given[s]) ELSE DefaultBuffer

(* A restart does not disturb a group that is as its configuration says:   *)
(* only the one forced to a buffer of one changes at the second start.     *)
AsConfiguredStays ==
  [][\A s \in groups : settings[s] = Configured(s) => settings'[s] = settings[s]]_allVars

(* How many awaited steps a process has ahead of it at most: four to       *)
(* connect, three for each subscription from at on, and its end.           *)
Ahead ==
  LET later == 3 * (NSubs - at)
  IN  CASE step = "driver"    -> later + 8
        [] step = "http"      -> later + 7
        [] step = "source"    -> later + 6
        [] step = "pinger"    -> later + 5
        [] step = "upsert"    -> later + 4
        [] step = "update"    -> later + 3
        [] step = "subscribe" -> later + 2
        [] step = "running"   -> 1
        [] step = "exited"    -> 0

(* Nothing makes a start repeat itself: every step of a process, taken or  *)
(* failed, with any groups on the source, leaves less ahead. So a start    *)
(* ends; and one that ends well has left no subscription out, whichever an *)
(* earlier start had come to.                                              *)
StartEnds ==
  [][step # "exited" =>
       /\ Ahead' < Ahead
       /\ step' = "running" => consuming' = Subs]_allVars

(* The legacy reader cannot start with a subscription without options.     *)
Usable == LegacySource => \A s \in Subs : given[s].options # Undefined

(* After the last failure and redeployment every subscription is consumed, *)
(* unless the configuration is one that the reader cannot start with.      *)
EventuallyAsConfigured == <>[]Usable => <>[](consuming = Subs)
=============================================================================

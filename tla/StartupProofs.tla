--------------------------- MODULE StartupProofs ---------------------------
(***************************************************************************)
(* For every number of subscriptions and of failures, every source and     *)
(* every sequence of configurations: the types of the start, its order,    *)
(* and that what it consumes is as it was configured. The inductive        *)
(* invariant says for each step of the start what is behind it.            *)
(***************************************************************************)
EXTENDS SubscriptionSettings, TLAPS

(* The steps before the first group is touched.                            *)
Connecting == {"driver", "http", "source", "pinger"}

LinkTypes == driverUp \in BOOLEAN /\ sourceUp \in BOOLEAN

PlaceTypes ==
  /\ source \in Configurations
  /\ destination \in Configurations
  /\ step \in Steps
  /\ at \in Subs
  /\ chains \in 0..2
  /\ upserted \in SUBSET Subs
  /\ consuming \in SUBSET Subs
  /\ groups \in SUBSET Subs
  /\ failures \in 0..MaxFailures

LinksOfStep ==
  /\ step \notin {"driver", "exited"} => driverUp
  /\ step \in {"pinger", "upsert", "update", "subscribe", "running"} => sourceUp
  /\ step \in {"driver", "http", "source"} => chains = 0
  /\ step = "pinger" => chains = 1

GroupsOfStep ==
  /\ upserted \subseteq groups
  /\ consuming \subseteq upserted
  /\ step \in Connecting => at = 1 /\ upserted = {}
  /\ step \in Connecting \cup {"exited"} => consuming = {}
  /\ step = "upsert" => upserted = 1..(at - 1)
  /\ step = "subscribe" /\ LegacySource => upserted = 1..at
  /\ step = "update" => ~LegacySource /\ at \in groups /\ upserted = 1..(at - 1)

(* A v21 source: the groups come one by one, then all of them are consumed.*)
NextSourceOfStep ==
  ~LegacySource =>
    /\ step \in {"upsert", "update", "subscribe"} => consuming = {}
    /\ step \in {"subscribe", "running"} => upserted = Subs

OrderInv == PlaceTypes /\ LinksOfStep /\ GroupsOfStep /\ NextSourceOfStep

StartupInv == LinkTypes /\ OrderInv

-----------------------------------------------------------------------------
(* Nothing is connected, upserted or consumed at first.                    *)
LEMMA StartupInitInv == StartupInit => StartupInv
<1> SUFFICES ASSUME StartupInit PROVE StartupInv
  OBVIOUS
<1>1. LinkTypes
  BY DEF StartupInit, LinkTypes
<1>2. PlaceTypes
  BY StartupAssumption DEF StartupInit, PlaceTypes, Steps, Subs
<1>3. LinksOfStep /\ GroupsOfStep /\ NextSourceOfStep
  BY DEF StartupInit, LinksOfStep, GroupsOfStep, NextSourceOfStep, Connecting
<1> QED BY <1>1, <1>2, <1>3 DEF StartupInv, OrderInv

(* No step leaves a link's flag in doubt.                                  *)
LEMMA LinkTypesKept ==
  ASSUME LinkTypes,
         \/ DriverConnects \/ HttpChecked \/ SourceConnects \/ SecondPinger
         \/ AssertSubscription \/ Connect \/ Create \/ Update \/ SubscribeAll
         \/ Fail \/ StartAgain
  PROVE  LinkTypes'
  BY DEF LinkTypes, linkVars, DriverConnects, HttpChecked, SourceConnects, SecondPinger,
     AssertSubscription, Connect, Create, Update, SubscribeAll, Fail, StartAgain

(* The steps that connect touch no group.                                  *)
LEMMA ConnectingKeepsOrder ==
  ASSUME OrderInv, DriverConnects \/ HttpChecked \/ SourceConnects \/ SecondPinger
  PROVE  OrderInv'
<1> USE StartupAssumption DEF OrderInv, PlaceTypes, Steps, Subs, confVars,
        linkVars, subscriptionVars, LegacySource, IsLegacyConf, Connecting,
        LinksOfStep, GroupsOfStep, NextSourceOfStep
<1>1. CASE DriverConnects
  BY <1>1 DEF DriverConnects
<1>2. CASE HttpChecked
  BY <1>2 DEF HttpChecked
<1>3. CASE SourceConnects
  BY <1>3 DEF SourceConnects
<1>4. CASE SecondPinger
  BY <1>4 DEF SecondPinger
<1> QED BY <1>1, <1>2, <1>3, <1>4

(* A legacy source: each group is consumed right after it is asserted.     *)
LEMMA LegacyKeepsOrder ==
  ASSUME OrderInv, AssertSubscription \/ Connect
  PROVE  OrderInv'
<1> USE StartupAssumption DEF OrderInv, PlaceTypes, Steps, Subs, confVars,
        linkVars, subscriptionVars, LegacySource, IsLegacyConf, Connecting,
        LinksOfStep, GroupsOfStep, NextSourceOfStep
<1>1. CASE AssertSubscription
  BY <1>1 DEF AssertSubscription
<1>2. CASE Connect
  BY <1>2 DEF Connect
<1> QED BY <1>1, <1>2

(* A v21 source: all groups are behind before the first is consumed.       *)
LEMMA NextKeepsOrder ==
  ASSUME OrderInv, Create \/ Update \/ SubscribeAll
  PROVE  OrderInv'
<1> USE StartupAssumption DEF OrderInv, PlaceTypes, Steps, Subs, confVars,
        linkVars, subscriptionVars, LegacySource, IsLegacyConf, Connecting,
        LinksOfStep, GroupsOfStep, NextSourceOfStep
<1>1. CASE Create
  <2>1. /\ step = "upsert"
        /\ ~LegacySource
        /\ UNCHANGED <<confVars, linkVars, consuming, failures>>
    BY <1>1 DEF Create
  <2>2. CASE at \in groups
    <3>1. step' = "update" /\ UNCHANGED <<at, upserted, groups>>
      BY <1>1, <2>2 DEF Create
    <3> QED BY <2>1, <2>2, <3>1
  <2>3. CASE at \notin groups
    <3>1. groups' = groups \cup {at} /\ upserted' = upserted \cup {at}
      BY <1>1, <2>3 DEF Create
    <3>2. IF at < NSubs THEN at' = at + 1 /\ step' = step
                        ELSE at' = at /\ step' = "subscribe"
      BY <1>1, <2>3 DEF Create
    <3> QED BY <2>1, <3>1, <3>2
  <2> QED BY <2>2, <2>3
<1>2. CASE Update
  <2>1. CASE at < NSubs
    BY <1>2, <2>1 DEF Update
  <2>2. CASE at = NSubs
    BY <1>2, <2>2 DEF Update
  <2> QED BY <2>1, <2>2
<1>3. CASE SubscribeAll
  BY <1>3 DEF SubscribeAll
<1> QED BY <1>1, <1>2, <1>3

(* The end of a process, and the next one.                                 *)
LEMMA ProcessKeepsOrder ==
  ASSUME OrderInv, Fail \/ AssertThrows \/ StartAgain
  PROVE  OrderInv'
<1> USE StartupAssumption DEF OrderInv, PlaceTypes, Steps, Subs, confVars,
        linkVars, subscriptionVars, LegacySource, IsLegacyConf, Connecting,
        LinksOfStep, GroupsOfStep, NextSourceOfStep
<1>1. CASE Fail
  BY <1>1 DEF Fail
<1>2. CASE AssertThrows
  BY <1>2 DEF AssertThrows
<1>3. CASE StartAgain
  BY <1>3 DEF StartAgain
<1> QED BY <1>1, <1>2, <1>3

(* All steps of the start, whatever settings they carry.                   *)
LEMMA StepKeepsStartup ==
  ASSUME StartupInv, [SettingsNext]_allVars
  PROVE  StartupInv'
<1>1. CASE UNCHANGED allVars
  BY <1>1
  DEF allVars, startupVars, confVars, linkVars, subscriptionVars, StartupInv, OrderInv,
      LinkTypes, PlaceTypes, LinksOfStep, GroupsOfStep, NextSourceOfStep, LegacySource,
      IsLegacyConf
<1>2. CASE AssertThrows
  BY <1>2, ProcessKeepsOrder DEF AssertThrows, linkVars, StartupInv, LinkTypes
<1>3. ASSUME \/ DriverConnects \/ HttpChecked \/ SourceConnects \/ SecondPinger
             \/ AssertSubscription \/ Connect \/ Create \/ Update \/ SubscribeAll
             \/ Fail \/ StartAgain
      PROVE  StartupInv'
  BY <1>3, LinkTypesKept, ConnectingKeepsOrder, LegacyKeepsOrder, NextKeepsOrder,
     ProcessKeepsOrder
  DEF StartupInv
<1> QED
  BY <1>1, <1>2, <1>3
  DEF SettingsNext, ProceedWithSettings, ConnectStores, AssertGroup, ConnectGroup,
      CreateGroup, UpdateGroup, SubscribeGroups, Redeploy

-----------------------------------------------------------------------------
(* What the two readers make of a configuration is what it asks for.       *)
LEMMA OptionsGiven ==
  ASSUME NEW g \in Given, g.options # Undefined
  PROVE  \/ g.options = [liveBufferSize |-> 20]
         \/ g.options = [liveBufferSize |-> 1, resolveLinkTos |-> TRUE]
         \/ g.options = [liveBufferSize |-> 1, resolveLinktos |-> TRUE]
<1>1. \/ g = [options |-> Undefined, bufferSize |-> Undefined]
      \/ g = [options |-> [liveBufferSize |-> 20], bufferSize |-> Undefined]
      \/ g = [options |-> [liveBufferSize |-> 1, resolveLinktos |-> TRUE],
              bufferSize |-> Undefined]
      \/ g = [options |-> [liveBufferSize |-> 1, resolveLinkTos |-> TRUE], bufferSize |-> 1]
  BY Zenon DEF Given
<1>2. CASE g = [options |-> Undefined, bufferSize |-> Undefined]
  BY <1>2
<1>3. CASE g = [options |-> [liveBufferSize |-> 20], bufferSize |-> Undefined]
  BY <1>3, Zenon
<1>4. CASE g = [options |-> [liveBufferSize |-> 1, resolveLinktos |-> TRUE],
                bufferSize |-> Undefined]
  <2>1. g.options = [liveBufferSize |-> 1, resolveLinktos |-> TRUE]
    BY <1>4
  <2> QED BY <2>1
<1>5. CASE g = [options |-> [liveBufferSize |-> 1, resolveLinkTos |-> TRUE],
                bufferSize |-> 1]
  <2>1. g.options = [liveBufferSize |-> 1, resolveLinkTos |-> TRUE]
    BY <1>5
  <2> QED BY <2>1
<1> QED BY <1>1, <1>2, <1>3, <1>4, <1>5

(* What is asked for, for each of the options that may be given.           *)
LEMMA ConfiguredNone ==
  ASSUME NEW s, Spread(given[s].options) = << >>
  PROVE  Configured(s) = [liveBufferSize |-> 500, resolveLinkTos |-> FALSE]
<1> DEFINE options == Spread(given[s].options)
           live == IF "liveBufferSize" \in DOMAIN options THEN options.liveBufferSize ELSE 500
<1>1. Configured(s) = [liveBufferSize |-> live, resolveLinkTos |-> Links(options)]
  BY Zenon DEF Configured
<1>2. live = 500
  OBVIOUS
<1>3. ~Links(Spread(given[s].options))
  BY DEF Links
<1>4. Links(options) \in BOOLEAN /\ LegacySource \in BOOLEAN
  BY Zenon DEF Links, LegacySource, IsLegacyConf
<1> HIDE DEF options, live
<1> QED BY <1>1, <1>2, <1>3, <1>4, Zenon DEF options

(* The same, for options that give more.                                   *)
LEMMA ConfiguredBuffer ==
  ASSUME NEW s, Spread(given[s].options) = [liveBufferSize |-> 20]
  PROVE  Configured(s) = [liveBufferSize |-> 20, resolveLinkTos |-> FALSE]
<1> DEFINE options == Spread(given[s].options)
           live == IF "liveBufferSize" \in DOMAIN options THEN options.liveBufferSize ELSE 500
<1>1. Configured(s) = [liveBufferSize |-> live, resolveLinkTos |-> Links(options)]
  BY Zenon DEF Configured
<1>2. live = 20
  OBVIOUS
<1>3. ~Links(Spread(given[s].options))
  BY DEF Links
<1>4. Links(options) \in BOOLEAN /\ LegacySource \in BOOLEAN
  BY Zenon DEF Links, LegacySource, IsLegacyConf
<1> HIDE DEF options, live
<1> QED BY <1>1, <1>2, <1>3, <1>4, Zenon DEF options

(* One spelling is for both readers, ...                                   *)
LEMMA ConfiguredLinked ==
  ASSUME NEW s, Spread(given[s].options) = [liveBufferSize |-> 1, resolveLinkTos |-> TRUE]
  PROVE  Configured(s) = [liveBufferSize |-> 1, resolveLinkTos |-> TRUE]
<1> DEFINE options == Spread(given[s].options)
           live == IF "liveBufferSize" \in DOMAIN options THEN options.liveBufferSize ELSE 500
<1>1. Configured(s) = [liveBufferSize |-> live, resolveLinkTos |-> Links(options)]
  BY Zenon DEF Configured
<1>2. live = 1
  OBVIOUS
<1>3. Links(Spread(given[s].options))
  BY DEF Links
<1>4. Links(options) \in BOOLEAN /\ LegacySource \in BOOLEAN
  BY Zenon DEF Links, LegacySource, IsLegacyConf
<1> HIDE DEF options, live
<1> QED BY <1>1, <1>2, <1>3, <1>4, Zenon DEF options

(* ... the other one for the legacy reader only.                           *)
LEMMA ConfiguredLinkedToo ==
  ASSUME NEW s, Spread(given[s].options) = [liveBufferSize |-> 1, resolveLinktos |-> TRUE]
  PROVE  Configured(s) = [liveBufferSize |-> 1, resolveLinkTos |-> LegacySource]
<1> DEFINE options == Spread(given[s].options)
           live == IF "liveBufferSize" \in DOMAIN options THEN options.liveBufferSize ELSE 500
<1>1. Configured(s) = [liveBufferSize |-> live, resolveLinkTos |-> Links(options)]
  BY Zenon DEF Configured
<1>2. live = 1
  OBVIOUS
<1>3. Links(Spread(given[s].options)) <=> LegacySource
  BY DEF Links
<1>4. Links(options) \in BOOLEAN /\ LegacySource \in BOOLEAN
  BY Zenon DEF Links, LegacySource, IsLegacyConf
<1> HIDE DEF options, live
<1> QED BY <1>1, <1>2, <1>3, <1>4, Zenon DEF options

(* So much may be spread.                                                  *)
LEMMA SpreadGiven ==
  ASSUME NEW g \in Given
  PROVE  Spread(g.options) \in {<< >>, [liveBufferSize |-> 20],
           [liveBufferSize |-> 1, resolveLinkTos |-> TRUE],
           [liveBufferSize |-> 1, resolveLinktos |-> TRUE]}
  BY OptionsGiven, Zenon DEF Spread

(* Which of the two spellings is used, and set.                            *)
LEMMA TruthyCases ==
  ASSUME NEW o
  PROVE  /\ o = [liveBufferSize |-> 20]
              => ~Truthy(o, "resolveLinkTos") /\ ~Truthy(o, "resolveLinktos")
         /\ o = [liveBufferSize |-> 1, resolveLinkTos |-> TRUE] => Truthy(o, "resolveLinkTos")
         /\ o = [liveBufferSize |-> 1, resolveLinktos |-> TRUE] => Truthy(o, "resolveLinktos")
  BY DEF Truthy

(* The v21 store is left with what the configuration asks for.             *)
LEMMA UpdatedAsConfigured ==
  ASSUME NEW s \in Subs, given[s] \in Given, ~LegacySource
  PROVE  Updated(given[s].options) = Configured(s)
<1> DEFINE o == Spread(given[s].options)
<1>1. LegacySource = FALSE
  BY Zenon DEF LegacySource, IsLegacyConf
<1>2. Updated(given[s].options) = Known(Over(o, Defaults))
  BY Zenon DEF Updated
<1>3. CASE o = << >>
  <2>1. Configured(s) = [liveBufferSize |-> 500, resolveLinkTos |-> FALSE]
    BY <1>3, ConfiguredNone
  <2>2. Over(o, Defaults).liveBufferSize = 500 /\ Over(o, Defaults).resolveLinkTos = FALSE
    BY <1>3 DEF Over, Defaults
  <2> QED BY <1>2, <2>1, <2>2, Zenon DEF Known
<1>4. CASE o = [liveBufferSize |-> 20]
  <2>1. Configured(s) = [liveBufferSize |-> 20, resolveLinkTos |-> FALSE]
    BY <1>4, ConfiguredBuffer
  <2>2. Over(o, Defaults).liveBufferSize = 20 /\ Over(o, Defaults).resolveLinkTos = FALSE
    BY <1>4 DEF Over, Defaults
  <2> QED BY <1>2, <2>1, <2>2, Zenon DEF Known
<1>5. CASE o = [liveBufferSize |-> 1, resolveLinkTos |-> TRUE]
  <2>1. Configured(s) = [liveBufferSize |-> 1, resolveLinkTos |-> TRUE]
    BY <1>5, ConfiguredLinked
  <2>2. Over(o, Defaults).liveBufferSize = 1 /\ Over(o, Defaults).resolveLinkTos = TRUE
    BY <1>5 DEF Over, Defaults
  <2> QED BY <1>2, <2>1, <2>2, Zenon DEF Known
<1>6. CASE o = [liveBufferSize |-> 1, resolveLinktos |-> TRUE]
  <2>1. Configured(s) = [liveBufferSize |-> 1, resolveLinkTos |-> FALSE]
    BY <1>1, <1>6, ConfiguredLinkedToo
  <2>2. Over(o, Defaults).liveBufferSize = 1 /\ Over(o, Defaults).resolveLinkTos = FALSE
    BY <1>6 DEF Over, Defaults
  <2> QED BY <1>2, <2>1, <2>2, Zenon DEF Known
<1> QED BY SpreadGiven, <1>3, <1>4, <1>5, <1>6, Zenon

(* So is the legacy one, which looks at both spellings.                    *)
LEMMA AssertedAsConfigured ==
  ASSUME NEW s \in Subs, given[s] \in Given, LegacySource, given[s].options # Undefined
  PROVE  Asserted(given[s].options) = Configured(s)
<1> DEFINE o == given[s].options
           linked == Truthy(o, "resolveLinkTos") \/ Truthy(o, "resolveLinktos")
<1>1. Asserted(o) = [liveBufferSize |-> Over(o, Defaults).liveBufferSize,
                     resolveLinkTos |-> linked]
  BY Zenon DEF Asserted
<1>2. Spread(o) = o
  BY Zenon DEF Spread
<1>3. linked \in BOOLEAN /\ LegacySource = TRUE
  BY Zenon DEF LegacySource, IsLegacyConf
<1>4. CASE o = [liveBufferSize |-> 20]
  <2>1. linked = FALSE
    BY <1>3, <1>4, TruthyCases, Zenon
  <2>2. Over(o, Defaults).liveBufferSize = 20
    BY <1>4 DEF Over, Defaults
  <2>3. Spread(given[s].options) = [liveBufferSize |-> 20]
    BY <1>2, <1>4, Zenon
  <2>4. Configured(s) = [liveBufferSize |-> 20, resolveLinkTos |-> FALSE]
    BY <2>3, ConfiguredBuffer
  <2> QED BY <1>1, <2>1, <2>2, <2>4, Zenon
<1>5. CASE o = [liveBufferSize |-> 1, resolveLinkTos |-> TRUE]
  <2>1. linked = TRUE
    BY <1>3, <1>5, TruthyCases, Zenon
  <2>2. Over(o, Defaults).liveBufferSize = 1
    BY <1>5 DEF Over, Defaults
  <2>3. Spread(given[s].options) = [liveBufferSize |-> 1, resolveLinkTos |-> TRUE]
    BY <1>2, <1>5, Zenon
  <2>4. Configured(s) = [liveBufferSize |-> 1, resolveLinkTos |-> TRUE]
    BY <2>3, ConfiguredLinked
  <2> QED BY <1>1, <2>1, <2>2, <2>4, Zenon
<1>6. CASE o = [liveBufferSize |-> 1, resolveLinktos |-> TRUE]
  <2>1. linked = TRUE
    BY <1>3, <1>6, TruthyCases, Zenon
  <2>2. Over(o, Defaults).liveBufferSize = 1
    BY <1>6 DEF Over, Defaults
  <2>3. Spread(given[s].options) = [liveBufferSize |-> 1, resolveLinktos |-> TRUE]
    BY <1>2, <1>6, Zenon
  <2>4. Configured(s) = [liveBufferSize |-> 1, resolveLinkTos |-> TRUE]
    BY <1>3, <2>3, ConfiguredLinkedToo
  <2> QED BY <1>1, <2>1, <2>2, <2>4, Zenon
<1> QED BY OptionsGiven, <1>4, <1>5, <1>6, Zenon

(* Configured settings are settings.                                       *)
LEMMA ConfiguredTyped ==
  ASSUME NEW s \in Subs, given[s] \in Given
  PROVE  /\ Configured(s) \in Settings
         /\ [Configured(s) EXCEPT !.liveBufferSize = 1] \in Settings
<1> DEFINE o == Spread(given[s].options)
<1>1. \A n \in {1, 20, 500}, b \in BOOLEAN :
        [liveBufferSize |-> n, resolveLinkTos |-> b] \in Settings
  BY DEF Settings
<1>2. LegacySource \in BOOLEAN
  BY Zenon DEF LegacySource, IsLegacyConf
<1>3. ASSUME o = << >> PROVE Configured(s) \in Settings
  <2>1. Configured(s) = [liveBufferSize |-> 500, resolveLinkTos |-> FALSE]
    BY <1>3, ConfiguredNone
  <2>2. [liveBufferSize |-> 500, resolveLinkTos |-> FALSE] \in Settings
    BY <1>1, <1>2
  <2> QED BY <2>1, <2>2, Zenon
<1>4. ASSUME o = [liveBufferSize |-> 20] PROVE Configured(s) \in Settings
  <2>1. Configured(s) = [liveBufferSize |-> 20, resolveLinkTos |-> FALSE]
    BY <1>4, ConfiguredBuffer
  <2>2. [liveBufferSize |-> 20, resolveLinkTos |-> FALSE] \in Settings
    BY <1>1, <1>2
  <2> QED BY <2>1, <2>2, Zenon
<1>5. ASSUME o = [liveBufferSize |-> 1, resolveLinkTos |-> TRUE] PROVE Configured(s) \in Settings
  <2>1. Configured(s) = [liveBufferSize |-> 1, resolveLinkTos |-> TRUE]
    BY <1>5, ConfiguredLinked
  <2>2. [liveBufferSize |-> 1, resolveLinkTos |-> TRUE] \in Settings
    BY <1>1, <1>2
  <2> QED BY <2>1, <2>2, Zenon
<1>6. ASSUME o = [liveBufferSize |-> 1, resolveLinktos |-> TRUE] PROVE Configured(s) \in Settings
  <2>1. Configured(s) = [liveBufferSize |-> 1, resolveLinkTos |-> LegacySource]
    BY <1>6, ConfiguredLinkedToo
  <2>2. [liveBufferSize |-> 1, resolveLinkTos |-> LegacySource] \in Settings
    BY <1>1, <1>2
  <2> QED BY <2>1, <2>2, Zenon
<1>7. Configured(s) \in Settings
  BY SpreadGiven, <1>3, <1>4, <1>5, <1>6, Zenon
<1>8. \A x \in Settings : [x EXCEPT !.liveBufferSize = 1] \in Settings
  BY DEF Settings
<1> QED BY <1>7, <1>8

-----------------------------------------------------------------------------
(* The settings of what has been upserted, on top of the order.            *)
SettingsTypes ==
  /\ given \in [Subs -> Given]
  /\ settings \in [groups -> Settings]
  /\ born \in SUBSET upserted
  /\ connection \in [Subs -> {0, 1, DefaultBuffer}]

BufferAsAsked(s) ==
  connection[s] = IF LegacySource THEN BufferOf(given[s]) ELSE DefaultBuffer

SettingsInv ==
  /\ StartupInv
  /\ SettingsTypes
  /\ \A s \in upserted : AsConfigured(s)
  /\ \A s \in consuming : BufferAsAsked(s)

(* A configuration that stays asks for the same.                           *)
LEMMA ConfiguredSame ==
  ASSUME UNCHANGED <<source, given>>, NEW s
  PROVE  /\ LegacySource' = LegacySource
         /\ Configured(s)' = Configured(s)
         /\ BufferOf(given[s])' = BufferOf(given[s])
<1>1. LegacySource' = LegacySource
  BY DEF LegacySource, IsLegacyConf
<1>2. \A o : Links(o)' = Links(o)
  BY <1>1, Zenon DEF Links
<1>3. Configured(s)' = Configured(s)
  BY <1>2, Zenon DEF Configured, Spread
<1> QED BY <1>1, <1>3, Zenon DEF BufferOf

(* A group that no step has touched is as it was.                          *)
LEMMA AsConfiguredSame ==
  ASSUME UNCHANGED <<source, given>>, NEW s,
         settings'[s] = settings[s], s \in born' <=> s \in born
  PROVE  AsConfigured(s)' <=> AsConfigured(s)
<1>1. LegacySource' = LegacySource /\ Configured(s)' = Configured(s)
  BY ConfiguredSame
<1>2. CASE s \in born
  BY <1>1, <1>2, Zenon DEF AsConfigured
<1>3. CASE s \notin born
  BY <1>1, <1>3, Zenon DEF AsConfigured
<1> QED BY <1>2, <1>3

(* The group that a step applies settings to, and the others.              *)
LEMMA Applied ==
  ASSUME SettingsTypes, at \in Subs, NEW value \in Settings, Apply(value)
  PROVE  /\ settings' \in [groups \cup {at} -> Settings]
         /\ settings'[at] = value
         /\ \A s \in groups : s # at => settings'[s] = settings[s]
  BY DEF Apply, SettingsTypes

(* The steps that leave settings alone, with or without the upserted.      *)
LEMMA SettingsLeftAlone ==
  ASSUME SettingsInv, StartupInv', UNCHANGED <<source, groups, upserted, settingsVars>>,
         consuming' \subseteq consuming
  PROVE  SettingsInv'
<1>1. SettingsTypes'
  BY DEF SettingsInv, SettingsTypes, settingsVars
<1>2. \A s \in upserted' : AsConfigured(s)'
  BY AsConfiguredSame DEF SettingsInv, settingsVars
<1>3. \A s \in consuming' : BufferAsAsked(s)'
  BY ConfiguredSame DEF SettingsInv, settingsVars, BufferAsAsked
<1> QED BY <1>1, <1>2, <1>3 DEF SettingsInv

(* An asserted group is what its configuration asks for.                   *)
LEMMA AssertGroupKeeps ==
  ASSUME SettingsInv, StartupInv', AssertGroup
  PROVE  SettingsInv'
<1>1. /\ step = "upsert" /\ LegacySource /\ at \in Subs /\ upserted = 1..(at - 1)
      /\ upserted \subseteq groups /\ consuming \subseteq upserted
  BY DEF AssertGroup, AssertSubscription, SettingsInv, StartupInv, OrderInv, PlaceTypes,
     GroupsOfStep
<1>2. /\ UNCHANGED <<source, given, born, connection, consuming>>
      /\ upserted' = upserted \cup {at} /\ groups' = groups \cup {at}
      /\ Apply(Asserted(given[at].options)) /\ given[at].options # Undefined
  BY DEF AssertGroup, AssertSubscription, confVars
<1>3. given[at] \in Given
  BY <1>1 DEF SettingsInv, SettingsTypes
<1>4. Apply(Configured(at)) /\ Configured(at) \in Settings
  BY <1>1, <1>2, <1>3, AssertedAsConfigured, ConfiguredTyped, Zenon
<1>5. /\ settings' \in [groups' -> Settings]
      /\ settings'[at] = Configured(at)
      /\ \A s \in groups : s # at => settings'[s] = settings[s]
  BY <1>1, <1>2, <1>4, Applied DEF SettingsInv
<1>6. SettingsTypes'
  BY <1>2, <1>5 DEF SettingsInv, SettingsTypes
<1>7. ASSUME NEW s \in upserted' PROVE AsConfigured(s)'
  <2>1. CASE s = at
    <3>1. LegacySource' /\ settings'[s] = Configured(s)'
      BY <1>1, <1>2, <1>5, <2>1, ConfiguredSame, Zenon
    <3> QED BY <3>1, Zenon DEF AsConfigured
  <2>2. CASE s # at
    <3>1. s \in upserted /\ settings'[s] = settings[s]
      BY <1>1, <1>2, <1>5, <2>2
    <3> QED BY <1>2, <3>1, AsConfiguredSame DEF SettingsInv
  <2> QED BY <2>1, <2>2
<1>8. \A s \in consuming' : BufferAsAsked(s)'
  BY <1>2, ConfiguredSame DEF SettingsInv, BufferAsAsked
<1> QED BY <1>6, <1>7, <1>8 DEF SettingsInv

(* A legacy group is consumed with the buffer its configuration asks for.  *)
LEMMA ConnectGroupKeeps ==
  ASSUME SettingsInv, StartupInv', ConnectGroup
  PROVE  SettingsInv'
<1>1. /\ LegacySource /\ at \in Subs
      /\ UNCHANGED <<source, given, settings, born, upserted, groups>>
      /\ consuming' = consuming \cup {at}
      /\ connection' = [connection EXCEPT ![at] = BufferOf(given[at])]
  BY DEF ConnectGroup, Connect, confVars, SettingsInv, StartupInv, OrderInv, PlaceTypes
<1>2. BufferOf(given[at]) \in {1, DefaultBuffer}
  <2>1. given[at] \in Given
    BY <1>1 DEF SettingsInv, SettingsTypes
  <2>2. \A g \in Given : g.bufferSize \in {Undefined, 1}
    BY DEF Given
  <2> QED BY <2>1, <2>2 DEF BufferOf
<1>3. SettingsTypes'
  BY <1>1, <1>2 DEF SettingsInv, SettingsTypes
<1>4. \A s \in upserted' : AsConfigured(s)'
  BY <1>1, AsConfiguredSame DEF SettingsInv
<1>5. ASSUME NEW s \in consuming' PROVE BufferAsAsked(s)'
  <2>1. connection'[s] = BufferOf(given[s])
    <3>1. CASE s = at
      BY <1>1, <3>1 DEF SettingsInv, SettingsTypes
    <3>2. CASE s # at
      BY <1>1, <3>2 DEF SettingsInv, SettingsTypes, BufferAsAsked
    <3> QED BY <3>1, <3>2
  <2> QED BY <1>1, <2>1, ConfiguredSame DEF BufferAsAsked
<1> QED BY <1>3, <1>4, <1>5 DEF SettingsInv

(* A new v21 group has what is asked for, but a buffer of one.             *)
LEMMA CreateGroupKeeps ==
  ASSUME SettingsInv, StartupInv', CreateGroup
  PROVE  SettingsInv'
<1>1. /\ step = "upsert" /\ ~LegacySource /\ at \in Subs
      /\ upserted = 1..(at - 1) /\ upserted \subseteq groups
      /\ consuming = {}
  BY DEF CreateGroup, Create, SettingsInv, StartupInv, OrderInv, PlaceTypes,
     GroupsOfStep, NextSourceOfStep
<1>2. /\ UNCHANGED <<source, given, connection>>
      /\ consuming' = {}
  BY <1>1 DEF CreateGroup, Create, confVars
<1>3. CASE at \in groups
  <2>1. UNCHANGED <<settings, born, upserted, groups>>
    BY <1>3 DEF CreateGroup, Create
  <2> QED BY <1>1, <1>2, <2>1, SettingsLeftAlone DEF settingsVars
<1>4. CASE at \notin groups
  <2>1. /\ upserted' = upserted \cup {at} /\ groups' = groups \cup {at}
        /\ born' = born \cup {at} /\ Apply(Created(given[at].options))
    BY <1>4 DEF CreateGroup, Create
  <2>2. given[at] \in Given
    BY <1>1 DEF SettingsInv, SettingsTypes
  <2> DEFINE one == [Configured(at) EXCEPT !.liveBufferSize = 1]
  <2>3. Apply(one) /\ one \in Settings
    BY <1>1, <2>1, <2>2, UpdatedAsConfigured, ConfiguredTyped, Zenon DEF Created
  <2>4. /\ settings' \in [groups' -> Settings]
        /\ settings'[at] = one
        /\ \A s \in groups : s # at => settings'[s] = settings[s]
    BY <1>1, <2>1, <2>3, Applied DEF SettingsInv
  <2>5. SettingsTypes'
    BY <1>2, <2>1, <2>4 DEF SettingsInv, SettingsTypes
  <2>6. ASSUME NEW s \in upserted' PROVE AsConfigured(s)'
    <3>1. CASE s = at
      <4>1. s \in born' /\ ~LegacySource'
            /\ settings'[s] = [Configured(s)' EXCEPT !.liveBufferSize = 1]
        BY <1>1, <1>2, <2>1, <2>4, <3>1, ConfiguredSame, Zenon
      <4> QED BY <4>1, Zenon DEF AsConfigured
    <3>2. CASE s # at
      <4>1. s \in upserted /\ settings'[s] = settings[s] /\ (s \in born' <=> s \in born)
        BY <1>1, <2>1, <2>4, <3>2
      <4> QED BY <1>2, <4>1, AsConfiguredSame DEF SettingsInv
    <3> QED BY <3>1, <3>2
  <2> QED BY <1>2, <2>5, <2>6 DEF SettingsInv
<1> QED BY <1>3, <1>4

(* A v21 group that was there before has exactly what is asked for.        *)
LEMMA UpdateGroupKeeps ==
  ASSUME SettingsInv, StartupInv', UpdateGroup
  PROVE  SettingsInv'
<1>1. /\ step = "update" /\ ~LegacySource /\ at \in groups /\ at \in Subs
      /\ upserted = 1..(at - 1) /\ upserted \subseteq groups
      /\ consuming = {}
  BY DEF UpdateGroup, Update, SettingsInv, StartupInv, OrderInv, PlaceTypes,
     GroupsOfStep, NextSourceOfStep
<1>2. /\ UNCHANGED <<source, given, born, connection, groups>>
      /\ consuming' = {} /\ upserted' = upserted \cup {at}
      /\ Apply(Updated(given[at].options))
  BY <1>1 DEF UpdateGroup, Update, confVars
<1>3. at \notin upserted /\ at \notin born
  BY <1>1 DEF Subs, SettingsInv, SettingsTypes
<1>4. given[at] \in Given
  BY <1>1 DEF SettingsInv, SettingsTypes
<1>5. Apply(Configured(at)) /\ Configured(at) \in Settings
  BY <1>1, <1>2, <1>4, UpdatedAsConfigured, ConfiguredTyped, Zenon
<1>6. /\ settings' \in [groups \cup {at} -> Settings]
      /\ settings'[at] = Configured(at)
      /\ \A s \in groups : s # at => settings'[s] = settings[s]
  BY <1>1, <1>2, <1>5, Applied DEF SettingsInv
<1>7. SettingsTypes'
  <2>1. groups' = groups \cup {at}
    BY <1>1, <1>2
  <2> QED BY <1>2, <1>6, <2>1 DEF SettingsInv, SettingsTypes
<1>8. ASSUME NEW s \in upserted' PROVE AsConfigured(s)'
  <2>1. CASE s = at
    <3>1. s \notin born' /\ settings'[s] = Configured(s)'
      BY <1>2, <1>3, <1>6, <2>1, ConfiguredSame, Zenon
    <3> QED BY <3>1, Zenon DEF AsConfigured
  <2>2. CASE s # at
    <3>1. s \in upserted /\ settings'[s] = settings[s]
      BY <1>1, <1>2, <1>6, <2>2
    <3> QED BY <1>2, <3>1, AsConfiguredSame DEF SettingsInv
  <2> QED BY <2>1, <2>2
<1> QED BY <1>2, <1>7, <1>8 DEF SettingsInv

(* A v21 group is consumed with the client's own buffer.                   *)
LEMMA SubscribeGroupsKeeps ==
  ASSUME SettingsInv, StartupInv', SubscribeGroups
  PROVE  SettingsInv'
<1>1. /\ ~LegacySource
      /\ UNCHANGED <<source, given, settings, born, upserted, groups>>
      /\ consuming' = Subs
      /\ connection' = [s \in Subs |-> DefaultBuffer]
  BY DEF SubscribeGroups, SubscribeAll, confVars
<1>2. SettingsTypes'
  BY <1>1 DEF SettingsInv, SettingsTypes
<1>3. \A s \in upserted' : AsConfigured(s)'
  BY <1>1, AsConfiguredSame DEF SettingsInv
<1>4. \A s \in consuming' : BufferAsAsked(s)'
  BY <1>1, ConfiguredSame DEF BufferAsAsked
<1> QED BY <1>2, <1>3, <1>4 DEF SettingsInv

(* A new process has upserted nothing yet.                                 *)
LEMMA RedeployKeeps ==
  ASSUME SettingsInv, StartupInv', Redeploy
  PROVE  SettingsInv'
<1>1. /\ upserted' = {} /\ born' = {} /\ consuming' = {}
      /\ given' \in [Subs -> Given]
      /\ UNCHANGED <<groups, settings, connection>>
  BY DEF Redeploy, StartAgain, SettingsInv, StartupInv, OrderInv, GroupsOfStep
<1>2. SettingsTypes'
  BY <1>1 DEF SettingsInv, SettingsTypes
<1> QED BY <1>1, <1>2 DEF SettingsInv

(* Nothing is upserted or consumed at first.                               *)
LEMMA SettingsInitInv == SettingsInit => SettingsInv
<1> SUFFICES ASSUME SettingsInit PROVE SettingsInv
  OBVIOUS
<1>1. StartupInv
  BY StartupInitInv DEF SettingsInit
<1>2. settings \in [groups -> Settings]
  <2>1. Defaults \in Settings /\ [liveBufferSize |-> 1, resolveLinkTos |-> TRUE] \in Settings
    BY DEF Defaults, Settings
  <2> QED BY <2>1 DEF SettingsInit
<1>3. SettingsTypes
  BY <1>2 DEF SettingsInit, SettingsTypes
<1>4. upserted = {} /\ consuming = {}
  BY DEF SettingsInit, StartupInit
<1> QED BY <1>1, <1>3, <1>4 DEF SettingsInv

(* The lemmas above, one for each of the actions.                          *)
LEMMA SettingsStepInv ==
  ASSUME SettingsInv, [SettingsNext]_allVars
  PROVE  SettingsInv'
<1>1. StartupInv'
  BY StepKeepsStartup DEF SettingsInv
<1>2. CASE ConnectStores
  BY <1>1, <1>2, SettingsLeftAlone
  DEF ConnectStores, DriverConnects, HttpChecked, SourceConnects, SecondPinger, confVars,
      subscriptionVars
<1>3. CASE AssertThrows \/ (Fail /\ UNCHANGED settingsVars)
  BY <1>1, <1>3, SettingsLeftAlone DEF AssertThrows, Fail, confVars
<1>4. CASE UNCHANGED allVars
  BY <1>1, <1>4, SettingsLeftAlone DEF allVars, startupVars, confVars, subscriptionVars
<1> QED
  BY <1>1, <1>2, <1>3, <1>4, AssertGroupKeeps, ConnectGroupKeeps, CreateGroupKeeps,
     UpdateGroupKeeps, SubscribeGroupsKeeps, RedeployKeeps
  DEF SettingsNext, ProceedWithSettings

(* All that follows comes from this invariant.                             *)
LEMMA SettingsInvHolds == SettingsSpec => []SettingsInv
<1>1. SettingsInit => SettingsInv
  BY SettingsInitInv
<1>2. SettingsInv /\ [SettingsNext]_allVars => SettingsInv'
  BY SettingsStepInv
<1> QED BY <1>1, <1>2, PTL DEF SettingsSpec

-----------------------------------------------------------------------------
(* The types of the start and of the settings it leaves on the store.      *)
THEOREM SettingsTypeCorrect == SettingsSpec => []SettingsTypeOK
<1>1. SettingsInv => SettingsTypeOK
  <2> SUFFICES ASSUME SettingsInv PROVE SettingsTypeOK
    OBVIOUS
  <2>1. StartupTypeOK
    BY DEF SettingsInv, StartupInv, OrderInv, LinkTypes, PlaceTypes, StartupTypeOK
  <2>2. born \in SUBSET groups
    BY DEF SettingsInv, SettingsTypes, StartupInv, OrderInv, GroupsOfStep
  <2> QED BY <2>1, <2>2 DEF SettingsInv, SettingsTypes, SettingsTypeOK
<1> QED BY <1>1, SettingsInvHolds, PTL

(* No event reaches a process before its driver and its source are         *)
(* connected, however many starts have failed before.                      *)
THEOREM ConnectedBeforeEvents == SettingsSpec => []ReadyBeforeEvents
<1>1. SettingsInv => ReadyBeforeEvents
  BY DEF SettingsInv, StartupInv, OrderInv, PlaceTypes, LinksOfStep, GroupsOfStep,
     NextSourceOfStep, Connecting, Steps, ReadyBeforeEvents
<1> QED BY <1>1, SettingsInvHolds, PTL

(* No group is consumed before it was brought up to date, no v21 group     *)
(* before all of them were.                                                *)
THEOREM GroupsBeforeEvents == SettingsSpec => []UpsertedBeforeEvents
<1>1. SettingsInv => UpsertedBeforeEvents
  BY DEF SettingsInv, StartupInv, OrderInv, PlaceTypes, GroupsOfStep,
     NextSourceOfStep, Connecting, Steps, UpsertedBeforeEvents
<1> QED BY <1>1, SettingsInvHolds, PTL

(* What is consumed has the settings of the configuration of this start.   *)
THEOREM ConsumedAsConfigured == SettingsSpec => []ConsumesAsConfigured
<1>1. SettingsInv => ConsumesAsConfigured
  BY DEF SettingsInv, StartupInv, OrderInv, GroupsOfStep, BufferAsAsked, ConsumesAsConfigured
<1> QED BY <1>1, SettingsInvHolds, PTL

(* A start leaves a group alone that already is as configured.             *)
THEOREM ConfiguredStays == SettingsSpec => AsConfiguredStays
<1> DEFINE Stays == \A s \in groups : settings[s] = Configured(s) => settings'[s] = settings[s]
<1>1. ASSUME SettingsInv, SettingsNext, NEW s \in groups, settings[s] = Configured(s)
      PROVE  settings'[s] = settings[s]
  <2>1. at \in Subs /\ given \in [Subs -> Given] /\ SettingsTypes
    BY <1>1 DEF SettingsInv, SettingsTypes, StartupInv, OrderInv, PlaceTypes
  <2>2. given[at] \in Given
    BY <2>1
  <2>3. CASE AssertGroup
    <3>1. Apply(Configured(at)) /\ Configured(at) \in Settings
      BY <2>1, <2>2, <2>3, AssertedAsConfigured, ConfiguredTyped, Zenon
      DEF AssertGroup, AssertSubscription
    <3> QED BY <1>1, <2>1, <3>1, Applied
  <2>4. CASE CreateGroup
    <3>1. CASE at \in groups
      BY <2>4, <3>1 DEF CreateGroup
    <3>2. CASE at \notin groups
      <4>1. s # at
        BY <1>1, <3>2
      <4>2. Apply(Created(given[at].options))
        BY <2>4, <3>2 DEF CreateGroup
      <4> QED BY <1>1, <2>1, <4>1, <4>2 DEF Apply, SettingsTypes
    <3> QED BY <3>1, <3>2
  <2>5. CASE UpdateGroup
    <3>1. ~LegacySource
      BY <1>1, <2>5 DEF UpdateGroup, Update, SettingsInv, StartupInv, OrderInv, GroupsOfStep
    <3>2. Apply(Configured(at)) /\ Configured(at) \in Settings
      BY <2>1, <2>2, <2>5, <3>1, UpdatedAsConfigured, ConfiguredTyped, Zenon DEF UpdateGroup
    <3> QED BY <1>1, <2>1, <3>2, Applied
  <2>6. CASE \/ ConnectStores \/ AssertThrows \/ ConnectGroup \/ SubscribeGroups \/ Redeploy
             \/ (Fail /\ UNCHANGED settingsVars)
    BY <2>6 DEF ConnectStores, AssertThrows, ConnectGroup, SubscribeGroups, Redeploy, settingsVars
  <2> QED BY <1>1, <2>3, <2>4, <2>5, <2>6 DEF SettingsNext, ProceedWithSettings
<1>2. SettingsInv /\ [SettingsNext]_allVars => [Stays]_allVars
  BY <1>1
<1> QED BY <1>2, SettingsInvHolds, PTL DEF SettingsSpec, AsConfiguredStays

-----------------------------------------------------------------------------
(* A legacy source: before the group at hand, every one is consumed. A v21 *)
(* source has no such prefix: it subscribes to all at once.                *)
ConsumedOfStep ==
  /\ LegacySource /\ step \in {"upsert", "subscribe"} => consuming = 1..(at - 1)
  /\ step = "running" => consuming = Subs

(* The loop leaves no subscription behind it out.                          *)
LEMMA ConsumedKept ==
  ASSUME StartupInv, ConsumedOfStep, [SettingsNext]_allVars
  PROVE  ConsumedOfStep'
<1> USE DEF ConsumedOfStep, StartupInv, OrderInv, PlaceTypes, confVars, LegacySource,
            IsLegacyConf, Subs
<1>1. CASE UNCHANGED allVars
  BY <1>1 DEF allVars, startupVars, subscriptionVars
<1>2. CASE ConnectStores
  <2>1. step \in Connecting /\ step' # "running" /\ at' = at /\ consuming' = consuming
    BY <1>2
    DEF ConnectStores, DriverConnects, HttpChecked, SourceConnects, SecondPinger, Connecting,
        subscriptionVars
  <2>2. at' = 1 /\ consuming' = {}
    BY <2>1 DEF GroupsOfStep
  <2> QED BY <2>1, <2>2
<1>3. CASE AssertGroup
  BY <1>3 DEF AssertGroup, AssertSubscription
<1>4. CASE ConnectGroup
  BY <1>4, StartupAssumption DEF ConnectGroup, Connect
<1>5. CASE CreateGroup
  <2>1. ~LegacySource /\ step' # "running" /\ UNCHANGED confVars
    BY <1>5 DEF CreateGroup, Create
  <2> QED BY <2>1
<1>6. CASE UpdateGroup
  <2>1. ~LegacySource /\ step' # "running" /\ UNCHANGED confVars
    BY <1>6 DEF UpdateGroup, Update, GroupsOfStep
  <2> QED BY <2>1
<1>7. CASE SubscribeGroups
  BY <1>7 DEF SubscribeGroups, SubscribeAll
<1>8. CASE AssertThrows \/ Fail \/ Redeploy
  BY <1>8 DEF AssertThrows, Fail, Redeploy, StartAgain
<1> QED
  BY <1>1, <1>2, <1>3, <1>4, <1>5, <1>6, <1>7, <1>8 DEF SettingsNext, ProceedWithSettings

(* It holds of every state of every start.                                 *)
LEMMA ConsumedHolds == SettingsSpec => []ConsumedOfStep
<1>1. SettingsInit => ConsumedOfStep
  BY DEF SettingsInit, StartupInit, ConsumedOfStep
<1>2. SettingsInv /\ ConsumedOfStep /\ [SettingsNext]_allVars => ConsumedOfStep'
  BY ConsumedKept DEF SettingsInv
<1> QED BY <1>1, <1>2, SettingsInvHolds, PTL DEF SettingsSpec

(* What is ahead is a natural number, and nothing once the process is over.*)
LEMMA AheadCounts ==
  ASSUME StartupInv
  PROVE  /\ Ahead \in Nat
         /\ step # "exited" => Ahead > 0
<1>1. step \in Steps /\ NSubs - at \in Nat
  BY StartupAssumption DEF StartupInv, OrderInv, PlaceTypes, Subs
<1> QED BY <1>1 DEF Ahead, Steps

(* Every step of a living process leaves less ahead of it.                 *)
LEMMA StepComesCloser ==
  ASSUME StartupInv, StartupInv', SettingsNext, step # "exited"
  PROVE  Ahead' < Ahead
<1> USE StartupAssumption DEF Ahead, Subs
<1>0. at \in Subs /\ step \in Steps
  BY DEF StartupInv, OrderInv, PlaceTypes
<1>1. CASE ConnectStores
  BY <1>0, <1>1 DEF ConnectStores, DriverConnects, HttpChecked, SourceConnects, SecondPinger
<1>2. CASE AssertGroup
  BY <1>0, <1>2 DEF AssertGroup, AssertSubscription
<1>3. CASE ConnectGroup
  BY <1>0, <1>3 DEF ConnectGroup, Connect
<1>4. CASE CreateGroup
  BY <1>0, <1>4 DEF CreateGroup, Create
<1>5. CASE UpdateGroup
  BY <1>0, <1>5 DEF UpdateGroup, Update
<1>6. CASE SubscribeGroups
  BY <1>0, <1>6 DEF SubscribeGroups, SubscribeAll
<1>7. CASE AssertThrows \/ Fail
  <2>1. Ahead' = 0
    BY <1>7 DEF AssertThrows, Fail
  <2> QED BY <2>1, AheadCounts
<1>8. ~Redeploy
  BY DEF Redeploy, StartAgain
<1> QED
  BY <1>1, <1>2, <1>3, <1>4, <1>5, <1>6, <1>7, <1>8 DEF SettingsNext, ProceedWithSettings

(* A start ends after a number of steps that its configuration bounds, for *)
(* any number of subscriptions and any groups it meets: no loop repeats    *)
(* itself, and none leaves a subscription out.                             *)
THEOREM EveryStartEnds == SettingsSpec => StartEnds
<1> DEFINE Closer == step # "exited" =>
                       /\ Ahead' < Ahead
                       /\ step' = "running" => consuming' = Subs
<1>1. SettingsInv /\ SettingsInv' /\ ConsumedOfStep' /\ [SettingsNext]_allVars
      => [Closer]_allVars
  BY StepComesCloser DEF SettingsInv, ConsumedOfStep, Subs
<1> QED BY <1>1, SettingsInvHolds, ConsumedHolds, PTL DEF SettingsSpec, StartEnds
=============================================================================

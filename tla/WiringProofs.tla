---------------------------- MODULE WiringProofs ----------------------------
(***************************************************************************)
(* The wiring, whatever the environment holds and however it changes       *)
(* between two starts. A token that a module registers itself is never     *)
(* taken from another module, so that each side's initializer is its own   *)
(* and so is the configuration it reads.                                   *)
(***************************************************************************)
EXTENDS Wiring, TLAPS

Modules == {"reader", "driver", "safetyNet"}

(* The tokens each module registers.                                       *)
LEMMA ReaderTokens ==
  /\ DOMAIN ReaderProviders =
       IF LegacyReader
         THEN {"configuration", "handler", "reader", "subscriptions", "validator", "tcp",
               "http", "guard"}
         ELSE {"configuration", "handler", "credentials", "reader", "grpc", "subscriptions",
               "validator", "guard"}
  /\ ReaderProviders["configuration"] = "source"
  /\ ReaderProviders["handler"] = "EventHandler"
  /\ ReaderProviders["reader"] = IF LegacyReader THEN "HttpReader" ELSE "GrpcReader"
  /\ ReaderProviders["guard"] = IF LegacyReader THEN "LegacyGuard" ELSE "NextGuard"
  /\ ReaderProviders["subscriptions"] =
       IF LegacyReader THEN "eventStoreBusConfig" ELSE "eventStoreSubsystems"
<1>1. CASE LegacyReader
  BY <1>1 DEF ReaderProviders, LegacyReaderProviders, Joined
<1>2. CASE ~LegacyReader
  BY <1>2 DEF ReaderProviders, NextReaderProviders, Joined
<1> QED BY <1>1, <1>2

LEMMA DriverTokens ==
  /\ DOMAIN DriverProviders =
       IF LegacyDriver THEN {"driver", "credentials", "configuration", "tcp", "guard"}
                       ELSE {"configuration", "driver", "credentials", "grpc", "guard"}
  /\ DriverProviders["configuration"] = "destination"
  /\ DriverProviders["credentials"] = "destination"
  /\ DriverProviders["driver"] = IF LegacyDriver THEN "HttpDriver" ELSE "GrpcDriver"
  /\ DriverProviders["guard"] = IF LegacyDriver THEN "LegacyGuard" ELSE "NextGuard"
  BY DEF DriverProviders, LegacyDriverProviders, NextDriverProviders

LEMMA AllProviders ==
  /\ DOMAIN Providers = Modules
  /\ Providers["reader"] = ReaderProviders
  /\ Providers["driver"] = DriverProviders
  /\ Providers["safetyNet"] = [safetyNet |-> "SafetyNet"]
  BY DEF Providers, Modules

(* A module takes a token it registers from itself.                        *)
LEMMA OwnTokenIsNearest ==
  ASSUME NEW module \in Modules, NEW token \in DOMAIN Providers[module]
  PROVE  /\ Resolved(module, token) = module
         /\ Provider(module, token) = Providers[module][token]
<1>1. /\ 1 \in DOMAIN Scope[module]
      /\ Scope[module][1] = module
      /\ DOMAIN Scope[module] \subseteq 1..3
  BY DEF Scope, Modules
<1>2. 1 \in Visible(module, token) /\ Visible(module, token) \subseteq 1..3
  BY <1>1 DEF Visible
<1>3. (CHOOSE i \in Visible(module, token) : \A j \in Visible(module, token) : i <= j) = 1
  BY <1>2
<1> QED
  BY <1>1, <1>3 DEF Resolved, Provider

-----------------------------------------------------------------------------
(* The configuration of a case holds the two stores its name says.         *)
StoreOf(kind, side) == IF kind = "legacy" THEN LegacyStore(side) ELSE NextStore(side)

LEMMA CaseNamesStores ==
  ASSUME case \in Cases
  PROVE  /\ Configuration["source"] = StoreOf(SourceKind, "source")
         /\ Configuration["destination"] = StoreOf(DestinationKind, "destination")
         /\ Configuration.subscriptions =
              IF SourceKind = "legacy" THEN "eventStoreBusConfig" ELSE "eventStoreSubsystems"
         /\ SourceKind \in Kinds /\ DestinationKind \in Kinds
  BY DEF Cases, Configuration, StoreOf, SourceKind, DestinationKind, Kinds,
         legSrcLegDestConfiguration, legSrcNextDestConfiguration,
         nextSrcLegDestConfiguration, nextSrcNextDestConfiguration

LEMMA StoreFields ==
  ASSUME NEW kind \in Kinds, NEW side
  PROVE  /\ StoreOf(kind, side).tcp =
              IF kind = "legacy" THEN Endpoint("tcpPort", "legacy", side) ELSE {}
         /\ StoreOf(kind, side).http =
              IF kind = "legacy" THEN Endpoint("httpPort", "legacy", side) ELSE {}
         /\ StoreOf(kind, side).connectionString =
              IF kind = "next" THEN Endpoint("connectionString", "next", side) ELSE {}
         /\ StoreOf(kind, side).credentials = <<kind, side>>
  BY DEF StoreOf, Kinds, LegacyStore, NextStore

LEMMA EndpointIsOfItsStore ==
  ASSUME NEW variable, NEW kind, NEW side
  PROVE  /\ Endpoint(variable, kind, side) \in {{}, {<<kind, side>>}}
         /\ Endpoint(variable, kind, side) # {} <=> <<variable, kind, side>> \in env
  BY DEF Endpoint

(* A side is taken for legacy if it is, or if its connection string is not *)
(* there.                                                                  *)
Found(kind, side) == kind = "next" => <<"connectionString", "next", side>> \in env

LEMMA ReaderKind ==
  ASSUME case \in Cases
  PROVE  LegacyReader <=> SourceKind = "legacy" \/ ~Found(SourceKind, "source")
  BY CaseNamesStores, StoreFields, EndpointIsOfItsStore
  DEF LegacyReader, IsLegacyConf, Found, Kinds

LEMMA DriverKind ==
  ASSUME case \in Cases
  PROVE  LegacyDriver <=> DestinationKind = "legacy" \/ ~Found(DestinationKind, "destination")
  BY CaseNamesStores, StoreFields, EndpointIsOfItsStore
  DEF LegacyDriver, IsLegacyConf, Found, Kinds

(* A v21 source that is taken for a legacy one stops the start: its        *)
(* subscriptions are not there.                                            *)
LEMMA CreatedIsFound ==
  ASSUME case \in Cases, CanCreate
  PROVE  Found(SourceKind, "source")
<1>1. Provider("reader", "subscriptions") = ReaderProviders["subscriptions"]
  BY OwnTokenIsNearest, ReaderTokens, AllProviders DEF Modules
<1>2. Configuration.subscriptions = ReaderProviders["subscriptions"]
  BY <1>1 DEF CanCreate
<1> QED
  BY <1>2, CaseNamesStores, ReaderTokens, ReaderKind DEF Found

-----------------------------------------------------------------------------
(* What each side's initializer connects to.                               *)
LEMMA DriverReaches ==
  ASSUME case \in Cases
  PROVE  Reached("driver", IF LegacyDriver THEN "tcp" ELSE "grpc") =
           IF DestinationKind = "legacy"
             THEN Endpoint("tcpPort", "legacy", "destination")
             ELSE Endpoint("connectionString", "next", "destination")
<1> DEFINE initializer == IF LegacyDriver THEN "tcp" ELSE "grpc"
<1>1. /\ Resolved("driver", initializer) = "driver"
      /\ Provider("driver", "configuration") = "destination"
      /\ Provider("driver", "guard") = GuardFor[initializer]
  BY OwnTokenIsNearest, DriverTokens, AllProviders DEF Modules, GuardFor
<1>2. Reached("driver", initializer) =
        Configuration["destination"][IF LegacyDriver THEN "tcp" ELSE "connectionString"]
  BY <1>1 DEF Reached, FieldOf
<1> HIDE DEF initializer
<1>3. Configuration["destination"] = StoreOf(DestinationKind, "destination")
      /\ DestinationKind \in Kinds
  BY CaseNamesStores
<1>4. CASE LegacyDriver /\ DestinationKind = "legacy"
  BY <1>2, <1>3, <1>4, StoreFields DEF initializer
<1>5. CASE LegacyDriver /\ DestinationKind # "legacy"
  BY <1>2, <1>3, <1>5, StoreFields, DriverKind, EndpointIsOfItsStore
  DEF initializer, Found, Kinds
<1>6. CASE ~LegacyDriver
  BY <1>2, <1>3, <1>6, StoreFields, DriverKind DEF initializer, Kinds
<1> QED BY <1>4, <1>5, <1>6

LEMMA ReaderReaches ==
  ASSUME case \in Cases, Found(SourceKind, "source")
  PROVE  /\ LegacyReader <=> SourceKind = "legacy"
         /\ Reached("reader", IF LegacyReader THEN "tcp" ELSE "grpc") =
              IF SourceKind = "legacy"
                THEN Endpoint("tcpPort", "legacy", "source")
                ELSE Endpoint("connectionString", "next", "source")
         /\ LegacyReader => Reached("reader", "http") = Endpoint("httpPort", "legacy", "source")
<1> DEFINE initializer == IF LegacyReader THEN "tcp" ELSE "grpc"
<1>1. LegacyReader <=> SourceKind = "legacy"
  BY ReaderKind, CaseNamesStores
<1>2. /\ Resolved("reader", initializer) = "reader"
      /\ LegacyReader => Resolved("reader", "http") = "reader"
      /\ Provider("reader", "configuration") = "source"
      /\ Provider("reader", "guard") = GuardFor[initializer]
  BY OwnTokenIsNearest, ReaderTokens, AllProviders DEF Modules, GuardFor
<1>3. /\ Reached("reader", initializer) =
           Configuration["source"][IF LegacyReader THEN "tcp" ELSE "connectionString"]
      /\ LegacyReader => Reached("reader", "http") = Configuration["source"]["http"]
  BY <1>2 DEF Reached, FieldOf
<1> HIDE DEF initializer
<1>4. Configuration["source"] = StoreOf(SourceKind, "source") /\ SourceKind \in Kinds
  BY CaseNamesStores
<1>5. CASE LegacyReader
  BY <1>1, <1>3, <1>4, <1>5, StoreFields DEF initializer
<1>6. CASE ~LegacyReader
  BY <1>1, <1>3, <1>4, <1>6, StoreFields DEF initializer, Kinds
<1> QED BY <1>1, <1>5, <1>6

-----------------------------------------------------------------------------
(* What each step of a start leaves behind: a source that was found, then  *)
(* the destination, then both stores.                                      *)
Towards(side) == IF side = "source" THEN {<<SourceKind, "source">>}
                                    ELSE {<<DestinationKind, "destination">>}

Connected(sides) == [side \in Sides |-> IF side \in sides THEN Towards(side) ELSE {}]

UpTo == [stopped |-> {}, created |-> {}, driverUp |-> {"destination"}, running |-> Sides]

WiringInv ==
  /\ case \in Cases \cup {NoCase}
  /\ env \in SUBSET EnvVariables
  /\ step \in {"stopped", "created", "driverUp", "running"}
  /\ clients = Connected(UpTo[step])
  /\ step # "stopped" => case \in Cases /\ Found(SourceKind, "source")

LEMMA NobodyConnected ==
  /\ NoClients = Connected({})
  /\ UpTo["stopped"] = {} /\ UpTo["created"] = {}
  /\ UpTo["driverUp"] = {"destination"} /\ UpTo["running"] = Sides
  BY DEF NoClients, Connected, UpTo

LEMMA SidesConnect ==
  /\ \A s : [Connected({}) EXCEPT !["destination"] = s]
             = [side \in Sides |-> IF side = "destination" THEN s ELSE {}]
  /\ \A s : [Connected({"destination"}) EXCEPT !["source"] = s]
             = [side \in Sides |-> IF side = "source" THEN s ELSE Towards("destination")]
  BY DEF Connected, Sides

LEMMA DriverInitKeepsInv ==
  ASSUME WiringInv, DriverInit
  PROVE  WiringInv'
<1> DEFINE store == Reached("driver", IF LegacyDriver THEN "tcp" ELSE "grpc")
<1>1. step = "created" /\ case \in Cases /\ clients = Connected({})
  BY NobodyConnected DEF DriverInit, WiringInv
<1>2. store \in {{}, Towards("destination")}
  <2>1. store = IF DestinationKind = "legacy" THEN Endpoint("tcpPort", "legacy", "destination")
                ELSE Endpoint("connectionString", "next", "destination")
    BY <1>1, DriverReaches
  <2>2. DestinationKind \in {"legacy", "next"}
    BY DEF DestinationKind
  <2> HIDE DEF store
  <2> QED
    BY <2>1, <2>2 DEF Towards, Endpoint
<1>3. UNCHANGED <<case, env, SourceKind, DestinationKind>>
  BY DEF DriverInit, SourceKind, DestinationKind
<1>4. \/ store = {} /\ Exits
      \/ /\ store # {}
         /\ step' = "driverUp"
         /\ clients' = [clients EXCEPT !["destination"] = store]
  BY DEF DriverInit
<1> HIDE DEF store
<1>5. CASE store = {} /\ Exits
  BY <1>1, <1>3, <1>5, NobodyConnected DEF WiringInv, Exits, NoClients, Connected
<1>6. CASE store # {} /\ step' = "driverUp" /\ clients' = [clients EXCEPT !["destination"] = store]
  <2>1. clients' = [side \in Sides |-> IF side = "destination" THEN Towards("destination") ELSE {}]
    BY <1>1, <1>2, <1>6, SidesConnect
  <2>2. clients' = Connected({"destination"})'
    BY <2>1, <1>3 DEF Connected, Towards
  <2> QED
    BY <1>1, <1>3, <1>6, <2>2, NobodyConnected DEF WiringInv, Found, UpTo
<1> QED BY <1>4, <1>5, <1>6

LEMMA ReaderInitKeepsInv ==
  ASSUME WiringInv, ReaderInit
  PROVE  WiringInv'
<1> DEFINE store == Reached("reader", IF LegacyReader THEN "tcp" ELSE "grpc")
<1>1. /\ step = "driverUp" /\ case \in Cases /\ Found(SourceKind, "source")
      /\ clients = Connected({"destination"})
  BY NobodyConnected DEF ReaderInit, WiringInv
<1>2. store \in {{}, Towards("source")}
  <2>1. store = IF SourceKind = "legacy" THEN Endpoint("tcpPort", "legacy", "source")
                ELSE Endpoint("connectionString", "next", "source")
    BY <1>1, ReaderReaches
  <2>2. SourceKind \in {"legacy", "next"}
    BY DEF SourceKind
  <2> HIDE DEF store
  <2> QED
    BY <2>1, <2>2 DEF Towards, Endpoint
<1>3. UNCHANGED <<case, env, SourceKind, DestinationKind>>
  BY DEF ReaderInit, SourceKind, DestinationKind
<1>4. \/ Exits
      \/ /\ store # {}
         /\ step' = "running"
         /\ clients' = [clients EXCEPT !["source"] = store]
  BY DEF ReaderInit
<1> HIDE DEF store
<1>5. CASE Exits
  BY <1>1, <1>3, <1>5, NobodyConnected DEF WiringInv, Exits, NoClients, Connected
<1>6. CASE store # {} /\ step' = "running" /\ clients' = [clients EXCEPT !["source"] = store]
  <2>1. clients' = [side \in Sides |-> IF side = "source" THEN Towards("source")
                                                          ELSE Towards("destination")]
    BY <1>1, <1>2, <1>6, SidesConnect
  <2>2. clients' = Connected(Sides)'
    BY <2>1, <1>3 DEF Connected, Towards, Sides
  <2> QED
    BY <1>1, <1>3, <1>6, <2>2, NobodyConnected DEF WiringInv, Found, UpTo
<1> QED BY <1>4, <1>5, <1>6

LEMMA WiringInvAlways == WiringSpec => []WiringInv
<1>1. WiringInit => WiringInv
  BY NobodyConnected DEF WiringInit, WiringInv
<1>2. ASSUME WiringInv, [WiringNext]_wiringVars PROVE WiringInv'
  <2>1. CASE Create
    <3>1. UNCHANGED <<case, env, clients, SourceKind, DestinationKind>>
      BY <2>1 DEF Create, SourceKind, DestinationKind
    <3>2. case \in Cases /\ Found(SourceKind, "source") /\ step = "stopped" /\ step' = "created"
      BY <1>2, <2>1, CreatedIsFound DEF WiringInv, Create, CanCreate
    <3> QED
      BY <1>2, <3>1, <3>2, NobodyConnected DEF WiringInv, Found, Connected, UpTo, Towards
  <2>2. CASE DriverInit
    BY <1>2, <2>2, DriverInitKeepsInv
  <2>3. CASE ReaderInit
    BY <1>2, <2>3, ReaderInitKeepsInv
  <2>4. CASE Stop
    BY <1>2, <2>4, NobodyConnected DEF Stop, Exits, WiringInv, NoClients, Connected
  <2>5. CASE Reconfigure
    <3>1. step = "stopped" /\ step' = step /\ clients' = clients /\ clients = NoClients
      BY <1>2, <2>5, NobodyConnected DEF Reconfigure, WiringInv
    <3>2. case' \in Cases \cup {NoCase} /\ env' \in SUBSET EnvVariables
      BY <1>2, <2>5 DEF Reconfigure, WiringInv
    <3> QED
      BY <3>1, <3>2, NobodyConnected DEF WiringInv, NoClients, Connected
  <2>6. CASE UNCHANGED wiringVars
    BY <1>2, <2>6
    DEF wiringVars, WiringInv, Found, Connected, Towards, UpTo, SourceKind, DestinationKind
  <2> QED
    BY <1>2, <2>1, <2>2, <2>3, <2>4, <2>5, <2>6 DEF WiringNext
<1> QED
  BY <1>1, <1>2, PTL DEF WiringSpec

(* Each side is connected to one store or none, to one when the process    *)
(* runs.                                                                   *)
THEOREM WiringTypeCorrect == WiringSpec => []WiringTypeOK
<1>1. WiringInv => WiringTypeOK
  <2> SUFFICES ASSUME WiringInv PROVE WiringTypeOK
    OBVIOUS
  <2>1. SourceKind \in Kinds /\ DestinationKind \in Kinds
    BY DEF SourceKind, DestinationKind, Kinds
  <2>2. \A side \in Sides : Towards(side) \in {{s} : s \in Stores} /\ Towards(side) # {}
    BY <2>1 DEF Towards, Sides, Stores
  <2>3. clients \in [Sides -> {{}} \cup {{s} : s \in Stores}]
    BY <2>2 DEF WiringInv, Connected
  <2>4. step = "running" => \A side \in Sides : clients[side] # {}
    BY <2>2, NobodyConnected DEF WiringInv, Connected
  <2> QED
    BY <2>3, <2>4 DEF WiringInv, WiringTypeOK
<1> QED
  BY <1>1, WiringInvAlways, PTL

(* The process reads and writes where its CASE says, with that store's     *)
(* credentials, and never reads what it writes: whatever the environment   *)
(* holds, and although every module sees the driver's providers.           *)
THEOREM StoresAreRight == WiringSpec => []RightStores
<1>1. WiringInv => RightStores
  <2> SUFFICES ASSUME WiringInv, step = "running" PROVE RightStores
    BY DEF RightStores
  <2>1. case \in Cases /\ clients = Connected(Sides)
    BY NobodyConnected DEF WiringInv
  <2>2. clients = [source |-> {<<SourceKind, "source">>},
                   destination |-> {<<DestinationKind, "destination">>}]
    BY <2>1 DEF Connected, Towards, Sides
  <2>3. /\ Provider("driver", "credentials") = "destination"
        /\ Provider("reader", "configuration") = "source"
    BY OwnTokenIsNearest, DriverTokens, ReaderTokens, AllProviders DEF Modules
  <2>4. /\ Configuration["source"].credentials = <<SourceKind, "source">>
        /\ Configuration["destination"].credentials = <<DestinationKind, "destination">>
    BY <2>1, CaseNamesStores, StoreFields
  <2> QED
    BY <2>2, <2>3, <2>4 DEF RightStores
<1> QED
  BY <1>1, WiringInvAlways, PTL

-----------------------------------------------------------------------------
(* A module sees its own tokens, the reader's those of the driver too, and *)
(* each the safety net.                                                    *)
LEMMA SeenTokens ==
  /\ \A token \in DOMAIN ReaderProviders \cup DOMAIN DriverProviders \cup {"safetyNet"} :
       Visible("reader", token) # {}
  /\ \A token \in DOMAIN DriverProviders \cup {"safetyNet"} :
       Visible("driver", token) # {}
<1>1. /\ DOMAIN Scope["reader"] = 1..3
      /\ Scope["reader"][1] = "reader"
      /\ Scope["reader"][2] = "driver"
      /\ Scope["reader"][3] = "safetyNet"
      /\ DOMAIN Scope["driver"] = 1..2
      /\ Scope["driver"][1] = "driver"
      /\ Scope["driver"][2] = "safetyNet"
  BY DEF Scope
<1>2. "safetyNet" \in DOMAIN Providers["safetyNet"]
  BY AllProviders
<1> QED
  BY <1>1, <1>2, AllProviders DEF Visible

(* Whatever the case, Nest finds what every constructor asks for.          *)
LEMMA AlwaysResolvable == Resolvable
<1> USE DEF Injected
<1>1. ASSUME NEW token \in DOMAIN ReaderProviders,
             ReaderProviders[token] \in DOMAIN Injected,
             NEW needed \in Injected[ReaderProviders[token]]
      PROVE  Visible("reader", needed) # {}
  <2>1. CASE LegacyReader
    <3>1. ReaderProviders[token] \in {"HttpReader", "EventHandler", "LegacyValidator",
                                      "TcpInitializer", "HttpInitializer"}
      BY <1>1, <2>1 DEF ReaderProviders, LegacyReaderProviders, Joined
    <3>2. needed \in {"configuration", "subscriptions", "handler", "http", "tcp", "guard",
                      "validator", "driver", "safetyNet"}
      BY <1>1, <3>1
    <3> QED
      BY <2>1, <3>2, SeenTokens, ReaderTokens, DriverTokens
  <2>2. CASE ~LegacyReader
    <3>1. ReaderProviders[token] \in {"GrpcReader", "EventHandler", "NextValidator",
                                      "GrpcInitializer"}
      BY <1>1, <2>2 DEF ReaderProviders, NextReaderProviders, Joined
    <3>2. needed \in {"configuration", "subscriptions", "handler", "grpc", "guard",
                      "validator", "driver", "safetyNet"}
      BY <1>1, <3>1
    <3> QED
      BY <2>2, <3>2, SeenTokens, ReaderTokens, DriverTokens
  <2> QED BY <2>1, <2>2
<1>2. ASSUME NEW token \in DOMAIN DriverProviders,
             DriverProviders[token] \in DOMAIN Injected,
             NEW needed \in Injected[DriverProviders[token]]
      PROVE  Visible("driver", needed) # {}
  <2>1. CASE LegacyDriver
    <3>1. DriverProviders[token] \in {"HttpDriver", "TcpInitializer"}
      BY <1>2, <2>1 DEF DriverProviders, LegacyDriverProviders
    <3>2. needed \in {"configuration", "tcp", "credentials", "safetyNet", "guard"}
      BY <1>2, <3>1
    <3> QED
      BY <2>1, <3>2, SeenTokens, DriverTokens
  <2>2. CASE ~LegacyDriver
    <3>1. DriverProviders[token] \in {"GrpcDriver", "GrpcInitializer"}
      BY <1>2, <2>2 DEF DriverProviders, NextDriverProviders
    <3>2. needed \in {"configuration", "grpc", "credentials", "safetyNet", "guard"}
      BY <1>2, <3>1
    <3> QED
      BY <2>2, <3>2, SeenTokens, DriverTokens
  <2> QED BY <2>1, <2>2
<1>3. \A token \in DOMAIN Providers["safetyNet"] :
        Providers["safetyNet"][token] \notin DOMAIN Injected
  BY AllProviders
<1> QED
  BY <1>1, <1>2, <1>3, AllProviders DEF Resolvable, Modules

(* With a complete environment the start goes on at each step.             *)
LEMMA CompleteIsFound ==
  ASSUME WiringInv, Complete
  PROVE  case \in Cases /\ Found(SourceKind, "source")
  BY DEF WiringInv, Complete, Found

LEMMA CompleteCanCreate ==
  ASSUME WiringInv, Complete
  PROVE  CanCreate
<1>1. Provider("reader", "subscriptions") = ReaderProviders["subscriptions"]
  BY OwnTokenIsNearest, ReaderTokens, AllProviders DEF Modules
<1> QED
  BY <1>1, CompleteIsFound, AlwaysResolvable, ReaderReaches, ReaderTokens, CaseNamesStores
  DEF CanCreate, Cases, NoCase

LEMMA CompleteDriverInit ==
  ASSUME WiringInv, Complete, DriverInit
  PROVE  step' = "driverUp"
<1>1. Reached("driver", IF LegacyDriver THEN "tcp" ELSE "grpc") # {}
  BY CompleteIsFound, DriverReaches, EndpointIsOfItsStore DEF Complete
<1> QED
  BY <1>1 DEF DriverInit

LEMMA CompleteReaderInit ==
  ASSUME WiringInv, Complete, ReaderInit
  PROVE  step' = "running"
<1>1. Reached("reader", IF LegacyReader THEN "tcp" ELSE "grpc") # {}
  BY CompleteIsFound, ReaderReaches, EndpointIsOfItsStore DEF Complete
<1>2. LegacyReader => Reached("reader", "http") # {}
  BY CompleteIsFound, ReaderReaches, EndpointIsOfItsStore DEF Complete
<1> QED
  BY <1>1, <1>2 DEF ReaderInit

(* The one thing about the fairness of WiringSpec that the provers cannot  *)
(* derive: a step can be taken when its guards hold.                       *)
StartCanGoOn ==
  /\ step = "stopped" /\ CanCreate => ENABLED <<Create>>_wiringVars
  /\ step = "created" => ENABLED <<DriverInit>>_wiringVars
  /\ step = "driverUp" => ENABLED <<ReaderInit>>_wiringVars

(* Once the environment is complete the process comes up, again and again: *)
(* each of the three steps is tried infinitely often until it is the next  *)
(* one's turn, and with a complete environment none of them throws.        *)
THEOREM CompleteEnvironmentComesUp ==
  WiringSpec /\ []StartCanGoOn => CompleteComesUp
<1>1. WiringInv /\ Complete /\ StartCanGoOn /\ step = "stopped" => ENABLED <<Create>>_wiringVars
  BY CompleteCanCreate DEF StartCanGoOn
<1>2. StartCanGoOn /\ step = "created" => ENABLED <<DriverInit>>_wiringVars
  BY DEF StartCanGoOn
<1>3. StartCanGoOn /\ step = "driverUp" => ENABLED <<ReaderInit>>_wiringVars
  BY DEF StartCanGoOn
<1>4. <<Create>>_wiringVars => (step = "created")'
  BY DEF Create
<1>5. WiringInv /\ Complete /\ <<DriverInit>>_wiringVars => (step = "driverUp")'
  BY CompleteDriverInit
<1>6. WiringInv /\ Complete /\ <<ReaderInit>>_wiringVars => (step = "running")'
  BY CompleteReaderInit
<1>7. WiringInv => step = "stopped" \/ step = "created" \/ step = "driverUp" \/ step = "running"
  BY DEF WiringInv
<1> QED
  BY <1>1, <1>2, <1>3, <1>4, <1>5, <1>6, <1>7, WiringInvAlways, PTL
  DEF WiringSpec, CompleteComesUp
=============================================================================

------------------------------- MODULE Wiring -------------------------------
(***************************************************************************)
(* From the environment of the example application to the two clients of   *)
(* the process: the configuration the CASE selects, the providers the      *)
(* reader and driver modules register for it, which provider Nest injects  *)
(* where, and the store each side is connected to in the end.              *)
(*                                                                         *)
(* Both modules register the same tokens, and the driver module exports    *)
(* all of its own: a token the reader module did not register would be     *)
(* taken from the driver's without a word.                                 *)
(*                                                                         *)
(* An operator sets and unsets variables between two starts.               *)
(***************************************************************************)
EXTENDS Naturals

Sides == {"source", "destination"}

Kinds == {"legacy", "next"}

Stores == Kinds \X Sides

(* The variables without a default that a connection needs. Hosts default  *)
(* to localhost; a port that is not set becomes NaN.                       *)
EnvVariables ==
  ({"tcpPort", "httpPort"} \X {"legacy"} \X Sides)
    \cup ({"connectionString"} \X {"next"} \X Sides)

Cases == {"LEGLEG", "LEGNEXT", "NEXTLEG", "NEXTNEXT"}

NoCase == "none"

VARIABLES
  case,     \* CASE, or NoCase if it names no configuration
  env,      \* the variables that are set
  step,     \* what the process has come to
  clients   \* the store each side is connected to, a set of none or one

wiringVars == <<case, env, step, clients>>

NoClients == [side \in Sides |-> {}]

-----------------------------------------------------------------------------
(* An endpoint the environment gives, as a set: empty if it is undefined,  *)
(* or cannot be reached because its port is not a number.                  *)
Endpoint(variable, kind, side) ==
  IF <<variable, kind, side>> \in env THEN {<<kind, side>>} ELSE {}

LegacyStore(side) ==
  [tcp |-> Endpoint("tcpPort", "legacy", side),
   http |-> Endpoint("httpPort", "legacy", side),
   connectionString |-> {},
   credentials |-> <<"legacy", side>>]

NextStore(side) ==
  [tcp |-> {},
   http |-> {},
   connectionString |-> Endpoint("connectionString", "next", side),
   credentials |-> <<"next", side>>]

legSrcLegDestConfiguration ==
  [source |-> LegacyStore("source"),
   destination |-> LegacyStore("destination"),
   subscriptions |-> "eventStoreBusConfig"]

(* Mutant: one store's settings are taken from the other side's variables. *)
LegSrcNextDestFromSource ==
  [source |-> LegacyStore("source"),
   destination |-> NextStore("source"),
   subscriptions |-> "eventStoreBusConfig"]

legSrcNextDestConfiguration ==
  [source |-> LegacyStore("source"),
   destination |-> NextStore("destination"),
   subscriptions |-> "eventStoreBusConfig"]

nextSrcLegDestConfiguration ==
  [source |-> NextStore("source"),
   destination |-> LegacyStore("destination"),
   subscriptions |-> "eventStoreSubsystems"]

nextSrcNextDestConfiguration ==
  [source |-> NextStore("source"),
   destination |-> NextStore("destination"),
   subscriptions |-> "eventStoreSubsystems"]

(* Mutant: two of the four configurations are taken for each other.        *)
ConfigurationSwapped ==
  CASE case = "LEGLEG" -> legSrcLegDestConfiguration
    [] case = "LEGNEXT" -> nextSrcLegDestConfiguration
    [] case = "NEXTLEG" -> legSrcNextDestConfiguration
    [] case = "NEXTNEXT" -> nextSrcNextDestConfiguration

(* The configuration the switch of usecase.module.ts selects.              *)
Configuration ==
  CASE case = "LEGLEG" -> legSrcLegDestConfiguration
    [] case = "LEGNEXT" -> legSrcNextDestConfiguration
    [] case = "NEXTLEG" -> nextSrcLegDestConfiguration
    [] case = "NEXTNEXT" -> nextSrcNextDestConfiguration

IsLegacyConf(configuration) == configuration.connectionString = {}

LegacyReader == IsLegacyConf(Configuration.source)
LegacyDriver == IsLegacyConf(Configuration.destination)

-----------------------------------------------------------------------------
(* The providers, token by token: a class, or the name of a value. What    *)
(* does not depend on the configuration and depends on nothing (logger,    *)
(* formatter, allowed events, the client's constructor) is left out.       *)
LegacyReaderProviders ==
  [reader |-> "HttpReader",
   subscriptions |-> "eventStoreBusConfig",
   validator |-> "LegacyValidator",
   tcp |-> "TcpInitializer",
   http |-> "HttpInitializer",
   guard |-> "LegacyGuard"]

NextReaderProviders ==
  [credentials |-> "source",
   reader |-> "GrpcReader",
   grpc |-> "GrpcInitializer",
   subscriptions |-> "eventStoreSubsystems",
   validator |-> "NextValidator",
   guard |-> "NextGuard"]

(* Two lists of providers for different tokens, put together.              *)
Joined(these, those) ==
  [t \in DOMAIN these \cup DOMAIN those |-> IF t \in DOMAIN these THEN these[t] ELSE those[t]]

(* Mutant: the reader module forgets CONNECTION_CONFIGURATION.             *)
ReaderProvidersUnconfigured ==
  Joined([handler |-> "EventHandler"],
         IF LegacyReader THEN LegacyReaderProviders ELSE NextReaderProviders)

ReaderProviders ==
  Joined([configuration |-> "source", handler |-> "EventHandler"],
         IF LegacyReader THEN LegacyReaderProviders ELSE NextReaderProviders)

LegacyDriverProviders ==
  [driver |-> "HttpDriver",
   credentials |-> "destination",
   configuration |-> "destination",
   tcp |-> "TcpInitializer",
   guard |-> "LegacyGuard"]

NextDriverProviders ==
  [configuration |-> "destination",
   driver |-> "GrpcDriver",
   credentials |-> "destination",
   grpc |-> "GrpcInitializer",
   guard |-> "NextGuard"]

DriverProviders == IF LegacyDriver THEN LegacyDriverProviders ELSE NextDriverProviders

Providers ==
  [reader |-> ReaderProviders,
   driver |-> DriverProviders,
   safetyNet |-> [safetyNet |-> "SafetyNet"]]

(* What the constructors ask for.                                          *)
Injected ==
  [HttpReader |-> {"configuration", "subscriptions", "handler", "http", "tcp"},
   GrpcReader |-> {"configuration", "subscriptions", "handler", "grpc", "guard"},
   EventHandler |-> {"validator", "driver"},
   LegacyValidator |-> {"safetyNet"},
   NextValidator |-> {"safetyNet"},
   HttpDriver |-> {"configuration", "tcp", "credentials", "safetyNet"},
   GrpcDriver |-> {"configuration", "grpc", "credentials", "safetyNet"},
   TcpInitializer |-> {"configuration", "guard"},
   GrpcInitializer |-> {"configuration", "guard"},
   HttpInitializer |-> {"configuration"}]

(* The modules a module sees: itself, then what it imports, exports of     *)
(* exports included.                                                       *)
Scope == [reader |-> <<"reader", "driver", "safetyNet">>,
          driver |-> <<"driver", "safetyNet">>,
          safetyNet |-> <<"safetyNet">>]

Visible(module, token) ==
  {i \in DOMAIN Scope[module] : token \in DOMAIN Providers[Scope[module][i]]}

(* The module whose provider Nest injects: the nearest one.                *)
Resolved(module, token) ==
  LET places == Visible(module, token)
  IN  Scope[module][CHOOSE i \in places : \A j \in places : i <= j]

Provider(module, token) == Providers[Resolved(module, token)][token]

(* Nest can build every provider of every module.                          *)
Resolvable ==
  \A module \in DOMAIN Providers : \A token \in DOMAIN Providers[module] :
    Providers[module][token] \in DOMAIN Injected =>
      \A needed \in Injected[Providers[module][token]] : Visible(module, needed) # {}

-----------------------------------------------------------------------------
(* The field of the configuration an initializer connects to, and the      *)
(* guard that can ping what it made.                                       *)
FieldOf == [tcp |-> "tcp", http |-> "http", grpc |-> "connectionString"]
GuardFor == [tcp |-> "LegacyGuard", grpc |-> "NextGuard"]

(* The store that the initializer a module is given connects to. The       *)
(* initializer has its configuration and guard from its own module.        *)
Reached(module, initializer) ==
  LET home == Resolved(module, initializer)
      side == Provider(home, "configuration")
  IN  IF initializer = "http" \/ Provider(home, "guard") = GuardFor[initializer]
        THEN Configuration[side][FieldOf[initializer]]
        ELSE {}

WiringTypeOK ==
  /\ case \in Cases \cup {NoCase}
  /\ env \in SUBSET EnvVariables
  /\ step \in {"stopped", "created", "driverUp", "running"}
  /\ clients \in [Sides -> {{}} \cup {{s} : s \in Stores}]
  /\ step = "running" => \A side \in Sides : clients[side] # {}

WiringInit ==
  /\ case \in Cases \cup {NoCase}
  /\ env \in SUBSET EnvVariables
  /\ step = "stopped"
  /\ clients = NoClients

Exits == step' = "stopped" /\ clients' = NoClients

(* The modules are evaluated and built. Without a CASE there is no         *)
(* configuration to read; a source without its connection string is taken  *)
(* for a legacy one, whose subscriptions are not there. Either throws.     *)
CanCreate ==
  /\ case # NoCase
  /\ Configuration.subscriptions = Provider("reader", "subscriptions")
  /\ Resolvable

Create ==
  /\ step = "stopped"
  /\ CanCreate
  /\ step' = "created"
  /\ UNCHANGED <<case, env, clients>>

(* onModuleInit of the driver.                                             *)
DriverInit ==
  /\ step = "created"
  /\ LET store == Reached("driver", IF LegacyDriver THEN "tcp" ELSE "grpc")
     IN IF store = {}
          THEN Exits
          ELSE step' = "driverUp" /\ clients' = [clients EXCEPT !["destination"] = store]
  /\ UNCHANGED <<case, env>>

(* Mutant: the legacy reader does without its check over HTTP, and with    *)
(* the client it has.                                                      *)
ReaderInitUnchecked ==
  /\ step = "driverUp"
  /\ step' = "running"
  /\ clients' = [clients EXCEPT !["source"] =
                   Reached("reader", IF LegacyReader THEN "tcp" ELSE "grpc")]
  /\ UNCHANGED <<case, env>>

(* onModuleInit of the reader: the legacy one checks its HTTP client       *)
(* before it connects over TCP.                                            *)
ReaderInit ==
  /\ step = "driverUp"
  /\ LET store == Reached("reader", IF LegacyReader THEN "tcp" ELSE "grpc")
     IN IF store = {} \/ (LegacyReader /\ Reached("reader", "http") = {})
          THEN Exits
          ELSE step' = "running" /\ clients' = [clients EXCEPT !["source"] = store]
  /\ UNCHANGED <<case, env>>

(* The operator stops the process, or it dies.                             *)
Stop ==
  /\ step # "stopped"
  /\ Exits
  /\ UNCHANGED <<case, env>>

(* The operator sets or unsets one variable, or turns to another CASE.     *)
Reconfigure ==
  /\ step = "stopped"
  /\ \/ \E v \in EnvVariables :
          /\ env' = IF v \in env THEN env \ {v} ELSE env \cup {v}
          /\ UNCHANGED case
     \/ case' \in Cases \cup {NoCase} /\ UNCHANGED env
  /\ UNCHANGED <<step, clients>>

WiringNext == Create \/ DriverInit \/ ReaderInit \/ Stop \/ Reconfigure

(* The process is started again and again, and its start goes on unless    *)
(* the operator or its own death stops it every time.                      *)
WiringSpec ==
  /\ WiringInit
  /\ [][WiringNext]_wiringVars
  /\ SF_wiringVars(Create)
  /\ SF_wiringVars(DriverInit)
  /\ SF_wiringVars(ReaderInit)

-----------------------------------------------------------------------------
(* The kinds of store that the name of a CASE stands for.                 *)
SourceKind == IF case \in {"LEGLEG", "LEGNEXT"} THEN "legacy" ELSE "next"
DestinationKind == IF case \in {"LEGLEG", "NEXTLEG"} THEN "legacy" ELSE "next"

(* A running process reads from the source of its CASE and writes to the   *)
(* destination of its CASE, with that store's credentials, whatever is     *)
(* missing from the environment and in whatever order it was given. Above  *)
(* all it never reads what it writes.                                      *)
RightStores ==
  step = "running" =>
    /\ clients = [source |-> {<<SourceKind, "source">>},
                  destination |-> {<<DestinationKind, "destination">>}]
    /\ Configuration[Provider("driver", "credentials")].credentials \in clients["destination"]
    /\ Configuration[Provider("reader", "configuration")].credentials \in clients["source"]

(* What the example's README has one set for each case: the endpoints of   *)
(* its two stores. The HTTP port of a legacy destination is not needed.    *)
Complete ==
  /\ case # NoCase
  /\ IF SourceKind = "legacy"
       THEN {<<"tcpPort", "legacy", "source">>, <<"httpPort", "legacy", "source">>} \subseteq env
       ELSE <<"connectionString", "next", "source">> \in env
  /\ IF DestinationKind = "legacy"
       THEN <<"tcpPort", "legacy", "destination">> \in env
       ELSE <<"connectionString", "next", "destination">> \in env

(* Once the environment is complete for the CASE the process comes up, now *)
(* and after every stop, also when a connection string of another case is  *)
(* set beside it.                                                          *)
CompleteComesUp == <>[]Complete => []<>(step = "running")
=============================================================================

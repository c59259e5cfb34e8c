----------------------------- MODULE SafetyNet -----------------------------
(***************************************************************************)
(* The hooks the drivers and the validators call when a write or a         *)
(* validation fails. The default strategy kills the process when an event  *)
(* cannot be written; a custom strategy is any class of the application:   *)
(* the one of the example application does nothing.                        *)
(***************************************************************************)
EXTENDS Events

CONSTANT KillsProcess   \* TRUE for DefaultSafetyNetService

ASSUME SafetyNetAssumption == KillsProcess \in BOOLEAN

VARIABLES
  running,  \* the process is alive
  alerted,  \* history: events cannotWriteEventHook was ever called for
  reported  \* history: events invalidEventHook was ever called for

netVars == <<running, alerted, reported>>

NetTypeOK ==
  /\ running \in BOOLEAN
  /\ alerted \in SUBSET Events
  /\ reported \in SUBSET Events

NetInit ==
  /\ running = TRUE
  /\ alerted = {}
  /\ reported = {}

(* A default strategy that only logs the failure.                          *)
CannotWriteEventHookNoExit(h) ==
  /\ alerted' = alerted \cup {EventOf(h)}
  /\ UNCHANGED running

CannotWriteEventHook(h) ==
  /\ alerted' = alerted \cup {EventOf(h)}
  /\ running' = (running /\ ~KillsProcess)

(* The default strategy does nothing, the example's logs.                  *)
InvalidEventHook(h) == reported' = reported \cup {EventOf(h)}
=============================================================================

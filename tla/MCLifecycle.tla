---------------------------- MODULE MCLifecycle -----------------------------
(* Lifecycle on small streams.                                             *)
EXTENDS Lifecycle

ValidValid == <<"valid", "valid">>
UnreadableValid == <<"unreadable", "valid">>
=============================================================================

---------------------------- MODULE ReliableCopy ----------------------------
(***************************************************************************)
(* What the interconnect promises to its user: every valid event of the    *)
(* source is in the destination before the source lets it go. An event may *)
(* be copied long before it is released, it may be abandoned after it was  *)
(* copied, and an event that is not valid is released without a copy.      *)
(***************************************************************************)
EXTENDS Events

VARIABLES
  copied,    \* events in the destination
  released,  \* events the source will not send again
  abandoned  \* events the source set aside for an operator

copyVars == <<copied, released, abandoned>>

CopyInit ==
  /\ copied = {}
  /\ released = {}
  /\ abandoned = {}

Copy(e) ==
  /\ e \in ValidEvents \ copied
  /\ copied' = copied \cup {e}
  /\ UNCHANGED <<released, abandoned>>

Release(e) ==
  /\ e \notin released \cup abandoned
  /\ e \in ValidEvents => e \in copied
  /\ released' = released \cup {e}
  /\ UNCHANGED <<copied, abandoned>>

Abandon(e) ==
  /\ e \notin released \cup abandoned
  /\ abandoned' = abandoned \cup {e}
  /\ UNCHANGED <<copied, released>>

CopyNext == \E e \in Events : Copy(e) \/ Release(e) \/ Abandon(e)

CopySpec == CopyInit /\ [][CopyNext]_copyVars
=============================================================================

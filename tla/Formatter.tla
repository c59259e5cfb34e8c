----------------------------- MODULE Formatter ------------------------------
(***************************************************************************)
(* What a copy carries of its event. The formatter of the reader writes    *)
(* the stream, the id and the type over the event's own metadata, and the  *)
(* driver appends with what it finds in that metadata. A copy may be the   *)
(* source of a next interconnect, of either kind: hops follow each other.  *)
(*                                                                         *)
(* Data is parsed and written again as JSON; it is left out.               *)
(***************************************************************************)
EXTENDS Naturals

CONSTANTS
  Values,      \* values of a field
  UserFields,  \* fields of the metadata the interconnect knows nothing of
  Missing,     \* metadata that is empty or cannot be parsed
  MaxHops      \* bound on the hops of one event

Identity == {"eventStreamId", "eventId", "eventType"}

MetadataFields == Identity \cup UserFields

(* Objects with some of the fields; users may give the reserved ones too.  *)
Objects == UNION {[S -> Values] : S \in SUBSET MetadataFields}

ASSUME FormatterAssumption ==
  /\ UserFields \cap Identity = {}
  /\ Missing \notin Objects
  /\ MaxHops \in Nat

StoredEvents == [envelope : [Identity -> Values], metadata : Objects \cup {Missing}]

VARIABLES
  stored,    \* the event, in the store it has come to
  original,  \* history: the event in its first store
  hops

formatterVars == <<stored, original, hops>>

(* { ...under, ...over }                                                   *)
Spread(over, under) ==
  [f \in DOMAIN over \cup DOMAIN under |-> IF f \in DOMAIN over THEN over[f] ELSE under[f]]

NoMetadata == [f \in {} |-> 0]

(* The legacy formatter parses the metadata, and takes an empty object if  *)
(* it cannot; the v21 one spreads metadata that may be undefined.          *)
MetadataOf(event) == IF event.metadata = Missing THEN NoMetadata ELSE event.metadata

(* Mutant: the event's own metadata is spread last.                        *)
FormatUserLast(event) == Spread(MetadataOf(event), event.envelope)

(* Mutant: the event's own metadata is left behind.                        *)
FormatIdentityOnly(event) == event.envelope

(* Mutant: fields the metadata gives already are swapped with each other.  *)
FormatMixed(event) ==
  Spread([event.envelope EXCEPT !["eventId"] = event.envelope["eventType"],
                                !["eventType"] = event.envelope["eventId"]],
         MetadataOf(event))

(* Mutant: the date the store gives the event is written along with it.    *)
FormatDated(event) ==
  Spread([f \in {"created"} |-> event.envelope["eventId"]],
         Spread(event.envelope, MetadataOf(event)))

(* What both formatters make of an event.                                  *)
Format(event) == Spread(event.envelope, MetadataOf(event))

(* Both drivers append to the stream, with the id and the type, that the   *)
(* formatted metadata names.                                               *)
Append(metadata) == [envelope |-> [f \in Identity |-> metadata[f]], metadata |-> metadata]

FormatterInit ==
  /\ stored \in StoredEvents
  /\ original = stored
  /\ hops = 0

Hop ==
  /\ hops < MaxHops
  /\ stored' = Append(Format(stored))
  /\ hops' = hops + 1
  /\ UNCHANGED original

FormatterSpec == FormatterInit /\ [][Hop]_formatterVars

-----------------------------------------------------------------------------
FormatterTypeOK ==
  /\ stored \in StoredEvents
  /\ original \in StoredEvents
  /\ hops \in 0..MaxHops

(* Over any number of hops the event keeps its stream, id and type, also   *)
(* if its own metadata says otherwise: the copy is appended to the same    *)
(* stream, and the id the destination finds duplicates by is the source's. *)
IdentityKept == stored.envelope = original.envelope

(* What the user wrote into the metadata is kept, and nothing is added but *)
(* the identity.                                                           *)
MetadataKept ==
  hops > 0 =>
    LET users == MetadataOf(original)
    IN  /\ DOMAIN stored.metadata = Identity \cup DOMAIN users
        /\ \A f \in DOMAIN users \ Identity : stored.metadata[f] = users[f]

(* A copy is copied on without a change: it does not matter through how    *)
(* many interconnects, or again through which, an event has come.          *)
CopyOfCopyIsSame == [][hops > 0 => stored' = stored]_formatterVars
=============================================================================

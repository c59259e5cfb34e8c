---------------------------- MODULE EventProofs ----------------------------
(***************************************************************************)
(* What happens to one event between the two stores, in two parts: the     *)
(* validator judges it, the formatter makes a copy of it.                  *)
(*                                                                         *)
(* The validator, for every set of types and of fields: when the data a    *)
(* class keeps from earlier events cannot matter, and where it comes from  *)
(* when it does. The formatter, for any fields, values and number of hops: *)
(* what a copy carries is a function of its event, so one fact about       *)
(* Format and Append does the work, that the identity they write is the    *)
(* envelope's.                                                             *)
(***************************************************************************)
EXTENDS Validator, Formatter, TLAPS

(* A field the event gives takes its value from the event.                 *)
LEMMA GivenFieldsWin ==
  ASSUME NEW existing, NEW data, NEW f \in Fields, data[f] # "absent"
  PROVE  Populate(existing, data)[f] = data[f]
  BY DEF Populate

(* Data that gives every field leaves nothing of what was there before.    *)
LEMMA FullDataAlone ==
  ASSUME NEW existing, NEW data, \A f \in Fields : data[f] # "absent"
  PROVE  Faulty(Populate(existing, data)) = Faulty(data)
  BY GivenFieldsWin DEF Faulty

(* A bad field is found whatever the class keeps.                          *)
LEMMA BadFieldFound ==
  ASSUME NEW existing, NEW data, NEW f \in Fields, data[f] = "bad"
  PROVE  Faulty(Populate(existing, data)) # {}
  BY GivenFieldsWin DEF Faulty

(* What a step leaves in `last'.                                           *)
LEMMA StepAnswers ==
  ASSUME ValidatorNext
  PROVE  \/ last' = [event |-> "none"]
         \/ \E ev \in EventsSeen :
              \/ last' = [event |-> ev, answer |-> "unreadable"]
              \/ last' = [event |-> ev, answer |-> "notAllowed"]
              \/ /\ Faulty(Populate(shared[ev.type], ev.data)) # {}
                 /\ last' = [event |-> ev, answer |-> "invalid"]
              \/ /\ Faulty(Populate(shared[ev.type], ev.data)) = {}
                 /\ last' = [event |-> ev, answer |-> "valid"]
  BY DEF ValidatorNext, Validate, ValidateUnreadable, ValidateNotAllowed, ValidateAllowed,
         Reload, Answer

(* Events that give every field are judged on their own data, and a bad    *)
(* field is never excused.                                                 *)
THEOREM FullEventsAreJudgedAlone == ValidatorSpec => []FullEventsJudgedAlone
<1> USE DEF FullEventsJudgedAlone, Judged
<1>1. ValidatorInit => FullEventsJudgedAlone
  BY DEF ValidatorInit
<1>2. ASSUME FullEventsJudgedAlone, [ValidatorNext]_validatorVars
      PROVE  FullEventsJudgedAlone'
  <2>1. CASE UNCHANGED validatorVars
    BY <1>2, <2>1 DEF validatorVars, OwnVerdict, Faulty
  <2>2. CASE last' = [event |-> "none"]
    BY <2>2
  <2>3. ASSUME NEW ev \in EventsSeen,
               Faulty(Populate(shared[ev.type], ev.data)) # {},
               last' = [event |-> ev, answer |-> "invalid"]
        PROVE  FullEventsJudgedAlone'
    BY <2>3, FullDataAlone DEF OwnVerdict
  <2>4. ASSUME NEW ev \in EventsSeen,
               Faulty(Populate(shared[ev.type], ev.data)) = {},
               last' = [event |-> ev, answer |-> "valid"]
        PROVE  FullEventsJudgedAlone'
    BY <2>4, FullDataAlone, BadFieldFound DEF OwnVerdict
  <2>5. ASSUME NEW ev \in EventsSeen, NEW answer \in {"unreadable", "notAllowed"},
               last' = [event |-> ev, answer |-> answer]
        PROVE  FullEventsJudgedAlone'
    BY <2>5
  <2> QED
    BY <1>2, <2>1, <2>2, <2>3, <2>4, <2>5, StepAnswers
<1> QED
  BY <1>1, <1>2, PTL DEF ValidatorSpec

-----------------------------------------------------------------------------
(* Why an answer can differ from the one the event's own data deserves.    *)
LEMMA DifferenceHasSource ==
  ASSUME NEW existing, NEW data, NEW seen,
         \A f \in Fields : existing[f] # "absent" => f \in seen,
         ~(Faulty(Populate(existing, data)) = {} <=> Faulty(data) = {})
  PROVE  \E f \in Fields : data[f] = "absent" /\ f \in seen
<1>1. \A f \in Fields :
        Populate(existing, data)[f] = IF data[f] = "absent" THEN existing[f] ELSE data[f]
  BY DEF Populate
<1>2. PICK f \in Fields : ~(f \in Faulty(Populate(existing, data)) <=> f \in Faulty(data))
  BY DEF Faulty
<1>3. data[f] = "absent" /\ existing[f] # "absent"
  BY <1>1, <1>2 DEF Faulty
<1> QED
  BY <1>3

(* WrongVerdictHasSource made inductive: what a class carries was given by *)
(* an event of its type.                                                   *)
SharedSeen ==
  /\ shared \in [Types -> Payloads]
  /\ given \in [Types -> SUBSET Fields]
  /\ \A t \in Types, f \in Fields : shared[t][f] # "absent" => f \in given[t]

SourceInv == SharedSeen /\ WrongVerdictHasSource

LEMMA AllowedKeepsShared ==
  ASSUME SharedSeen, NEW ev \in EventsSeen, ValidateAllowed(ev)
  PROVE  SharedSeen'
<1> DEFINE data == Populate(shared[ev.type], ev.data)
<1>1. ev.data \in Payloads /\ ev.type \in Types
  BY DEF EventsSeen, ValidateAllowed
<1>2. data \in Payloads
  BY <1>1 DEF Populate, Payloads, SharedSeen
<1>3. \A f \in Fields : data[f] # "absent" => f \in given[ev.type] \cup GivenBy(ev)
  BY <1>1 DEF Populate, SharedSeen, GivenBy
<1>4. /\ shared' = [shared EXCEPT ![ev.type] = data]
      /\ given' = [given EXCEPT ![ev.type] = @ \cup GivenBy(ev)]
  BY DEF ValidateAllowed, Saw
<1>5. GivenBy(ev) \subseteq Fields
  BY DEF GivenBy
<1> HIDE DEF data
<1> QED
  BY <1>1, <1>2, <1>3, <1>4, <1>5 DEF SharedSeen

LEMMA AllowedHasSource ==
  ASSUME SharedSeen, NEW ev \in EventsSeen, ValidateAllowed(ev)
  PROVE  WrongVerdictHasSource'
<1> DEFINE fine == Faulty(Populate(shared[ev.type], ev.data)) = {}
           answer == IF fine THEN "valid" ELSE "invalid"
<1>1. ev.type \in Types
  BY DEF ValidateAllowed
<1>2. last' = [event |-> ev, answer |-> answer]
  BY DEF ValidateAllowed, Answer
<1>3. given[ev.type] \subseteq given'[ev.type]
  BY <1>1 DEF ValidateAllowed, Saw, SharedSeen
<1>4. ASSUME answer # OwnVerdict(ev)
      PROVE  \E f \in Fields : ev.data[f] = "absent" /\ f \in given[ev.type]
  <2>1. ~(fine <=> Faulty(ev.data) = {})
    BY <1>4 DEF OwnVerdict
  <2>2. \A f \in Fields : shared[ev.type][f] # "absent" => f \in given[ev.type]
    BY <1>1 DEF SharedSeen
  <2> QED
    BY <2>1, <2>2, DifferenceHasSource
<1>5. OwnVerdict(ev)' = OwnVerdict(ev)
  BY DEF OwnVerdict, Faulty
<1> HIDE DEF answer
<1> QED
  BY <1>2, <1>3, <1>4, <1>5 DEF WrongVerdictHasSource, Judged

(* Only earlier events of the same type, seen by this process, can make    *)
(* the validator answer otherwise than the event's own data deserves.      *)
THEOREM WrongVerdictsHaveSource == ValidatorSpec => []WrongVerdictHasSource
<1>1. ValidatorInit => SourceInv
  BY DEF ValidatorInit, SourceInv, SharedSeen, WrongVerdictHasSource, Judged, Nothing, Payloads,
         Given
<1>2. ASSUME SourceInv, [ValidatorNext]_validatorVars PROVE SourceInv'
  <2> USE DEF SourceInv
  <2>1. ASSUME NEW ev \in EventsSeen, ValidateAllowed(ev) PROVE SourceInv'
    BY <1>2, <2>1, AllowedKeepsShared, AllowedHasSource
  <2>2. ASSUME NEW ev \in EventsSeen, ValidateUnreadable(ev) \/ ValidateNotAllowed(ev)
        PROVE  SourceInv'
    BY <1>2, <2>2
    DEF ValidateUnreadable, ValidateNotAllowed, Answer, SharedSeen, WrongVerdictHasSource, Judged
  <2>3. CASE Reload
    BY <2>3 DEF Reload, SharedSeen, WrongVerdictHasSource, Judged, Nothing, Payloads, Given
  <2>4. CASE UNCHANGED validatorVars
    BY <1>2, <2>4
    DEF validatorVars, SharedSeen, WrongVerdictHasSource, Judged, OwnVerdict, Faulty
  <2> QED
    BY <1>2, <2>1, <2>2, <2>3, <2>4 DEF ValidatorNext, Validate
<1>3. SourceInv => WrongVerdictHasSource
  BY DEF SourceInv
<1> QED
  BY <1>1, <1>2, <1>3, PTL DEF ValidatorSpec

-----------------------------------------------------------------------------
(* Types: a class carries a value or nothing for each declared field, and  *)
(* every answer is one of the four.                                        *)
THEOREM ValidatorTypeCorrect == ValidatorSpec => []ValidatorTypeOK
<1>1. ValidatorInit => ValidatorTypeOK
  BY DEF ValidatorInit, ValidatorTypeOK, Nothing, Payloads, Given
<1>2. ASSUME ValidatorTypeOK, [ValidatorNext]_validatorVars
      PROVE  ValidatorTypeOK'
  <2>1. CASE UNCHANGED validatorVars
    BY <1>2, <2>1 DEF validatorVars, ValidatorTypeOK
  <2>2. CASE Reload
    BY <2>2 DEF Reload, ValidatorTypeOK, Nothing, Payloads, Given
  <2>3. ASSUME NEW ev \in EventsSeen, Validate(ev) PROVE ValidatorTypeOK'
    <3>1. \E answer \in {"valid", "invalid", "notAllowed", "unreadable"} : Answer(ev, answer)
      BY <2>3, Zenon
      DEF Validate, ValidateUnreadable, ValidateNotAllowed, ValidateAllowed
    <3>2. last' \in [event: EventsSeen,
                     answer: {"valid", "invalid", "notAllowed", "unreadable"}]
      BY <3>1 DEF Answer
    <3>3. shared' \in [Types -> Payloads] /\ given' \in [Types -> SUBSET Fields]
      <4>1. CASE ValidateAllowed(ev)
        <5>1. Populate(shared[ev.type], ev.data) \in Payloads
          BY <1>2, <4>1
          DEF ValidateAllowed, ValidatorTypeOK, EventsSeen, Populate, Payloads
        <5> QED
          BY <1>2, <4>1, <5>1 DEF ValidateAllowed, ValidatorTypeOK, Saw, GivenBy
      <4>2. CASE ValidateUnreadable(ev) \/ ValidateNotAllowed(ev)
        BY <1>2, <4>2 DEF ValidateUnreadable, ValidateNotAllowed, ValidatorTypeOK
      <4> QED BY <2>3, <4>1, <4>2 DEF Validate
    <3> QED BY <3>2, <3>3, Zenon DEF ValidatorTypeOK
  <2> QED
    BY <1>2, <2>1, <2>2, <2>3 DEF ValidatorNext
<1> QED
  BY <1>1, <1>2, PTL DEF ValidatorSpec

-----------------------------------------------------------------------------
(* The objects of any domain of known fields, formatted, are objects.      *)
LEMMA FormatIsObject ==
  ASSUME NEW event \in StoredEvents
  PROVE  /\ Format(event) \in Objects
         /\ DOMAIN Format(event) = Identity \cup DOMAIN MetadataOf(event)
         /\ \A f \in Identity : Format(event)[f] = event.envelope[f]
         /\ \A f \in DOMAIN MetadataOf(event) \ Identity :
              Format(event)[f] = MetadataOf(event)[f]
<1>1. event.envelope \in [Identity -> Values]
  BY DEF StoredEvents
<1>2. PICK S \in SUBSET MetadataFields : MetadataOf(event) \in [S -> Values]
  <2>1. CASE event.metadata = Missing
    <3>1. NoMetadata \in [{} -> Values]
      BY DEF NoMetadata
    <3> QED BY <2>1, <3>1 DEF MetadataOf
  <2>2. CASE event.metadata # Missing
    BY <2>2 DEF MetadataOf, StoredEvents, Objects
  <2> QED BY <2>1, <2>2
<1> DEFINE over == event.envelope
           under == MetadataOf(event)
<1>3. Format(event) = [f \in Identity \cup S |-> IF f \in Identity THEN over[f] ELSE under[f]]
  BY <1>1, <1>2 DEF Format, Spread
<1> HIDE DEF over, under
<1>4. over \in [Identity -> Values] /\ under \in [S -> Values]
  BY <1>1, <1>2 DEF over, under
<1>5. Identity \cup S \in SUBSET MetadataFields
  BY DEF MetadataFields
<1>6. Format(event) \in [Identity \cup S -> Values]
  BY <1>3, <1>4
<1> QED
  BY <1>3, <1>4, <1>5, <1>6 DEF Objects, over, under

(* So the appended copy is an event with the envelope it came with.        *)
LEMMA AppendKeepsEnvelope ==
  ASSUME NEW event \in StoredEvents
  PROVE  /\ Append(Format(event)) \in StoredEvents
         /\ Append(Format(event)).envelope = event.envelope
         /\ Append(Format(event)).metadata = Format(event)
<1>1. Append(Format(event)).envelope = [f \in Identity |-> event.envelope[f]]
  BY FormatIsObject DEF Append
<1>2. event.envelope = [f \in Identity |-> event.envelope[f]]
  BY DEF StoredEvents
<1>3. event.envelope \in [Identity -> Values]
  BY DEF StoredEvents
<1> QED
  BY <1>1, <1>2, <1>3, FormatIsObject DEF Append, StoredEvents

-----------------------------------------------------------------------------
(* Before the first hop the event is the original; afterwards its metadata *)
(* is what the last hop wrote, which says the same as its envelope.        *)
Written ==
  /\ stored.metadata \in Objects
  /\ Identity \subseteq DOMAIN stored.metadata
  /\ \A f \in Identity : stored.metadata[f] = stored.envelope[f]

CopyInv ==
  /\ FormatterTypeOK
  /\ IF hops = 0 THEN stored = original ELSE Written
  /\ IdentityKept
  /\ MetadataKept

(* What a hop has written is written again by the next one.                *)
LEMMA WrittenIsFixed ==
  ASSUME stored \in StoredEvents, Written
  PROVE  Append(Format(stored)) = stored
<1>1. MetadataOf(stored) = stored.metadata
  BY FormatterAssumption DEF Written, MetadataOf
<1>2. PICK S \in SUBSET MetadataFields : stored.metadata \in [S -> Values]
  BY DEF Written, Objects
<1>3. DOMAIN Format(stored) = S
  BY <1>1, <1>2, FormatIsObject DEF Written
<1>4. \A f \in S : Format(stored)[f] = stored.metadata[f]
  BY <1>1, <1>2, FormatIsObject DEF Written
<1>5. Format(stored) \in [S -> Values]
  BY <1>3, FormatIsObject DEF Objects
<1>6. Format(stored) = stored.metadata
  BY <1>2, <1>4, <1>5
<1> QED
  BY <1>6, AppendKeepsEnvelope DEF StoredEvents

LEMMA CopyInvInductive ==
  /\ FormatterInit => CopyInv
  /\ CopyInv /\ [Hop]_formatterVars => CopyInv'
<1>1. FormatterInit => CopyInv
  BY FormatterAssumption
  DEF FormatterInit, CopyInv, FormatterTypeOK, IdentityKept, MetadataKept
<1>2. ASSUME CopyInv, Hop PROVE CopyInv'
  <2>1. stored \in StoredEvents /\ hops \in 0..MaxHops
    BY <1>2 DEF CopyInv, FormatterTypeOK
  <2>2. FormatterTypeOK' /\ hops' # 0
    BY <1>2, <2>1, AppendKeepsEnvelope, FormatterAssumption
    DEF Hop, CopyInv, FormatterTypeOK
  <2>3. IdentityKept'
    BY <1>2, <2>1, AppendKeepsEnvelope DEF Hop, CopyInv, IdentityKept
  <2>4. Written'
    BY <1>2, <2>1, AppendKeepsEnvelope, FormatIsObject DEF Hop, Written
  <2>5. MetadataKept'
    <3>1. CASE hops = 0
      BY <1>2, <2>1, <3>1, AppendKeepsEnvelope, FormatIsObject
      DEF Hop, CopyInv, MetadataKept
    <3>2. CASE hops # 0
      <4>1. stored' = stored
        BY <1>2, <2>1, <3>2, WrittenIsFixed DEF CopyInv, Hop
      <4>2. hops > 0
        BY <2>1, <3>2, FormatterAssumption
      <4> QED
        BY <1>2, <4>1, <4>2 DEF CopyInv, MetadataKept, Hop
    <3> QED BY <3>1, <3>2
  <2> QED
    BY <2>2, <2>3, <2>4, <2>5 DEF CopyInv
<1>3. ASSUME CopyInv, UNCHANGED formatterVars PROVE CopyInv'
  BY <1>3 DEF formatterVars, CopyInv, FormatterTypeOK, IdentityKept, MetadataKept, Written
<1> QED
  BY <1>1, <1>2, <1>3

(* What is stored stays an event with a full envelope and known fields.    *)
THEOREM FormatterTypeCorrect == FormatterSpec => []FormatterTypeOK
<1>1. CopyInv => FormatterTypeOK
  BY DEF CopyInv
<1> QED
  BY <1>1, CopyInvInductive, PTL DEF FormatterSpec

(* An event keeps its stream, its id and its type over any number of hops. *)
THEOREM FormattingKeepsIdentity == FormatterSpec => []IdentityKept
<1>1. CopyInv => IdentityKept
  BY DEF CopyInv
<1> QED
  BY <1>1, CopyInvInductive, PTL DEF FormatterSpec

(* What the user wrote into the metadata is kept, and nothing is added but *)
(* the identity.                                                           *)
THEOREM FormattingKeepsMetadata == FormatterSpec => []MetadataKept
<1>1. CopyInv => MetadataKept
  BY DEF CopyInv
<1> QED
  BY <1>1, CopyInvInductive, PTL DEF FormatterSpec

(* A copy is copied on without a change.                                   *)
THEOREM CopiesOfCopiesAreSame == FormatterSpec => CopyOfCopyIsSame
<1> DEFINE Same == hops > 0 => stored' = stored
<1>1. ASSUME CopyInv, [Hop]_formatterVars PROVE [Same]_formatterVars
  <2>1. CASE UNCHANGED formatterVars
    BY <2>1
  <2>2. ASSUME Hop, hops > 0 PROVE stored' = stored
    BY <1>1, <2>2, WrittenIsFixed, FormatterAssumption DEF CopyInv, FormatterTypeOK, Hop
  <2> QED BY <1>1, <2>1, <2>2
<1> QED
  BY <1>1, CopyInvInductive, PTL DEF FormatterSpec, CopyOfCopyIsSame
=============================================================================

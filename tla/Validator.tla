----------------------------- MODULE Validator -----------------------------
(***************************************************************************)
(* LegacyEventsValidatorService and NextEventsValidatorService, in the     *)
(* detail EventHandler leaves out: what an event is judged on.             *)
(*                                                                         *)
(* tryToInstantiateEvent makes an instance of the event's class and then   *)
(* calls plainToClassFromExist(<the class itself>, instance). The object   *)
(* that is populated, and whose `data' is validated, is therefore one per  *)
(* type and lives as long as the process. plainToClassFromExist "takes an  *)
(* existing object and populates it": a field the event gives replaces the *)
(* field of the object, a field it does not give is left as it was.        *)
(*                                                                         *)
(* An event is its type, and for each declared field whether it is given,  *)
(* and well or not. A required field must be given. A field here is a leaf *)
(* of the data: an object within the data (Nestor of the example) is       *)
(* populated in place as well, leaf by leaf, and is never replaced.        *)
(* The hook that is called for some answers is in EventHandler.            *)
(***************************************************************************)
CONSTANTS
  Types,     \* the types of allowedEvents
  Unknown,   \* a type that is not allowed
  Required,  \* declared fields every event must give
  Optional   \* declared fields an event may leave out (IsOptional)

ASSUME ValidatorAssumption ==
  /\ Unknown \notin Types
  /\ Required \cap Optional = {}

Fields == Required \cup Optional

Given == {"absent", "good", "bad"}

Payloads == [Fields -> Given]

(* "unreadable": JSON.parse throws, or the link leads nowhere.             *)
EventsSeen == [type: Types \cup {Unknown}, data: Payloads, readable: BOOLEAN]

VARIABLES
  shared,   \* the data each allowed class carries
  last,     \* the event validated last, with the answer it got
  given     \* history: fields this process saw in events of each type

validatorVars == <<shared, last, given>>

(* A field's verdict: what class-validator reports an error for.           *)
Faulty(data) ==
  {f \in Fields : data[f] = "bad" \/ (data[f] = "absent" /\ f \in Required)}

(* Mutant: only the first-time population is kept.                         *)
PopulateIfAbsent(existing, data) ==
  [f \in Fields |-> IF existing[f] = "absent" THEN data[f] ELSE existing[f]]

(* Mutant: the type is merged into the data as one more field.             *)
PopulateWithType(existing, data) ==
  [f \in Fields \cup {Unknown} |-> IF f = Unknown THEN "good" ELSE
     IF data[f] = "absent" THEN existing[f] ELSE data[f]]

(* plainToClassFromExist on the data of a class that carries `existing'.   *)
Populate(existing, data) ==
  [f \in Fields |-> IF data[f] = "absent" THEN existing[f] ELSE data[f]]

Nothing == [f \in Fields |-> "absent"]

ValidatorInit ==
  /\ shared = [t \in Types |-> Nothing]
  /\ last = [event |-> "none"]
  /\ given = [t \in Types |-> {}]

Answer(ev, answer) == last' = [event |-> ev, answer |-> answer]

(* The legacy validator reads the payload before any error handling.       *)
ValidateUnreadable(ev) ==
  /\ ~ev.readable
  /\ Answer(ev, "unreadable")
  /\ UNCHANGED <<shared, given>>

(* No class for the type: `new undefined' throws.                          *)
ValidateNotAllowed(ev) ==
  /\ ev.readable
  /\ ev.type \notin Types
  /\ Answer(ev, "notAllowed")
  /\ UNCHANGED <<shared, given>>

GivenBy(ev) == {f \in Fields : ev.data[f] # "absent"}

Saw(ev) == given' = [given EXCEPT ![ev.type] = @ \cup GivenBy(ev)]

(* Mutant: the classes inherit one data object.                            *)
ValidateAllowedOneObject(ev) ==
  /\ ev.readable
  /\ ev.type \in Types
  /\ LET data == Populate(shared[ev.type], ev.data)
     IN  /\ shared' = [t \in Types |-> data]
         /\ Answer(ev, IF Faulty(data) = {} THEN "valid" ELSE "invalid")
  /\ Saw(ev)

(* Populate the class's data and validate it.                              *)
ValidateAllowed(ev) ==
  /\ ev.readable
  /\ ev.type \in Types
  /\ LET data == Populate(shared[ev.type], ev.data)
     IN  /\ shared' = [shared EXCEPT ![ev.type] = data]
         /\ Answer(ev, IF Faulty(data) = {} THEN "valid" ELSE "invalid")
  /\ Saw(ev)

Validate(ev) ==
  \/ ValidateUnreadable(ev)
  \/ ValidateNotAllowed(ev)
  \/ ValidateAllowed(ev)

(* The process restarts: the classes are defined anew.                     *)
Reload ==
  /\ shared' = [t \in Types |-> Nothing]
  /\ last' = [event |-> "none"]
  /\ given' = [t \in Types |-> {}]

ValidatorNext == (\E ev \in EventsSeen : Validate(ev)) \/ Reload

ValidatorSpec == ValidatorInit /\ [][ValidatorNext]_validatorVars

-----------------------------------------------------------------------------
ValidatorTypeOK ==
  /\ shared \in [Types -> Payloads]
  /\ last \in {[event |-> "none"]}
       \cup [event: EventsSeen,
             answer: {"valid", "invalid", "notAllowed", "unreadable"}]
  /\ given \in [Types -> SUBSET Fields]

Judged == "answer" \in DOMAIN last

(* The validator decides on the event's own data.                          *)
OwnVerdict(ev) == IF Faulty(ev.data) = {} THEN "valid" ELSE "invalid"

(* An event that gives every declared field is judged on its own data, and *)
(* a field it gives badly is never excused, whatever was validated before. *)
FullEventsJudgedAlone ==
  Judged /\ last.answer \in {"valid", "invalid"} =>
    /\ (\A f \in Fields : last.event.data[f] # "absent")
         => last.answer = OwnVerdict(last.event)
    /\ (\E f \in Fields : last.event.data[f] = "bad")
         => last.answer = "invalid"

(* When the answer is not the one the event's own data deserves, fields    *)
(* this process saw in earlier events of the same type are the cause: a    *)
(* field another type gave, or one seen before the restart, changes none.  *)
WrongVerdictHasSource ==
  Judged /\ last.answer \in {"valid", "invalid"} /\ last.answer # OwnVerdict(last.event) =>
    \E f \in Fields : last.event.data[f] = "absent" /\ f \in given[last.event.type]

(* The README says events are written "after checking that the events are  *)
(* allowed and valid": the answer is about the event, not about the events *)
(* validated before it.                                                    *)
JudgedOnOwnData ==
  Judged /\ last.answer \in {"valid", "invalid"} =>
    last.answer = OwnVerdict(last.event)
=============================================================================

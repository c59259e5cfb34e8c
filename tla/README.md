# A verification of eventstore-interconnect

TLA+ modules that model the copying of events between two event stores by
`libs/eventstore-interconnect`, the TLC configurations that check them on small instances, and
theorems checked by TLAPS for every value of the constants. Paths below are relative to the
repository; `L/` stands for `libs/eventstore-interconnect/src/`.

## 1. The system

One Node.js process copies the events of some persistent subscriptions of a *source* event store
into a *destination* event store. Either store may be legacy (v5: TCP and HTTP) or v21 (gRPC). The
process persists nothing: what survives it is the state of the subscription groups in the source,
the content of the destination, and the requests that are on the network when it dies.

| Component | Code | State it keeps | Operations | Correct when |
|---|---|---|---|---|
| Legacy reader | `L/reader/services/http-reader` | none of its own; awaiting callbacks | assert group, connect, callback: `handle`, `fail`, `acknowledge` | it answers an event only when it is copied (or told the net); rejected events do not block |
| v21 reader | `L/reader/services/grpc-reader` | client | create/update group, subscribe, `data` callback: `onEvent`, `ack`, `nack` | it loses nothing but what it had in hand when it died |
| Event handler | `L/event-handler` | none | validate, format, write | nothing invalid is written |
| Validators | `L/validator/{legacy,next}` | the allowed classes, which carry data | instantiate, populate, class-validator, hook | an event is judged on its own data |
| Formatters | `L/formatter` | none | rename fields, keep id, type, stream, data | identity is kept |
| Drivers | `L/driver/services/{grpc,http}-driver` | client; per write a safety timer | `writeEvent` against the timeout | no write hangs unreported; no alarm after success |
| Safety net | `L/safety-net` | none | `cannotWriteEventHook`, `invalidEventHook` | the default ends the process |
| Connection guards | `L/connections-guards` | per ping two timers | ping, retry, kill | broken links detected in time, healthy ones left alone, pings never stop or pile up |
| Initializers | `L/connections-initializers` | clients | connect, first ping | connected before events come, to the store of their own side |
| Subscription settings | the upsert methods of the readers, `apps/example` | the groups on the source | assert, create, update, subscribe | a group is consumed as the running configuration says |
| Wiring | `L/reader/reader.module.ts`, `L/driver/driver.module.ts`, `L/helpers` | none | choose reader and driver | the choice follows the configuration; no side gets the other's connection |
| Bootstrap | `apps/example/src/main.ts` | none | start, exit 1 on failure | a restart recovers from a partial start |
| Logger, error classes, interfaces | `L/logger`, `L/**/errors`, `L/model` | none | none | not modelled: they change no state |

How they interact: the source's client library calls the reader's callback for each delivered
event; the reader calls the handler, the handler awaits the validator, then the formatter (a plain
call), then awaits the driver; validator and driver call the safety net; the driver awaits the
destination's client. The guards run beside all this on timers. The net and the guards end the
process with `process.exit(1)`; something outside starts it again.

What is hard: several callbacks await at once on one event loop; the server redelivers what is not
answered in time while the first handling is still at work; an append may be applied after the
driver gave up on it or after the process died; the safety timer races the answer; the kill timer
of a ping races retries and recoveries; a subscription may be dropped; a start may fail half way.
The hazards, each at its line with the properties that watch it, are listed in `PROJECT.json`.

## 2. The modules

An action is the code between two awaits: nothing else can run in between.

| Module | Models | Actions and the code they are |
|---|---|---|
| `Events` | events, verdicts, handlings | the k-th delivery of event e is the handling `<<e, k>>`; an event keeps its id through the formatters |
| `SafetyNet` | `SafetyNet` strategies | `CannotWriteEventHook`, `InvalidEventHook`; `KillsProcess` chooses the default strategy or a custom one that lives on; `alerted` and `reported` are the history of what each hook was called for |
| `Driver` | both drivers | `WriteEvent` (arm timer, request), `AppendOk`, `AppendError`, `SafetyTimeout`; `DestinationAppends`, `AppendRequestLost`; `WriteSpec` is the driver alone |
| `EventHandler` | `handle` | `Handle` up to the first await, `ValidationPassed`, `ValidationFailed`; with the validator's calls of the hook |
| `PersistentSubscription` | the source's group (external) | `Deliver`, `Settle`, `ServerSettles`, `MessageTimeout`, `TakeBack` |
| `ReaderProcess` | what both readers share | `Crash`, `Restart`, `SubscriptionDropped` and the steps of the surroundings |
| `HttpReader` | the legacy reader, composed with all of the above | one action per point at which the callback resumes |
| `GrpcReader` | the v21 reader, likewise | the same points, with the acknowledgement at receipt |
| `ReliableCopy` | abstract: what the interconnect promises | `Copy`, `Release`, `Abandon` |
| `Validator` | both validators, on what they judge | `ValidateAllowed`, `ValidateNotAllowed`, `ValidateUnreadable`, `Reload` |
| `ConnectionGuard` | both guards, with discrete time | `StartPing`, `Answered`, `Unavailable`, `Retry`, `Rejected`, `KillTimerFires`, `Tick` |
| `Startup` | the awaited steps of the start: initializers, `onModuleInit`, bootstrap | one action per awaited step, `Fail`, `StartAgain`; a library of steps for the next two |
| `SubscriptionSettings` | which configured value reaches `assert`, `create`, `update`, `connect` and `subscribe` | `AssertGroup`, `AssertThrows`, `ConnectGroup`, `CreateGroup`, `UpdateGroup`, `SubscribeGroups`, `Redeploy` |
| `Lifecycle` | `HttpReader` composed with `Startup` | `Handles`, `StartGoesOn`, `Subscribe`, `Die`, `StartAgain`, `ServerNotices` |
| `Wiring` | the four configurations and their environment, the provider lists of `ReaderModule` and `DriverModule`, Nest's choice of a provider | `Create`, `DriverInit`, `ReaderInit`, `Stop`, `Reconfigure` |
| `Formatter` | identity and metadata of a copy, over hops | `Format`, `Append`, `Hop` |
| `MC*` | constants of the runs | |
| `ReaderProofs` | theorems about the driver alone, lemmas about the operations that the two readers share | |
| `HttpReaderProofs`, `GrpcReaderProofs`, `LifecycleProofs` | theorems about each reader, and about the legacy one with its start | |
| `EventProofs` | theorems about what happens to one event: `Validator` and `Formatter` | |
| `StartupProofs`, `GuardProofs`, `WiringProofs` | theorems about `SubscriptionSettings` with its start, `ConnectionGuard`, `Wiring` | |

Definitions whose comment begins with "Mutant" are plausible bugs of the definition that follows.
No specification uses them: replacing the definition by its mutant must break the property that
`PROJECT.json` pairs it with, which shows that the property can fail.

### Points of translation worth knowing

* `HttpReader!Receive` sends `fail` and `acknowledge` together when `handle` rejects before its
  first await resolves; the `.catch` handler runs `fail` and the callback goes on to `acknowledge`
  (`http-reader.service.ts:87-95`). `fail(event, 3, ...)` is the skip action.
* `writeEvent` never rejects: its catch block calls the hook, and when the hook returns the legacy
  reader acknowledges. `WriteFailed` therefore acknowledges exactly when the process survives.
* `GrpcReader!AckThrows` is the catch block of the `data` callback. `onEvent` is async and catches
  everything, so only `ack` itself can throw there. An error thrown out of the callback ends the
  process.
* `Validator`: `plainToClassFromExist(this.allowedEvents[type], instance)` passes the *class* as the
  existing object. class-transformer 0.4.0 (yarn.lock) populates that object in place: the fields of
  the instance's `data` are written over the class's `data`, fields the event lacks stay. It is this
  merged `data` that `validate` sees. An object within the data (`Nestor` of `Example1Event`) is
  populated in place as well, so a field of the model is a leaf of the data and the nesting is
  flattened. Which answers come with a call of the hook is in `EventHandler`. The readers use a
  fixed verdict per event instead; that is right for events that give every field
  (`FullEventsJudgedAlone`) and an idealisation otherwise.
* `Verdict = "unreadable"` exists for the legacy validator only; the v21 client parses payloads.
  `RejectUnreadable` is the one rejection that calls no hook: `JSON.parse` throws ahead of it.
* `ConnectionGuard`: a rejection of a ping started by a timer is an unhandled rejection. What
  follows depends on the version of Node, so `Rejected` allows both outcomes.
* `IsLegacyConf` looks at `connectionString` alone, as the helper does.

* `Lifecycle`: what HttpReader's `connected` stands for at the start of a process is the client of
  the process before it. `ServerNotices` ends it; until then the server may still receive what that
  client had answered. `Subscribe` waits for it: the server is taken to notice a dead client before
  the next process reaches the subscription.
* `SubscriptionSettings!Given`: the options of a subscription name some settings only, and
  `resolveLinkTos` in either of two spellings. `http-reader.service.ts:61-63` looks at both; the v21
  path hands the object on, and the store ignores the spelling it does not know.
* `Wiring`: an endpoint is a set with one store or none, so that "connected to" is an equality
  between sets. A port that is not set is `NaN` in the code and unreachable here.

## 3. The runs

| Run | Question | Bounds | Result |
|---|---|---|---|
| `http_kill` | Does the legacy reader with the default net implement `ReliableCopy`, in order; is each event the server waits for in somebody's hands; is the net told of each event that is let go without a copy? | 1 invalid event ahead of 2 valid ones, 2 deliveries, deaths by the net, drops, buffer 1 | holds |
| `http_auto` | What is lost with autoAck and a net that lives? Can a write hang unreported, or be reported after success? | valid + invalid event, 2 deliveries, 1 crash, drops, buffer 2 | only what a dead process had begun or the net was told of; no, no |
| `lifecycle` | Does the reader still implement `ReliableCopy` when its start is taken apart, and does every delivery get its answer and every start end in consuming and copying? | our subscription first of 2; unreadable event ahead of a valid one; 1 delivery, 2 crashes, buffer 1 | holds under the fairness below |
| `grpc` | What can the v21 reader lose? | valid, invalid, not allowed; 2 deliveries, 1 crash, drops | only what a dead process had begun or the net was told of |
| `grpc_lost` | Is an event the source let go copied, on its way or in hand? | 1 event, default net | violated: ack, write fails, exit, never redelivered |
| `validator` | When do earlier events change an answer? | 2 types, 1 required and 2 optional fields | holds as stated |
| `validator_stale` | Is an event judged on its own data? | 2 types, 2 fields | violated: a missing required field is excused by an earlier event |
| `formatter` | Do identity and metadata survive copying, and copying of copies? | 1 user field, 2 values, 3 hops, missing metadata | holds |
| `guard` | Detection time, no false kill, pings go on and do not pile up | interval 4, timeout 3, pause 1, 3 retries, latency 1, 2 chains | holds |
| `settings` | Order of the start, its end, recovery from a partial one, settings and buffers that reach the source | 2 subscriptions with any configuration each, 2 failures, any number of redeployments, either source, any groups left on it | holds |
| `wiring` | Which store is each side connected to, whatever the environment holds? | every `CASE`, every set of variables, changed one by one between starts | holds |
| `driver_hook` | Is the hook called once per try? | 2 events, one delivery each | violated: an append that rejects calls it at once and its leaked timer calls it again |

**Why the bounds suffice.** Two valid events are the smallest stream in which one can overtake,
block or be blocked by another, and the invalid one ahead of them is the smallest with something to
report; two deliveries give one redelivery racing the first handling, and every death or drop starts
the count again. In `http_kill` every death is one the net causes, and that is no narrow bound: it may
come whenever any write is pending, any number of times, while other handlings are being validated
or answered, and leaves requests on the way that arrive in the life of the next process. Deaths at
any other moment are in `http_auto` and `grpc` (one) and in `lifecycle` (two), and the theorems take
any number. `lifecycle` allows one delivery per connection: its question is what crosses from one
process to the next, and three processes are one before, one after and one whose start itself
failed. The proportions of the guard are those of the defaults (retries last as long as the timeout,
the timeout is shorter than the interval, answers are shorter than the timeout); the two chains are
those of a v21 source. `UpCap` and `DownCap` stop the clocks of `ConnectionGuard` just beyond the
values its properties compare, `Slots` leaves one slot more than `BoundedPings` allows;
`PlaceIsAlwaysThere` proves that no ping ever has to wait for one. Two subscriptions give a first
and a last one, and four configurations cover each setting given, left out and misspelt. The
third hop of `formatter` is the first whose input and output are both copies of copies. `wiring` has
no bound: its state space is finite. The theorems of section 5 remove the bounds of every other run for the safety properties.

Deadlock is not checked where the system may stop: a stream that is used up, a process that exited.

### Fairness

`LifeFairness` assumes (`LoopIsFair` of each handling, `StoresAreFair` of each event, and the start):
the event loop runs every callback that is due (weak fairness); timers fire; awaited calls of the
start settle and a supervisor restarts the process; the server notices that a client is gone; the
server sends and, while an event is unanswered, takes an answer that is sent again and again
(strong: a timeout of the server can take the event away in between); a request that is sent again
and again is applied one day, and a write tried again and again is answered before its
timer one day (strong: otherwise the destination is out of reach for good and nothing can be
promised). The server is not assumed to time out, and a crash or a failing step is never forced;
both are bounded by `MaxCrashes`. `FairGuardSpec` assumes that time goes on and that what is due
happens before it does. `SettingsSpec` assumes that awaited calls settle and that a process that
exited is started again (weak fairness of the whole of `ProceedWithSettings`); failures are bounded
by `MaxFailures`, redeployments are not bounded but follow an exit. `WiringSpec` has strong fairness
of its three steps: the operator, or a death, may stop a start any number of times, but not each
time just before the same step for ever.

## 4. What the properties say

* `CopiesReliably`, `LetGoIsCopied`: an event the source will not send again is in the destination
  if it is valid. Needs the reader's own acknowledgements (`AutoAck = FALSE`); the refinement needs
  the default net, for a custom one that lives on trades the copy for a report.
* `NothingGoesSilently`: the same for events that are not valid: an event the source will not send
  again is in the destination, or one of the hooks was called for it in some process. The skip and
  the acknowledgement follow the hook in another callback of the promise, handlings of one event
  overlap, and a death in between must leave the event to be sent again. An event that cannot be
  read is excepted by name, see the divergences below.
* `InOrder`: with a buffer of one, copies keep the order of the source up to parked events.
* `InFlightIsInHand`: of a living process the server never waits for an event that nobody will
  answer; the only ways out of a handling are an answer and the end of the process.
* `EveryDeliveryAnswered`: the same as a promise: each delivery the server awaits is answered, given
  up, or dies with its process. With a buffer of one everything behind it depends on this.
* `StartsAndCopies`: a start of all subscriptions is reached in spite of events that end the process
  half way through it, and every valid event is copied or parked.
* `WorksOnOwnConnections`: what is at work belongs to this process and finds both connections up.
* `OnlyValidCopied`: nothing invalid is sent, in any interleaving. Run with the v21 reader, whose
  handlings nobody awaits, and proved of both.
* `LostOnlyIfInterrupted`: the complete list of ways to lose an event when acknowledgements come
  early.
* `KillHasCause`: the process ends itself only while some write is unconfirmed.
* `PendingIsGuarded`, `NoAlarmAfterSuccess`, `EveryWriteAnswered`: the contract of the aggressive
  timeout, inside the readers.
* `FullEventsJudgedAlone`, `WrongVerdictHasSource`: what the shared class data can and cannot do.
* `IdentityKept`, `MetadataKept`, `CopyOfCopyIsSame`: stream, id and type follow the event through
  any number of hops, whatever its metadata says under the same names; the user's own fields too.
* `BoundedDetection`, `NoKillOfHealthyLink`, `RetriesBridgeOutage`, `BoundedPings`, `KeepsPinging`:
  the auto kill. `NoKillOfHealthyLink` leaves the process one timeout after a recovery in which
  it may still be ended by the timer of a ping that was refused before (`next-connection-guard`
  rejects before `clearTimeout`): that is what the code does.
* `ReadyBeforeEvents`, `UpsertedBeforeEvents`: the order of the start. `StartEnds`: no start repeats
  itself, whichever groups it meets, and one that ends well has left no subscription out.
* `ConsumesAsConfigured`, `AsConfiguredStays`, `EventuallyAsConfigured`: what is consumed has the
  settings of the configuration of this start, whatever earlier ones left half done; a restart
  leaves alone what already is as configured; every usable configuration is consumed in the end.
* `RightStores`, `CompleteComesUp`: the process reads and writes where its `CASE` says, never reads
  what it writes, and comes up once its environment is complete.

### Findings

1. **v21 reader acknowledges before it copies** (`grpc-reader.service.ts:109-110`). With the default
   net a failed write loses the event for good. `LostOnlyIfInterrupted` bounds the damage.
2. **Validation depends on earlier events** (`legacy-events-validator.service.ts:39`,
   `next-events-validator.service.ts:33`).
3. **The hook may be called twice for one try** (`grpc-driver.service.ts:57-61`,
   `http-driver.service.ts:61-65`), the second time long after the first. With the default
   net, which exits at the first call, the second one is never made: proved of the driver
   (`DefaultNetHooksOnce`), of both readers (`HttpHooksOnce`, `GrpcHooksOnce`) and of the legacy one
   with its start (`LifeHooksOnce`). Only a custom net that lives can see it.

Four smaller divergences met while modelling are facts of the models and have no run of their own:

* `L/safety-net/safety-net.service.interface.ts:11` says that `invalidEventHook` is "triggered after
  the detection of a non valid event". A payload that cannot be parsed makes
  `legacy-events-validator.service.ts:21` throw ahead of every call of the hook, and the reader skips
  and acknowledges the event: the net never hears of it (`RejectUnreadable`). Of every other event
  `NothingGoesSilently` is checked and proved.
* `README.md:56-57` says that http configuration means a legacy store. `isLegacyConf` looks at the
  connection string only, so a configuration with both is a v21 one (`IsLegacyConf`).
* `README.md:14-15` says that versions are detected from the configuration. In the example the
  `switch` on `CASE` decides (`usecase.module.ts`), and a v21 source whose connection string is not
  set is taken for a legacy one; the start then fails (`Wiring!CanCreate`).
* `next-subscription.ts:9` gives a `bufferSize` that `grpc-reader.service.ts:101` does not pass on:
  `ConsumesAsConfigured` states what is really used, `DefaultBuffer`, and so cannot object to it.

## 5. What is proved

For every stream, verdict, number of deliveries, buffer size, number of crashes, choice of net and of
`AutoAck` that the named assumptions of the modules allow (positive buffer and deliveries, natural
bounds). Every invariant and every action property that a passing run checks is among them, and
three of the six properties of liveness.

| Theorem | Statement | Argument |
|---|---|---|
| `WriteTypeCorrect`, `WritesAreGuarded`, `NoAlarmAfterWritten` | the driver alone | `HookBudget`: what the state of a write and its timer can still cost in hook calls. Without it the bound of `hookCalls` is not inductive; with it, a confirmed write has no timer |
| `HttpTypeCorrect`, `GrpcTypeCorrect` | `[]TypeOK` | `TypeInv` = types and `HookBudget`; one lemma per operation of the driver, handler and subscription, used by both readers |
| `HttpWritesAreGuarded`, `HttpNoAlarmAfterWritten`, `GrpcWritesAreGuarded`, `GrpcNoAlarmAfterWritten` | the driver's contract inside the readers | the driver's lemmas; a crash and a restart forget writes and timers together |
| `HttpOnlyValidCopied`, `GrpcOnlyValidCopied` | `[]OnlyValidCopied` | inductive as it stands |
| `HttpLetGoIsCopied` | `[]LetGoIsCopied`, if `~AutoAck` | `AnswersAreSafe`: already the answer on its way to the server is given for a copied (or reported) event only; what is safe stays safe |
| `HttpNothingGoesSilently`, `LifeNothingGoesSilently` | `[]NothingGoesSilently`, if `~AutoAck`, for either net | `AnswersAreNoted`: a callback sends an answer for an event only in the step that calls a hook or confirms the append, or later (`CallbackAnswersNoted`). The histories and the destination only grow (`HistoriesGrow`), also over a `Crossing`, and the server lets go only what was answered (`SurroundingsLetAnsweredGo`) |
| `HttpCopiesInOrder` | `[]InOrder`, if the buffer is one, `KillsProcess /\ ~AutoAck` | `OrderInv`: every event before one that was ever delivered has been settled for good. An event is delivered when nothing is in flight, and only a delivery touches an event for the first time |
| `HttpInFlightIsInHand` | `[]InFlightIsInHand` | `SentToClient`: what is in flight was sent to a client that is still connected. Then the last handling of an event stays in hand until an answer of it is on its way, and only the server uses that up |
| `DefaultNetHooksOnce`, `HttpHooksOnce`, `GrpcHooksOnce`, `LifeHooksOnce` | `[]HookOncePerTry`, if `KillsProcess` | a write of a living process was never reported, so that the call which ends it is its first |
| `HttpCopiesReliably` | `HttpSpec => CopiesReliably`, if `KillsProcess /\ ~AutoAck` | callbacks stutter; an arriving request copies; the server's steps release or abandon |
| `HttpLostOnlyIfInterrupted`, `GrpcLostOnlyIfInterrupted` | `[]LostOnlyIfInterrupted` | `LostInv`: the same idea with `Accounted`; a valid event leaves the hands of a process only into the destination, and a restart turns what was unfinished into interrupted |
| `HttpKillHasCause`, `GrpcKillHasCause` | action property | `HookBudget` again: an armed timer belongs to an unconfirmed write |
| `LifeOnlyValidCopied`, `LifeLostOnlyIfInterrupted`, `LifeWritesAreGuarded`, `LifeNoAlarmAfterWritten`, `LifeKillHasCause`, `LifeCopiesReliably`, `LifeCopiesInOrder` | the same of `LifeSpec`, any number of subscriptions and failed starts; the last two under the conditions of `HttpCopiesReliably` and `HttpCopiesInOrder` | `LifeStep`: a step of `Lifecycle` is one of `HttpReader`, whose lemmas apply, or a `Crossing`, one of the three parts into which `Lifecycle` takes `Restart`. `CrossingTakesBack`: a crossing copies, loses and answers nothing. Between two of them the state is none that `HttpReader` reaches, so the invariants are shown again of it rather than carried over by refinement |
| `LifeTypeCorrect`, `LifeStartsInOrder`, `LifeWorksOnOwnConnections` | `LifeTypeOK`, the order of the start, `WorksOnOwnConnections` | `StartInv` says for each step what is behind it; a delivery needs `Ours \in consuming`, which comes after both links; a new process has an empty memory, so what is at work began after that |
| `WritesAreAnswered`, `LifeWritesAreAnswered` | `EveryWriteAnswered`, of the driver alone and over all processes and starts | an unanswered write waits with its timer armed (`HookBudget` again), stays so until it is answered, and the timer fires in the end |
| `LifeDeliveriesAreAnswered` | `EveryDeliveryAnswered`, if `KillsProcess` | three phases, `Validating`, `Writing`, `Answering`: an awaited delivery is in one of them (`LifeInv`, with `InFlightIsInHand` of the own process), none goes back, and the fair step of each leads on or ends the wait |
| `FullEventsAreJudgedAlone`, `WrongVerdictsHaveSource`, `ValidatorTypeCorrect` | the validator, any types and fields | `SharedSeen`: what a class carries was given by an event of its type in this process |
| `FormatterTypeCorrect`, `FormattingKeepsIdentity`, `FormattingKeepsMetadata`, `CopiesOfCopiesAreSame` | the formatters, any fields, values and number of hops | after a hop the metadata holds the identity, so that the next one writes what is there |
| `SettingsTypeCorrect`, `ConnectedBeforeEvents`, `GroupsBeforeEvents` | the start, any number of subscriptions and failures | `StartupInv` says for each step what is behind it: links, and `upserted = 1..(at - 1)`. Without the last, "all groups" at `subscribe` does not follow |
| `EveryStartEnds` | `StartEnds` | `ConsumedOfStep`: a legacy source consumes `1..(at - 1)`, a v21 one all at once; `Ahead` counts what is left and falls with every step |
| `ConsumedAsConfigured`, `ConfiguredStays` | the settings, through any redeployments | `SettingsInv`: already what is upserted, not only what is consumed, is as configured; lemmas show that the two readers' ways to spread options are what `Configured` says |
| `GuardTypeCorrect`, `GuardDetectsInTime`, `HealthyLinkSurvives`, `OutageIsBridged` | the guards, any interval, timeout, pause, retries and number of chains within `GuardAssumption` | `GuardInv`: the age of a ping is read off its kill timer. `Detection`: the link was down no longer than the first chain was idle, or a ping is as old as that. `Young`: a ping younger than the link's good time is about to be answered. `Bridging`: retries made times the pause is no more than the ping's age |
| `PingsAreBounded`, `PlaceIsAlwaysThere` | `[]BoundedPings`, and room for one more ping | `Traced`: the state does not say which chain a ping is of, but some assignment always exists in which a chain's pings are one interval apart and the last as old as the chain's timer says. It maps pings one to one into `(1..Chains) \X (0..(Timeout \div Interval))`, and the facts about finite sets count them |
| `WiringTypeCorrect`, `StoresAreRight` | `[]WiringTypeOK`, `[]RightStores` | `WiringInv`: what a step has connected is what the providers of the running `CASE` reach. The run is the whole of `Wiring`, which has no parameter; the proof says why, by what each side's provider list finds first |
| `CompleteEnvironmentComesUp` | `CompleteComesUp` | with a complete environment none of the three steps throws; strong fairness takes each in turn |

`GuardAssumption` asks nothing of the configured timeout but that an answer of a working link comes
before it. That the retries last as long (`RetriesOutlast`) is a condition of `RetriesBridgeOutage`
alone: `EVENTSTORE_INTERCO_EVENT_WRITER_TIMEOUT_IN_MS` can be set to anything, the retries are fixed.

**Liveness.** The temporal prover knows fairness, but ENABLED is beyond it. The theorems about
liveness therefore have one hypothesis each, `TimersCanFire`, `StepsCanBeTaken` or `StartCanGoOn`:
always, if the guards of a step hold then it is ENABLED. It says nothing about what a step does or
when it is due, only what can be read off the actions (each gives every variable a next value). TLC,
which evaluates ENABLED itself, finds the three always true on the instances of the runs, and checks
the same properties there without them. The rest is proved: that what is due stays due until it is
done, that it leads on, and that nothing else takes it away.

Only model-checked: `StartsAndCopies`, `KeepsPinging` and `EventuallyAsConfigured`. Each is an
induction over a number of steps that a constant gives (events and starts, ticks of the clock,
subscriptions), and induction over a temporal formula cannot be stated to the provers. Of
`EventuallyAsConfigured` the theorems give all but that induction: `EveryStartEnds` says that each
step leaves less ahead and that what comes to its end consumes everything.

`LifeTypeOK` is proved and not run: the run `lifecycle` asks for what goes beyond types.
`WriteSpec` is run in `driver_hook` only: its other properties are checked inside the readers, and
proved for it alone and inside each of them.

## 6. Assumptions and what is left out

* The stores are modelled as the code uses them. Appending an event id twice is idempotent
  (`ANY` revision, same id). The server notices that a connection is closed before the restarted
  process subscribes, and then sends the unanswered events again.
* The readers are modelled for one subscription group and one process. Groups are independent of each
  other in the readers; that they share a process and its start is what `Lifecycle` adds. Several
  processes on one group are not something the code provides for.
* class-validator, class-transformer and Nest are modelled by what the code relies on. The settings
  are the two whose path differs between the readers; the others are spread in the same way.
* The order of two settlements of one event on one connection is not assumed.
* `Driver` has no clock: its timer may fire at any time, which covers every timeout.

### Not modelled

* Logger, error classes, interfaces: they change no state. Texts and event payloads are left out.
* The conversion `+env || default` of the timeouts (`constants.ts`): the models take any positive
  number. `RetriesOutlast` says which ones `RetriesBridgeOutage` is about; with a configured timeout
  of more than ten pauses the retries may run out first.
* What happens after a subscription is dropped: the code only tells a callback of the application,
  and promises nothing. The safety runs include it (`MayDrop`), the liveness run does not.
* The other event classes of the example: they add no rule of validation that `Example1Event` lacks.
* The reconnection settings given to the TCP client, which act inside the client library.

## 7. Plan

Done: every module of section 2. What could still be added:

1. `Validator` in place of the fixed verdicts of the readers. The verdict would then depend on what
   the process has seen, and `LostOnlyIfInterrupted` would have to say so.
2. A composition of the start with `GrpcReader`; all groups of a v21 source are upserted before the
   first event, so that only a crash connects the two.

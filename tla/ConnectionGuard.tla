-------------------------- MODULE ConnectionGuard --------------------------
(***************************************************************************)
(* LegacyConnectionGuardService and NextConnectionGuardService: a chain of *)
(* pings on one connection. Each ping sets the timer of the next one and a *)
(* timer that kills the process, asks the server, and clears the second    *)
(* timer when the answer has come. The chains of one connection: the       *)
(* connection initializer starts one, and GrpcReaderService a second one   *)
(* on the client the initializer has just made.                            *)
(*                                                                         *)
(* Time is discrete. A timer fires when it is due, so Tick waits for the   *)
(* timers at zero.                                                         *)
(***************************************************************************)
EXTENDS Naturals, FiniteSets

CONSTANTS
  Interval,    \* CONNECTION_LINK_CHECK_INTERVAL_IN_MS
  Timeout,     \* EVENT_WRITER_TIMEOUT_IN_MS
  RetryDelay,  \* pause of testConnection, 500 ms in the code
  MaxTries,    \* retries of testConnection, 10 in the code
  Latency,     \* longest time a link that works takes to answer
  Chains,      \* ping chains on this connection
  Slots        \* room for pings under way

ASSUME GuardAssumption ==
  /\ Interval \in Nat \ {0}
  /\ Timeout \in Nat \ {0}
  /\ RetryDelay \in Nat \ {0}
  /\ MaxTries \in Nat
  /\ Latency \in Nat \ {0}
  /\ Latency < Timeout
  /\ Chains \in Nat \ {0}
  /\ Slots \in Nat
  /\ Slots > Chains * ((Timeout \div Interval) + 1)

(* The retries last as long as the kill timer, as they do by default: ten  *)
(* of 500 ms, and 5000 ms. The timeout can be configured, the retries not. *)
RetriesOutlast == Timeout <= MaxTries * RetryDelay

Pings == 1..Slots

Off == Timeout + 1     \* a kill timer that is not set

Never == Interval + 1  \* a chain that has not been started

Faults == {"silent", "unavailable", "refusing"}

VARIABLES
  kind,      \* which guard: "legacy" or "next"
  faults,    \* what may go wrong with the link
  link,      \* "up", or the fault it has
  upFor,     \* how long the link has been up, long at first
  downFor,   \* how long it has not been up
  outcome,   \* "running", "killed" by a timer, "crashed" by a rejection
  nextPing,  \* time left before each chain's next ping
  ping,      \* "free", "asking", "waiting", "rejected"
  kill,      \* time left on each ping's kill timer
  tries,     \* retries made
  clock,     \* time since the request, or left of the pause
  lost       \* the link was silent since the request: no answer may come

guardVars == <<kind, faults, link, upFor, downFor, outcome, nextPing, ping,
               kill, tries, clock, lost>>

linkVars == <<kind, faults, link, upFor, downFor>>

Longest(a, b) == IF a > b THEN a ELSE b

UpCap == Longest(Timeout, RetryDelay + Latency) + 1
DownCap == Interval + Timeout + 1

GuardTypeOK ==
  /\ kind \in {"legacy", "next"}
  /\ faults \in SUBSET Faults
  /\ link \in {"up"} \cup faults
  /\ upFor \in 0..UpCap
  /\ downFor \in 0..DownCap
  /\ outcome \in {"running", "killed", "crashed"}
  /\ nextPing \in [1..Chains -> 0..Never]
  /\ ping \in [Pings -> {"free", "asking", "waiting", "rejected"}]
  /\ kill \in [Pings -> 0..Off]
  /\ tries \in [Pings -> 0..MaxTries]
  /\ clock \in [Pings -> 0..Longest(Latency, RetryDelay)]
  /\ lost \in [Pings -> BOOLEAN]

GuardInit ==
  /\ kind \in {"legacy", "next"}
  /\ faults \in SUBSET Faults
  /\ link = "up"
  /\ upFor = UpCap
  /\ downFor = 0
  /\ outcome = "running"
  /\ nextPing = [c \in 1..Chains |-> IF c = 1 THEN 0 ELSE Never]
  /\ ping = [p \in Pings |-> "free"]
  /\ kill = [p \in Pings |-> Off]
  /\ tries = [p \in Pings |-> 0]
  /\ clock = [p \in Pings |-> 0]
  /\ lost = [p \in Pings |-> FALSE]

Running == outcome = "running"

-----------------------------------------------------------------------------
(* A request of p leaves.                                                  *)
Ask(p) ==
  /\ ping' = [ping EXCEPT ![p] = "asking"]
  /\ clock' = [clock EXCEPT ![p] = 0]
  /\ lost' = [lost EXCEPT ![p] = (link = "silent")]

(* The call of p has ended: what it counted goes with it.                  *)
Forget(p) ==
  /\ tries' = [tries EXCEPT ![p] = 0]
  /\ clock' = [clock EXCEPT ![p] = 0]
  /\ lost' = [lost EXCEPT ![p] = FALSE]

(* The reader of a v21 source starts another chain on the client.         *)
ChainStarts(c) ==
  /\ Running
  /\ nextPing[c] = Never
  /\ nextPing' = [nextPing EXCEPT ![c] = 0]
  /\ UNCHANGED <<linkVars, outcome, ping, kill, tries, clock, lost>>

FreeSlot == {p \in Pings : ping[p] = "free"}

(* Mutant: the timer of the next ping is forgotten.                        *)
StartPingOnce(c) ==
  /\ Running
  /\ nextPing[c] = 0
  /\ \E p \in FreeSlot :
       /\ \A r \in FreeSlot : p <= r
       /\ kill' = [kill EXCEPT ![p] = Timeout]
       /\ Ask(p)
  /\ nextPing' = [nextPing EXCEPT ![c] = Never]
  /\ UNCHANGED <<linkVars, outcome, tries>>

(* Mutant: the kill timer is forgotten.                                    *)
StartPingHarmless(c) ==
  /\ Running
  /\ nextPing[c] = 0
  /\ \E p \in FreeSlot :
       /\ \A r \in FreeSlot : p <= r
       /\ kill' = [kill EXCEPT ![p] = Off]
       /\ Ask(p)
  /\ nextPing' = [nextPing EXCEPT ![c] = Interval]
  /\ UNCHANGED <<linkVars, outcome, tries>>

(* Mutant: the pause of the retries is taken for the interval.             *)
StartPingTooOften(c) ==
  /\ Running
  /\ nextPing[c] = 0
  /\ \E p \in FreeSlot :
       /\ \A r \in FreeSlot : p <= r
       /\ kill' = [kill EXCEPT ![p] = Timeout]
       /\ Ask(p)
  /\ nextPing' = [nextPing EXCEPT ![c] = RetryDelay]
  /\ UNCHANGED <<linkVars, outcome, tries>>

(* startConnectionLinkPinger up to its await: set the timer of the next    *)
(* ping, set the kill timer, ask.                                          *)
StartPing(c) ==
  /\ Running
  /\ nextPing[c] = 0
  /\ \E p \in FreeSlot :
       /\ \A r \in FreeSlot : p <= r
       /\ kill' = [kill EXCEPT ![p] = Timeout]
       /\ Ask(p)
  /\ nextPing' = [nextPing EXCEPT ![c] = Interval]
  /\ UNCHANGED <<linkVars, outcome, tries>>

(* Mutant: clearTimeout is forgotten.                                      *)
AnsweredKeepsTimer(p) ==
  /\ Running
  /\ ping[p] = "asking"
  /\ link = "up"
  /\ ping' = [ping EXCEPT ![p] = "rejected"]
  /\ UNCHANGED <<linkVars, outcome, nextPing, kill, tries, clock, lost>>

(* The answer comes: clearTimeout.                                         *)
Answered(p) ==
  /\ Running
  /\ ping[p] = "asking"
  /\ link = "up"
  /\ ping' = [ping EXCEPT ![p] = "free"]
  /\ kill' = [kill EXCEPT ![p] = Off]
  /\ Forget(p)
  /\ UNCHANGED <<linkVars, outcome, nextPing>>

(* Mutant: each pause is longer than the one before it.                    *)
UnavailableBacksOff(p) ==
  /\ Running
  /\ kind = "next"
  /\ ping[p] = "asking"
  /\ link = "unavailable"
  /\ tries[p] < MaxTries
  /\ ping' = [ping EXCEPT ![p] = "waiting"]
  /\ clock' = [clock EXCEPT ![p] = RetryDelay * (tries[p] + 1)]
  /\ UNCHANGED <<linkVars, outcome, nextPing, kill, tries, lost>>

(* UnavailableError, and tries are left: testConnection pauses.            *)
Unavailable(p) ==
  /\ Running
  /\ kind = "next"
  /\ ping[p] = "asking"
  /\ link = "unavailable"
  /\ tries[p] < MaxTries
  /\ ping' = [ping EXCEPT ![p] = "waiting"]
  /\ clock' = [clock EXCEPT ![p] = RetryDelay]
  /\ UNCHANGED <<linkVars, outcome, nextPing, kill, tries, lost>>

(* The pause is over: testConnection calls itself with one more try.       *)
Retry(p) ==
  /\ Running
  /\ ping[p] = "waiting"
  /\ clock[p] = 0
  /\ tries' = [tries EXCEPT ![p] = @ + 1]
  /\ Ask(p)
  /\ UNCHANGED <<linkVars, outcome, nextPing, kill>>

(* Mutant: no error is retried for certain, `or' in place of `and'.        *)
RejectedUnretried(p) ==
  /\ Running
  /\ ping[p] = "asking"
  /\ link \in {"refusing", "unavailable"}
  /\ ping' = [ping EXCEPT ![p] = "rejected"]
  /\ outcome' \in {"running", "crashed"}
  /\ Forget(p)
  /\ UNCHANGED <<linkVars, nextPing, kill>>

(* Any other error, or no try left: startConnectionLinkPinger rejects      *)
(* before clearTimeout, and the kill timer stays. Nobody awaits a ping     *)
(* that a timer started: Node 14 prints a warning, later versions end the  *)
(* process. (The first ping of a chain is awaited by onModuleInit, and the *)
(* start fails with it: the second outcome.)                               *)
Rejected(p) ==
  /\ Running
  /\ ping[p] = "asking"
  /\ \/ link = "refusing"
     \/ link = "unavailable" /\ (kind = "legacy" \/ tries[p] = MaxTries)
  /\ ping' = [ping EXCEPT ![p] = "rejected"]
  /\ outcome' \in {"running", "crashed"}
  /\ Forget(p)
  /\ UNCHANGED <<linkVars, nextPing, kill>>

(* The kill timer: process.exit(1).                                        *)
KillTimerFires(p) ==
  /\ Running
  /\ kill[p] = 0
  /\ outcome' = "killed"
  /\ UNCHANGED <<linkVars, nextPing, ping, kill, tries, clock, lost>>

-----------------------------------------------------------------------------
(* The link breaks or recovers.                                            *)
LinkChanges(state) ==
  /\ Running
  /\ link # state
  /\ link' = state
  /\ upFor' = 0
  /\ downFor' = IF state = "up" THEN 0 ELSE downFor
  /\ lost' = [p \in Pings |-> lost[p] \/ (state = "silent" /\ ping[p] = "asking")]
  /\ UNCHANGED <<kind, faults, outcome, nextPing, ping, kill, tries, clock>>

(* A request the link did not lose is answered within Latency.             *)
Overdue(p) == ping[p] = "asking" /\ ~lost[p] /\ clock[p] >= Latency

Capped(n, cap) == IF n < cap THEN n + 1 ELSE n

Tick ==
  /\ Running
  /\ \A c \in 1..Chains : nextPing[c] > 0
  /\ \A p \in Pings :
       /\ kill[p] > 0
       /\ ~Overdue(p)
       /\ ~(ping[p] = "waiting" /\ clock[p] = 0)
  /\ nextPing' = [c \in 1..Chains |->
                    IF nextPing[c] = Never THEN Never ELSE nextPing[c] - 1]
  /\ kill' = [p \in Pings |-> IF kill[p] = Off THEN Off ELSE kill[p] - 1]
  /\ clock' = [p \in Pings |->
                 CASE ping[p] = "asking"  -> Capped(clock[p], Latency)
                   [] ping[p] = "waiting" -> clock[p] - 1
                   [] OTHER               -> clock[p]]
  /\ upFor' = IF link = "up" THEN Capped(upFor, UpCap) ELSE 0
  /\ downFor' = IF link = "up" THEN 0 ELSE Capped(downFor, DownCap)
  /\ UNCHANGED <<kind, faults, link, outcome, ping, tries, lost>>

GuardNext ==
  \/ \E c \in 1..Chains : ChainStarts(c) \/ StartPing(c)
  \/ \E p \in Pings :
       \/ Answered(p)
       \/ Unavailable(p)
       \/ Retry(p)
       \/ Rejected(p)
       \/ KillTimerFires(p)
  \/ \E state \in {"up"} \cup faults : LinkChanges(state)
  \/ Tick

(* Timers and answers that are due happen, and time goes on.               *)
GuardSpec == GuardInit /\ [][GuardNext]_guardVars

FairGuardSpec ==
  /\ GuardSpec
  /\ \A c \in 1..Chains : WF_guardVars(StartPing(c))
  /\ \A p \in Pings :
       WF_guardVars(Answered(p) \/ Unavailable(p) \/ Retry(p) \/ Rejected(p)
                    \/ KillTimerFires(p))
  /\ SF_guardVars(Tick)

-----------------------------------------------------------------------------
(* The README's auto kill: the process does not outlive by more than one   *)
(* interval and one timeout a connection that does not work, whichever way *)
(* it fails and however the failures follow each other.                    *)
BoundedDetection == Running => downFor <= Interval + Timeout

(* No kill timer ends the process over a link that has been up for longer  *)
(* than the timeout.                                                       *)
NoKillOfHealthyLink == outcome = "killed" => upFor <= Timeout

(* With a source that is only ever unavailable the retries do their work:  *)
(* once it is back for the pause and one answer, no ping kills the         *)
(* process. This needs the retries to last as long as the kill timer.      *)
RetriesBridgeOutage ==
  RetriesOutlast /\ outcome = "killed" /\ kind = "next" /\ faults \subseteq {"unavailable"}
    => upFor <= RetryDelay + Latency

(* Pings do not pile up, however slow the answers: each kill timer is      *)
(* cleared or fires before too many others are set.                        *)
BoundedPings ==
  Cardinality({p \in Pings : ping[p] # "free"})
    <= Chains * ((Timeout \div Interval) + 1)

(* While the process runs every chain that was started pings again and     *)
(* again: a ping that is refused or never answered does not end its chain. *)
KeepsPinging ==
  \A c \in 1..Chains :
    nextPing[c] # Never ~> (nextPing[c] = Interval \/ ~Running)
=============================================================================

---------------------------- MODULE GuardProofs ----------------------------
(***************************************************************************)
(* The ping guard for every interval, timeout, pause, number of retries    *)
(* and number of chains that GuardAssumption allows: how late it may find  *)
(* a link that does not work, which links it never kills for, and how many *)
(* pings there are at a time.                                              *)
(***************************************************************************)
EXTENDS ConnectionGuard, Integers, FiniteSetTheorems, TLAPS

(* How long ago the ping was started, while its kill timer is set.         *)
Age(p) == Timeout - kill[p]

Kinds ==
  /\ kind \in {"legacy", "next"}
  /\ faults \in SUBSET Faults
  /\ link \in {"up"} \cup faults
  /\ outcome \in {"running", "killed", "crashed"}

Clocks ==
  /\ upFor \in 0..UpCap
  /\ downFor \in 0..DownCap
  /\ nextPing \in [1..Chains -> 0..Never]
  /\ nextPing[1] # Never

PingTypes ==
  /\ ping \in [Pings -> {"free", "asking", "waiting", "rejected"}]
  /\ kill \in [Pings -> 0..Off]
  /\ tries \in [Pings -> 0..MaxTries]
  /\ clock \in [Pings -> 0..Longest(Latency, RetryDelay)]

LostTypes == lost \in [Pings -> BOOLEAN]

LinkTimes ==
  /\ link # "up" => upFor = 0
  /\ link = "up" => downFor = 0

(* Since the link went down or the first chain set off its last ping,      *)
(* whichever was earlier, no more has passed than the chain's timers say.  *)
Detection ==
  \/ downFor <= Interval - nextPing[1]
  \/ \E p \in Pings : kill[p] # Off /\ downFor <= Interval + Age(p)

(* A ping holds its place exactly as long as its kill timer is set.        *)
PingState(p) ==
  /\ ping[p] = "free" <=> kill[p] = Off
  /\ ping[p] = "free" => tries[p] = 0
  /\ ping[p] = "asking" => clock[p] <= Latency
  /\ ping[p] = "waiting" => tries[p] < MaxTries /\ clock[p] <= RetryDelay

(* A ping younger than the link's good time is about to be answered.       *)
Young(p) ==
  kill[p] # Off /\ upFor > Age(p) =>
    ping[p] = "asking" /\ ~lost[p] /\ clock[p] = Age(p)

OnlyUnavailable == RetriesOutlast /\ kind = "next" /\ faults \subseteq {"unavailable"}

(* The retries take as long as the kill timer, so that none is given up    *)
(* before it fires, and each of them sees a link that is back.             *)
Bridging(p) ==
  /\ ~lost[p]
  /\ ping[p] = "asking" =>
       /\ tries[p] * RetryDelay <= Age(p)
       /\ IF tries[p] = 0 THEN clock[p] = Age(p) ELSE upFor <= RetryDelay + clock[p]
  /\ ping[p] = "waiting" =>
       /\ tries[p] * RetryDelay + (RetryDelay - clock[p]) <= Age(p)
       /\ upFor <= RetryDelay - clock[p]
  /\ ping[p] = "rejected" => kill[p] = 0 /\ upFor = 0

Bridge ==
  OnlyUnavailable =>
    /\ link \in {"up", "unavailable"}
    /\ \A p \in Pings : Bridging(p)
    /\ outcome = "killed" => upFor <= RetryDelay + Latency

GuardInv ==
  /\ Kinds /\ Clocks /\ PingTypes /\ LostTypes /\ LinkTimes
  /\ Detection /\ NoKillOfHealthyLink /\ Bridge
  /\ \A p \in Pings : PingState(p) /\ Young(p)

-----------------------------------------------------------------------------
(* What Longest is for.                                                    *)
LEMMA LongestBounds ==
  ASSUME NEW a \in Nat, NEW b \in Nat
  PROVE  Longest(a, b) \in Nat /\ a <= Longest(a, b) /\ b <= Longest(a, b)
  BY DEF Longest

(* The caps are beyond what is compared with what they cap.                *)
LEMMA CapsBeyond ==
  /\ UpCap \in Nat /\ Timeout < UpCap /\ RetryDelay + Latency < UpCap
  /\ DownCap \in Nat /\ Interval + Timeout < DownCap
<1>1. Timeout \in Nat /\ Interval \in Nat /\ RetryDelay + Latency \in Nat
  BY GuardAssumption
<1>2. /\ Longest(Timeout, RetryDelay + Latency) \in Nat
      /\ Timeout <= Longest(Timeout, RetryDelay + Latency)
      /\ RetryDelay + Latency <= Longest(Timeout, RetryDelay + Latency)
  BY <1>1, LongestBounds, Zenon
<1> QED BY <1>1, <1>2 DEF UpCap, DownCap

(* A clock has room for an answer and for a pause.                         *)
LEMMA ClockBounds ==
  /\ Longest(Latency, RetryDelay) \in Nat
  /\ Latency <= Longest(Latency, RetryDelay)
  /\ RetryDelay <= Longest(Latency, RetryDelay)
  BY GuardAssumption, LongestBounds

(* One more try is one more pause.                                         *)
LEMMA OneMorePause ==
  ASSUME NEW n \in Nat, NEW pause \in Nat
  PROVE  (n + 1) * pause = n * pause + pause /\ n * pause \in Nat
  OBVIOUS

(* A function that one ping has changed, whatever its values are.          *)
LEMMA OneChanged ==
  ASSUME NEW S, NEW f \in [Pings -> S], NEW p \in Pings, NEW v \in S
  PROVE  /\ [f EXCEPT ![p] = v] \in [Pings -> S]
         /\ [f EXCEPT ![p] = v][p] = v
         /\ \A q \in Pings : q # p => [f EXCEPT ![p] = v][q] = f[q]
  OBVIOUS

(* Every place is free, the link is good.                                  *)
LEMMA GuardInitInv == GuardInit => GuardInv
<1> SUFFICES ASSUME GuardInit PROVE GuardInv
  OBVIOUS
<1> USE GuardAssumption, CapsBeyond, ClockBounds DEF GuardInit
<1>1. Kinds /\ LinkTimes /\ NoKillOfHealthyLink
  BY DEF Kinds, LinkTimes, NoKillOfHealthyLink
<1>2. Clocks
  BY DEF Clocks, Never
<1>3. PingTypes
  BY DEF PingTypes, Off
<1>4. LostTypes
  BY Zenon DEF LostTypes
<1>5. \A p \in Pings : PingState(p) /\ Young(p)
  BY DEF PingState, Young
<1>6. Detection
  BY DEF Detection, Age
<1>7. Bridge
  <2>1. \A p \in Pings : ping[p] = "free" /\ lost[p] = FALSE
    BY Zenon
  <2> QED BY <2>1 DEF Bridge, Bridging
<1> QED BY <1>1, <1>2, <1>3, <1>4, <1>5, <1>6, <1>7 DEF GuardInv

-----------------------------------------------------------------------------
(* A step of one ping: what has to be shown of it.                         *)
LEMMA OnePingStep ==
  ASSUME GuardInv, UNCHANGED linkVars,
         NEW p \in Pings,
         \A q \in Pings : q # p =>
           /\ ping'[q] = ping[q] /\ kill'[q] = kill[q] /\ clock'[q] = clock[q]
           /\ tries'[q] = tries[q] /\ lost'[q] = lost[q],
         outcome' \in {"running", "crashed"},
         Clocks', PingTypes', LostTypes', Detection',
         PingState(p)', Young(p)',
         OnlyUnavailable => Bridging(p)'
  PROVE  GuardInv'
<1>1. Kinds' /\ LinkTimes' /\ NoKillOfHealthyLink'
  BY DEF GuardInv, linkVars, Kinds, LinkTimes, NoKillOfHealthyLink
<1>2. \A q \in Pings : q # p => PingState(q)' /\ Young(q)'
  BY DEF GuardInv, linkVars, PingState, Young, Age
<1>3. Bridge'
  <2>1. OnlyUnavailable' = OnlyUnavailable
    BY Zenon DEF OnlyUnavailable, linkVars
  <2>2. OnlyUnavailable => \A q \in Pings : q # p => Bridging(q)'
    BY DEF GuardInv, Bridge, Bridging, Age, linkVars
  <2> QED BY <2>1, <2>2 DEF GuardInv, Bridge, linkVars
<1> QED BY <1>1, <1>2, <1>3 DEF GuardInv

(* The kill timer of a ping that was set off before still says how long    *)
(* the link can have been down.                                            *)
LEMMA DetectionStays ==
  ASSUME GuardInv, UNCHANGED downFor, nextPing'[1] = nextPing[1],
         \A q \in Pings : kill[q] # Off => kill'[q] = kill[q]
  PROVE  Detection'
  BY DEF GuardInv, Detection, Age

(* The second chain of a client.                                           *)
LEMMA ChainStartsKeeps ==
  ASSUME GuardInv, NEW c \in 1..Chains, ChainStarts(c)
  PROVE  GuardInv'
<1> USE GuardAssumption DEF GuardInv, ChainStarts, linkVars
<1>1. Kinds' /\ PingTypes' /\ LinkTimes' /\ NoKillOfHealthyLink'
  BY DEF Kinds, PingTypes, LinkTimes, NoKillOfHealthyLink
<1>2. LostTypes'
  BY Zenon DEF LostTypes
<1>3. Clocks' /\ nextPing'[1] = nextPing[1]
  BY DEF Clocks, Never
<1>4. Detection'
  BY <1>3 DEF Detection, Age
<1>5. Bridge'
  BY DEF Bridge, Bridging, OnlyUnavailable, Age
<1>6. \A p \in Pings : PingState(p)' /\ Young(p)'
  BY DEF PingState, Young, Age
<1> QED BY <1>1, <1>2, <1>3, <1>4, <1>5, <1>6

(* A new ping takes a free place, and its request is as old as itself.     *)
LEMMA StartPingKeeps ==
  ASSUME GuardInv, NEW c \in 1..Chains, StartPing(c)
  PROVE  GuardInv'
<1> USE GuardAssumption
<1>1. PICK p \in FreeSlot : kill' = [kill EXCEPT ![p] = Timeout] /\ Ask(p)
  BY DEF StartPing
<1>2. /\ p \in Pings /\ ping[p] = "free" /\ kill[p] = Off /\ tries[p] = 0
      /\ outcome' = "running" /\ nextPing[c] = 0
      /\ nextPing' = [nextPing EXCEPT ![c] = Interval]
      /\ UNCHANGED <<linkVars, tries>>
  BY <1>1 DEF FreeSlot, StartPing, Running, PingState, GuardInv
<1>3. /\ ping' = [ping EXCEPT ![p] = "asking"]
      /\ clock' = [clock EXCEPT ![p] = 0]
      /\ lost' = [lost EXCEPT ![p] = (link = "silent")]
  BY <1>1 DEF Ask
<1>4. /\ LostTypes'
      /\ lost'[p] = (link = "silent")
      /\ \A q \in Pings : q # p => lost'[q] = lost[q]
  BY <1>2, <1>3, OneChanged, Zenon DEF GuardInv, LostTypes
<1>5. PingTypes' /\ ping'[p] = "asking" /\ clock'[p] = 0 /\ kill'[p] = Timeout
  BY <1>1, <1>2, <1>3, ClockBounds DEF GuardInv, PingTypes, Off
<1>6. \A q \in Pings : q # p =>
        /\ ping'[q] = ping[q] /\ kill'[q] = kill[q] /\ clock'[q] = clock[q]
        /\ tries'[q] = tries[q]
  BY <1>1, <1>2, <1>3 DEF GuardInv, PingTypes
<1>7. Clocks'
  BY <1>2 DEF GuardInv, Clocks, Never, linkVars
<1>8. Detection'
  <2>1. CASE nextPing'[1] = nextPing[1]
    BY <1>2, <1>6, <2>1, DetectionStays DEF linkVars
  <2>2. CASE nextPing[1] = 0 /\ nextPing'[1] = Interval
    <3>1. CASE downFor <= Interval
      BY <1>2, <1>5, <3>1 DEF Detection, Age, Off, linkVars
    <3>2. CASE \E q \in Pings : kill[q] # Off /\ downFor <= Interval + Age(q)
      BY <1>2, <1>6, <3>2 DEF Detection, Age, linkVars
    <3> QED BY <2>2, <3>1, <3>2 DEF GuardInv, Detection
  <2> QED BY <1>2, <2>1, <2>2 DEF GuardInv, Clocks
<1>9. PingState(p)'
  BY <1>5 DEF PingState, Off
<1>10. Age(p)' = 0
  BY <1>5 DEF Age
<1>11. Young(p)'
  <2> SUFFICES ASSUME upFor' > 0 PROVE ~lost'[p]
    BY <1>5, <1>10, Zenon DEF Young
  <2>1. link # "silent"
    BY <1>2 DEF GuardInv, LinkTimes, linkVars
  <2> QED BY <1>4, <2>1, Zenon
<1>12. ASSUME OnlyUnavailable PROVE Bridging(p)'
  <2>1. link # "silent"
    BY <1>12 DEF GuardInv, Bridge
  <2>2. ~lost'[p]
    BY <1>4, <2>1, Zenon
  <2>3. tries'[p] = 0
    BY <1>2
  <2> QED BY <1>5, <1>10, <2>2, <2>3, OneMorePause DEF Bridging
<1> QED BY <1>2, <1>4, <1>5, <1>6, <1>7, <1>8, <1>9, <1>11, <1>12, OnePingStep

(* An answer frees the place; the link is not down.                        *)
LEMMA AnsweredKeeps ==
  ASSUME GuardInv, NEW p \in Pings, Answered(p)
  PROVE  GuardInv'
<1> USE GuardAssumption
<1>1. /\ ping' = [ping EXCEPT ![p] = "free"] /\ kill' = [kill EXCEPT ![p] = Off]
      /\ tries' = [tries EXCEPT ![p] = 0] /\ clock' = [clock EXCEPT ![p] = 0]
      /\ lost' = [lost EXCEPT ![p] = FALSE]
      /\ link = "up" /\ outcome' = "running"
      /\ UNCHANGED <<linkVars, nextPing>>
  BY DEF Answered, Forget, Running
<1>2. LostTypes' /\ ~lost'[p] /\ \A q \in Pings : q # p => lost'[q] = lost[q]
  BY <1>1, OneChanged, Zenon DEF GuardInv, LostTypes
<1>3. PingTypes' /\ ping'[p] = "free" /\ kill'[p] = Off /\ tries'[p] = 0
  BY <1>1, ClockBounds DEF GuardInv, PingTypes, Off
<1>4. \A q \in Pings : q # p =>
        /\ ping'[q] = ping[q] /\ kill'[q] = kill[q] /\ clock'[q] = clock[q]
        /\ tries'[q] = tries[q]
  BY <1>1 DEF GuardInv, PingTypes
<1>5. Clocks' /\ Detection'
  <2>1. downFor' = 0 /\ Clocks'
    BY <1>1 DEF GuardInv, Clocks, LinkTimes, linkVars
  <2>2. nextPing'[1] \in 0..Never /\ nextPing'[1] # Never
    BY <2>1 DEF Clocks
  <2> QED BY <2>1, <2>2 DEF Detection, Never
<1>6. PingState(p)' /\ Young(p)' /\ Bridging(p)'
  BY <1>2, <1>3 DEF PingState, Young, Bridging
<1> QED BY <1>1, <1>2, <1>3, <1>4, <1>5, <1>6, OnePingStep

(* A pause begins while the link is not up.                                *)
LEMMA UnavailableKeeps ==
  ASSUME GuardInv, NEW p \in Pings, Unavailable(p)
  PROVE  GuardInv'
<1> USE GuardAssumption
<1>1. /\ ping' = [ping EXCEPT ![p] = "waiting"] /\ clock' = [clock EXCEPT ![p] = RetryDelay]
      /\ ping[p] = "asking" /\ link = "unavailable" /\ tries[p] < MaxTries
      /\ outcome' = "running"
      /\ UNCHANGED <<linkVars, nextPing, kill, tries, lost>>
  BY DEF Unavailable, Running
<1>2. PingTypes' /\ ping'[p] = "waiting" /\ clock'[p] = RetryDelay
  BY <1>1, ClockBounds DEF GuardInv, PingTypes
<1>3. \A q \in Pings : q # p => ping'[q] = ping[q] /\ clock'[q] = clock[q]
  BY <1>1 DEF GuardInv, PingTypes
<1>4. LostTypes' /\ Clocks' /\ Detection'
  BY <1>1, DetectionStays DEF GuardInv, LostTypes, Clocks, linkVars
<1>5. upFor = 0 /\ kill[p] \in 0..Off /\ kill[p] # Off /\ PingState(p)'
  BY <1>1, <1>2 DEF GuardInv, PingState, PingTypes, LinkTimes
<1>6. Young(p)'
  BY <1>1, <1>5 DEF Young, Age, Off, linkVars
<1>7. ASSUME OnlyUnavailable PROVE Bridging(p)'
  <2>1. ~lost[p] /\ tries[p] * RetryDelay <= Age(p)
    BY <1>1, <1>7 DEF GuardInv, Bridge, Bridging
  <2>2. tries[p] * RetryDelay \in Nat
    BY OneMorePause DEF GuardInv, PingTypes
  <2>3. tries'[p] * RetryDelay + (RetryDelay - clock'[p]) <= Age(p)'
    BY <1>1, <1>2, <2>1, <2>2 DEF Age
  <2> QED BY <1>1, <1>2, <1>5, <2>1, <2>3 DEF Bridging, linkVars
<1> QED BY <1>1, <1>2, <1>3, <1>4, <1>5, <1>6, <1>7, OnePingStep

(* The pause is over, and one more of them has passed.                     *)
LEMMA RetryKeeps ==
  ASSUME GuardInv, NEW p \in Pings, Retry(p)
  PROVE  GuardInv'
<1> USE GuardAssumption
<1>1. /\ ping' = [ping EXCEPT ![p] = "asking"] /\ clock' = [clock EXCEPT ![p] = 0]
      /\ tries' = [tries EXCEPT ![p] = tries[p] + 1]
      /\ lost' = [lost EXCEPT ![p] = (link = "silent")]
      /\ ping[p] = "waiting" /\ clock[p] = 0
      /\ outcome' = "running"
      /\ UNCHANGED <<linkVars, nextPing, kill>>
  BY DEF Retry, Ask, Running
<1>2. /\ LostTypes'
      /\ lost'[p] = (link = "silent")
      /\ \A q \in Pings : q # p => lost'[q] = lost[q]
  BY <1>1, OneChanged, Zenon DEF GuardInv, LostTypes
<1>3. tries[p] \in Nat /\ tries[p] < MaxTries
  BY <1>1 DEF GuardInv, PingTypes, PingState
<1>4. PingTypes' /\ ping'[p] = "asking" /\ clock'[p] = 0 /\ tries'[p] = tries[p] + 1
  BY <1>1, <1>3, ClockBounds DEF GuardInv, PingTypes
<1>5. \A q \in Pings : q # p =>
        ping'[q] = ping[q] /\ clock'[q] = clock[q] /\ tries'[q] = tries[q]
  BY <1>1 DEF GuardInv, PingTypes
<1>6. Clocks' /\ Detection'
  BY <1>1, DetectionStays DEF GuardInv, Clocks, linkVars
<1>7. PingState(p)'
  BY <1>1, <1>4 DEF GuardInv, PingState
<1>8. Young(p)'
  BY <1>1, <1>4 DEF GuardInv, Young, Age, linkVars
<1>9. ASSUME OnlyUnavailable PROVE Bridging(p)'
  <2>1. link # "silent"
    BY <1>9 DEF GuardInv, Bridge
  <2>2. ~lost'[p]
    BY <1>2, <2>1, Zenon
  <2>3. (tries[p] + 1) * RetryDelay = tries[p] * RetryDelay + RetryDelay
    BY <1>3, OneMorePause
  <2>4. /\ tries[p] * RetryDelay + RetryDelay <= Age(p)
        /\ upFor <= RetryDelay
    BY <1>1, <1>9 DEF GuardInv, Bridge, Bridging
  <2>5. tries'[p] * RetryDelay <= Age(p)'
    BY <1>1, <1>4, <2>3, <2>4 DEF Age
  <2>6. upFor' <= RetryDelay + clock'[p] /\ tries'[p] # 0
    BY <1>1, <1>3, <1>4, <2>4 DEF linkVars
  <2> QED BY <1>4, <2>2, <2>5, <2>6 DEF Bridging
<1> QED BY <1>1, <1>2, <1>4, <1>5, <1>6, <1>7, <1>8, <1>9, OnePingStep

(* A ping is given up while the link is not up; its kill timer stays.      *)
LEMMA RejectedKeeps ==
  ASSUME GuardInv, NEW p \in Pings, Rejected(p)
  PROVE  GuardInv'
<1> USE GuardAssumption
<1>1. /\ ping' = [ping EXCEPT ![p] = "rejected"]
      /\ tries' = [tries EXCEPT ![p] = 0] /\ clock' = [clock EXCEPT ![p] = 0]
      /\ lost' = [lost EXCEPT ![p] = FALSE]
      /\ ping[p] = "asking" /\ link # "up" /\ outcome' \in {"running", "crashed"}
      /\ UNCHANGED <<linkVars, nextPing, kill>>
  BY DEF Rejected, Forget
<1>2. LostTypes' /\ ~lost'[p] /\ \A q \in Pings : q # p => lost'[q] = lost[q]
  BY <1>1, OneChanged, Zenon DEF GuardInv, LostTypes
<1>3. PingTypes' /\ ping'[p] = "rejected"
  BY <1>1, ClockBounds DEF GuardInv, PingTypes
<1>4. \A q \in Pings : q # p =>
        ping'[q] = ping[q] /\ clock'[q] = clock[q] /\ tries'[q] = tries[q]
  BY <1>1 DEF GuardInv, PingTypes
<1>5. Clocks' /\ Detection'
  BY <1>1, DetectionStays DEF GuardInv, Clocks, linkVars
<1>6. upFor = 0 /\ kill[p] \in 0..Off /\ kill[p] # Off /\ PingState(p)'
  BY <1>1, <1>3 DEF GuardInv, PingState, PingTypes, LinkTimes
<1>7. Young(p)'
  BY <1>1, <1>6 DEF Young, Age, Off, linkVars
<1>8. ASSUME OnlyUnavailable PROVE Bridging(p)'
  <2>1. tries[p] = MaxTries
    BY <1>8 DEF Rejected, GuardInv, Bridge, OnlyUnavailable
  <2>2. MaxTries * RetryDelay <= Age(p)
    BY <1>1, <1>8, <2>1 DEF GuardInv, Bridge, Bridging
  <2>3. MaxTries * RetryDelay \in Nat
    BY OneMorePause
  <2>4. Timeout <= MaxTries * RetryDelay
    BY <1>8 DEF OnlyUnavailable, RetriesOutlast
  <2>5. kill[p] = 0
    BY <1>6, <2>2, <2>3, <2>4 DEF Age, Off
  <2> QED BY <1>1, <1>2, <1>3, <1>6, <2>5 DEF Bridging, linkVars
<1> QED BY <1>1, <1>2, <1>3, <1>4, <1>5, <1>6, <1>7, <1>8, OnePingStep

(* A kill timer is at its end: what has the link been like since it was    *)
(* set?                                                                    *)
LEMMA KillKeeps ==
  ASSUME GuardInv, NEW p \in Pings, KillTimerFires(p)
  PROVE  GuardInv'
<1> USE GuardAssumption
<1>1. /\ kill[p] = 0 /\ outcome' = "killed"
      /\ UNCHANGED <<linkVars, nextPing, ping, kill, tries, clock, lost>>
  BY DEF KillTimerFires
<1>2. Age(p) = Timeout /\ kill[p] # Off
  BY <1>1 DEF Age, Off
<1>3. upFor <= Timeout
  <2>1. upFor > Timeout => ping[p] = "asking" /\ clock[p] = Timeout
    BY <1>2 DEF GuardInv, Young
  <2>2. ping[p] = "asking" => clock[p] <= Latency
    BY DEF GuardInv, PingState
  <2> QED BY <2>1, <2>2, CapsBeyond DEF GuardInv, Clocks
<1>4. ASSUME OnlyUnavailable PROVE upFor <= RetryDelay + Latency
  <2>1. Bridging(p) /\ PingState(p)
    BY <1>4 DEF GuardInv, Bridge
  <2>2. ping[p] \in {"asking", "waiting", "rejected"} /\ clock[p] \in Nat
    BY <1>2, <2>1, ClockBounds DEF GuardInv, PingTypes, PingState
  <2>3. CASE ping[p] = "asking"
    BY <1>2, <2>1, <2>2, <2>3 DEF Bridging, PingState, GuardInv, Clocks
  <2>4. CASE ping[p] = "waiting"
    BY <2>1, <2>2, <2>4 DEF Bridging, GuardInv, Clocks
  <2>5. CASE ping[p] = "rejected"
    BY <2>1, <2>5 DEF Bridging
  <2> QED BY <2>2, <2>3, <2>4, <2>5
<1>5. Kinds' /\ Clocks' /\ PingTypes' /\ LostTypes' /\ LinkTimes' /\ Detection'
  BY <1>1 DEF GuardInv, Kinds, Clocks, PingTypes, LostTypes, LinkTimes, Detection, Age, linkVars
<1>6. \A q \in Pings : PingState(q)' /\ Young(q)'
  BY <1>1 DEF GuardInv, PingState, Young, Age, linkVars
<1>7. NoKillOfHealthyLink' /\ Bridge'
  BY <1>1, <1>3, <1>4
  DEF GuardInv, NoKillOfHealthyLink, Bridge, Bridging, OnlyUnavailable, Age, linkVars
<1> QED BY <1>5, <1>6, <1>7 DEF GuardInv

(* After a change the link has been what it is for no time.                *)
LEMMA LinkChangesKeeps ==
  ASSUME GuardInv, NEW state \in {"up"} \cup faults, LinkChanges(state)
  PROVE  GuardInv'
<1> USE GuardAssumption
<1>1. /\ link' = state /\ upFor' = 0 /\ outcome = "running"
      /\ downFor' = IF state = "up" THEN 0 ELSE downFor
      /\ lost' = [p \in Pings |-> lost[p] \/ (state = "silent" /\ ping[p] = "asking")]
      /\ UNCHANGED <<kind, faults, outcome, nextPing, ping, kill, tries, clock>>
  BY DEF LinkChanges, Running
<1>2. LostTypes'
  <2>1. \A p \in Pings : (lost[p] \/ (state = "silent" /\ ping[p] = "asking")) \in BOOLEAN
    BY Zenon
  <2> QED BY <1>1, <2>1, Zenon DEF LostTypes
<1>3. Kinds' /\ PingTypes' /\ LinkTimes' /\ NoKillOfHealthyLink'
  BY <1>1 DEF GuardInv, Kinds, PingTypes, LinkTimes, NoKillOfHealthyLink
<1>4. Clocks' /\ Detection'
  <2>1. Clocks'
    BY <1>1, CapsBeyond DEF GuardInv, Clocks
  <2>2. CASE state = "up"
    <3>1. nextPing'[1] \in 0..Never /\ nextPing'[1] # Never /\ downFor' = 0
      BY <1>1, <2>1, <2>2 DEF Clocks
    <3> QED BY <2>1, <3>1 DEF Detection, Never
  <2>3. CASE state # "up"
    BY <1>1, <2>1, <2>3 DEF GuardInv, Detection, Age
  <2> QED BY <2>1, <2>2, <2>3
<1>5. \A p \in Pings : PingState(p)' /\ Young(p)'
  <2>1. \A p \in Pings : ~(kill'[p] # Off /\ upFor' > Age(p)')
    BY <1>1 DEF GuardInv, PingTypes, Age, Off
  <2> QED BY <1>1, <2>1 DEF GuardInv, PingState, Young
<1>6. ASSUME OnlyUnavailable' PROVE Bridge'
  <2>1. OnlyUnavailable /\ state \in {"up", "unavailable"}
    BY <1>1, <1>6 DEF OnlyUnavailable
  <2>2. ASSUME NEW p \in Pings PROVE Bridging(p)'
    <3>1. Bridging(p) /\ clock[p] \in Nat
      BY <2>1, ClockBounds DEF GuardInv, Bridge, PingTypes
    <3>2. ~lost'[p]
      BY <1>1, <2>1, <3>1, Zenon DEF Bridging
    <3>3. PingState(p)
      BY DEF GuardInv
    <3> QED BY <1>1, <3>1, <3>2, <3>3 DEF Bridging, PingState, Age
  <2> QED BY <1>1, <2>1, <2>2 DEF Bridge
<1> QED BY <1>2, <1>3, <1>4, <1>5, <1>6 DEF GuardInv, Bridge

(* Time goes on only while no timer and no answer is due.                  *)
LEMMA TickKeeps ==
  ASSUME GuardInv, Tick
  PROVE  GuardInv'
<1> USE GuardAssumption
<1>1. /\ UNCHANGED <<kind, faults, link, outcome, ping, tries, lost>>
      /\ outcome = "running"
  BY DEF Tick, Running
<1>2. \A c \in 1..Chains :
        /\ nextPing[c] > 0
        /\ nextPing'[c] = IF nextPing[c] = Never THEN Never ELSE nextPing[c] - 1
  BY DEF Tick
<1>3. nextPing' \in [1..Chains -> 0..Never]
  BY <1>2 DEF GuardInv, Clocks, Tick, Never
<1>4. upFor' \in 0..UpCap /\ upFor' <= upFor + 1 /\ (link # "up" => upFor' = 0)
  <2>1. upFor \in 0..UpCap /\ UpCap \in Nat
    BY CapsBeyond DEF GuardInv, Clocks
  <2>2. upFor' = IF link = "up" THEN Capped(upFor, UpCap) ELSE 0
    BY DEF Tick
  <2> QED BY <2>1, <2>2 DEF Capped
<1>5. downFor' \in 0..DownCap /\ downFor' <= downFor + 1 /\ (link = "up" => downFor' = 0)
  <2>1. downFor \in 0..DownCap /\ DownCap \in Nat
    BY CapsBeyond DEF GuardInv, Clocks
  <2>2. downFor' = IF link = "up" THEN 0 ELSE Capped(downFor, DownCap)
    BY DEF Tick
  <2> QED BY <2>1, <2>2 DEF Capped
<1>6. Clocks'
  <2>1. nextPing'[1] # Never
    BY <1>2 DEF GuardInv, Clocks, Never
  <2> QED BY <1>3, <1>4, <1>5, <2>1 DEF Clocks
<1>7. ASSUME NEW p \in Pings
      PROVE  /\ kill[p] > 0 /\ ~Overdue(p) /\ ~(ping[p] = "waiting" /\ clock[p] = 0)
             /\ kill'[p] = IF kill[p] = Off THEN Off ELSE kill[p] - 1
             /\ ping[p] = "asking" => clock'[p] = Capped(clock[p], Latency)
             /\ ping[p] = "waiting" => clock'[p] = clock[p] - 1
             /\ ping[p] \in {"free", "rejected"} => clock'[p] = clock[p]
  BY DEF Tick
<1>8. PingTypes'
  <2>1. kill' \in [Pings -> 0..Off]
    BY <1>7 DEF GuardInv, PingTypes, Off, Tick
  <2>2. \A p \in Pings : clock'[p] \in 0..Longest(Latency, RetryDelay)
    BY <1>7, ClockBounds DEF GuardInv, PingTypes, Capped
  <2>3. clock' = [p \in Pings |-> clock'[p]]
    BY DEF Tick
  <2> QED BY <1>1, <2>1, <2>2, <2>3 DEF GuardInv, PingTypes
<1>9. Kinds' /\ LostTypes' /\ LinkTimes' /\ NoKillOfHealthyLink'
  BY <1>1, <1>4, <1>5 DEF GuardInv, Kinds, LostTypes, LinkTimes, NoKillOfHealthyLink
<1>10. ASSUME NEW p \in Pings
       PROVE  /\ kill'[p] = Off <=> kill[p] = Off
              /\ kill[p] # Off => Age(p)' = Age(p) + 1
  BY <1>7 DEF GuardInv, PingTypes, Age, Off
<1>11. Detection'
  <2>1. CASE downFor <= Interval - nextPing[1]
    <3>1. nextPing'[1] = nextPing[1] - 1 /\ nextPing[1] \in Nat /\ downFor \in Nat
      BY <1>2, CapsBeyond DEF GuardInv, Clocks, Never
    <3> QED BY <1>5, <2>1, <3>1 DEF Detection
  <2>2. CASE \E p \in Pings : kill[p] # Off /\ downFor <= Interval + Age(p)
    <3>1. PICK p \in Pings : kill[p] # Off /\ downFor <= Interval + Age(p)
      BY <2>2
    <3>2. Age(p) \in Int
      BY DEF GuardInv, PingTypes, Age, Off
    <3>3. downFor \in Nat
      BY CapsBeyond DEF GuardInv, Clocks
    <3>4. downFor' <= Interval + Age(p)' /\ kill'[p] # Off
      BY <1>5, <1>10, <3>1, <3>2, <3>3, CapsBeyond
    <3> QED BY <3>4 DEF Detection
  <2> QED BY <2>1, <2>2 DEF GuardInv, Detection
<1>12. ASSUME NEW p \in Pings PROVE PingState(p)'
  BY <1>1, <1>7, <1>10, ClockBounds DEF GuardInv, PingState, PingTypes, Capped
<1>13. ASSUME NEW p \in Pings, kill'[p] # Off, upFor' > Age(p)'
       PROVE  ping'[p] = "asking" /\ ~lost'[p] /\ clock'[p] = Age(p)'
  <2>1. Age(p) \in Int /\ clock[p] \in Nat
    BY ClockBounds DEF GuardInv, PingTypes, Age, Off
  <2>2. kill[p] # Off /\ upFor > Age(p)
    BY <1>4, <1>10, <1>13, <2>1 DEF GuardInv, Clocks
  <2>3. ping[p] = "asking" /\ ~lost[p] /\ clock[p] = Age(p)
    BY <2>2 DEF GuardInv, Young
  <2>4. clock[p] < Latency
    BY <1>7, <2>1, <2>3 DEF Overdue
  <2> QED BY <1>1, <1>7, <1>10, <2>1, <2>2, <2>3, <2>4 DEF Capped
<1>14. ASSUME OnlyUnavailable, NEW p \in Pings PROVE Bridging(p)'
  <2>1. Bridging(p) /\ PingState(p) /\ upFor \in Nat
    BY <1>14, CapsBeyond DEF GuardInv, Bridge, Clocks
  <2>2. Age(p) \in Int /\ clock[p] \in Nat /\ tries[p] * RetryDelay \in Nat
    BY ClockBounds, OneMorePause DEF GuardInv, PingTypes, Age, Off
  <2>3. CASE ping[p] = "asking"
    <3>1. clock[p] < Latency
      BY <1>7, <2>1, <2>2, <2>3 DEF Overdue, Bridging
    <3>2. clock'[p] = clock[p] + 1 /\ Age(p)' = Age(p) + 1
      BY <1>7, <1>10, <2>1, <2>3, <3>1 DEF Capped, PingState
    <3> QED BY <1>1, <1>4, <2>1, <2>2, <2>3, <3>2 DEF Bridging
  <2>4. CASE ping[p] = "waiting"
    <3>1. clock'[p] = clock[p] - 1 /\ Age(p)' = Age(p) + 1
      BY <1>7, <1>10, <2>1, <2>4 DEF PingState
    <3> QED BY <1>1, <1>4, <2>1, <2>2, <2>4, <3>1 DEF Bridging
  <2>5. ping[p] # "rejected"
    BY <1>7, <2>1 DEF Bridging
  <2>6. CASE ping[p] = "free"
    BY <1>1, <2>1, <2>6 DEF Bridging
  <2> QED BY <2>3, <2>4, <2>5, <2>6 DEF GuardInv, PingTypes
<1>15. Bridge'
  BY <1>1, <1>14 DEF GuardInv, Bridge, OnlyUnavailable
<1> QED BY <1>6, <1>8, <1>9, <1>11, <1>12, <1>13, <1>15 DEF GuardInv, Young

(* One lemma for each action.                                              *)
LEMMA GuardInvHolds == GuardSpec => []GuardInv
<1>1. ASSUME GuardInv, [GuardNext]_guardVars PROVE GuardInv'
  <2>1. CASE UNCHANGED guardVars
    <3>1. Kinds' /\ Clocks' /\ PingTypes' /\ LostTypes' /\ LinkTimes' /\ Detection'
      BY <1>1, <2>1 DEF guardVars, GuardInv, Kinds, Clocks, PingTypes, LostTypes, LinkTimes,
         Detection, Age
    <3>2. NoKillOfHealthyLink' /\ Bridge'
      BY <1>1, <2>1 DEF guardVars, GuardInv, NoKillOfHealthyLink, Bridge, Bridging,
         OnlyUnavailable, Age
    <3>3. \A p \in Pings : PingState(p)' /\ Young(p)'
      BY <1>1, <2>1 DEF guardVars, GuardInv, PingState, Young, Age
    <3> QED BY <3>1, <3>2, <3>3 DEF GuardInv
  <2> QED
    BY <1>1, <2>1, ChainStartsKeeps, StartPingKeeps, AnsweredKeeps, UnavailableKeeps,
       RetryKeeps, RejectedKeeps, KillKeeps, LinkChangesKeeps, TickKeeps
    DEF GuardNext
<1> QED BY <1>1, GuardInitInv, PTL DEF GuardSpec

-----------------------------------------------------------------------------
(* Types: no timer runs below zero, no ping retries more often than it may.*)
THEOREM GuardTypeCorrect == GuardSpec => []GuardTypeOK
<1>1. GuardInv => GuardTypeOK
  BY DEF GuardInv, Kinds, Clocks, PingTypes, LostTypes, GuardTypeOK
<1> QED BY <1>1, GuardInvHolds, PTL

(* The process does not outlive a connection that does not work by more    *)
(* than one interval and one timeout, whichever way and however often it   *)
(* breaks.                                                                 *)
THEOREM GuardDetectsInTime == GuardSpec => []BoundedDetection
<1>1. GuardInv => BoundedDetection
  <2> SUFFICES ASSUME GuardInv PROVE downFor <= Interval + Timeout
    BY DEF BoundedDetection
  <2>1. downFor \in Nat /\ nextPing[1] \in Nat
    BY CapsBeyond, GuardAssumption DEF GuardInv, Clocks, Never
  <2>2. \A p \in Pings : kill[p] # Off => Age(p) \in 0..Timeout
    BY GuardAssumption DEF GuardInv, PingTypes, Age, Off
  <2> QED BY <2>1, <2>2, GuardAssumption DEF GuardInv, Detection
<1> QED BY <1>1, GuardInvHolds, PTL

(* No kill over a link that has been good for longer than the timeout.     *)
THEOREM HealthyLinkSurvives == GuardSpec => []NoKillOfHealthyLink
BY GuardInvHolds, PTL DEF GuardInv

(* The retries of the v21 guard bridge an outage of the source.            *)
THEOREM OutageIsBridged == GuardSpec => []RetriesBridgeOutage
<1>1. GuardInv => RetriesBridgeOutage
  BY DEF GuardInv, Bridge, OnlyUnavailable, RetriesBridgeOutage
<1> QED BY <1>1, GuardInvHolds, PTL

-----------------------------------------------------------------------------
(* How many pings there are. The state does not say which chain a ping is  *)
(* of, but one can always be told: a chain's pings are an interval apart,  *)
(* the last of them as old as the timer of the next one says.              *)
Busy == {p \in Pings : ping[p] # "free"}

(* p is the ping that chain c set off n pings before its last one.         *)
SetOffBefore(p, c, n) ==
  /\ nextPing[c] # Never
  /\ Age(p) = (Interval - nextPing[c]) + n * Interval

TracedBy(f) ==
  /\ f \in [Busy -> (1..Chains) \X Nat]
  /\ \A p, q \in Busy : f[p] = f[q] => p = q
  /\ \A p \in Busy : SetOffBefore(p, f[p][1], f[p][2])

Traced == \E f : TracedBy(f)

(* The most pings of one chain that a timeout leaves alive.                *)
PingsOfChain == (Timeout \div Interval) + 1

(* What the lemmas below need of the constants; without the products and   *)
(* quotients of GuardAssumption.                                           *)
LEMMA ConstantTypes ==
  Interval \in Nat \ {0} /\ Timeout \in Nat \ {0} /\ Chains \in Nat \ {0}
  BY GuardAssumption

(* What \div is for.                                                       *)
LEMMA DivBounds ==
  ASSUME NEW a \in Nat, NEW b \in Nat \ {0}, NEW n \in Nat, n * b <= a
  PROVE  a \div b \in Nat /\ n <= a \div b
<1> DEFINE q == a \div b
<1>1. q \in Nat /\ a < (q + 1) * b
  OBVIOUS
<1> HIDE DEF q
<1>2. ASSUME n >= q + 1 PROVE n * b >= (q + 1) * b
  BY <1>1, <1>2
<1>3. n * b \in Nat /\ (q + 1) * b \in Nat
  BY <1>1
<1> QED BY <1>1, <1>2, <1>3 DEF q

(* As many pings as their chains can have are told apart.                  *)
LEMMA TracedAreFew ==
  ASSUME GuardInv, Traced
  PROVE  /\ IsFiniteSet(Busy)
         /\ Cardinality(Busy) \in Nat
         /\ Cardinality(Busy) <= Chains * PingsOfChain
<1> USE ConstantTypes
<1>1. PICK f : TracedBy(f)
  BY DEF Traced
<1> DEFINE Numbers == 0..(Timeout \div Interval)
           Places == (1..Chains) \X Numbers
<1>2. ASSUME NEW p \in Busy PROVE f[p] \in Places
  <2>1. f[p][1] \in 1..Chains /\ f[p][2] \in Nat /\ f[p] = <<f[p][1], f[p][2]>>
    BY <1>1 DEF TracedBy
  <2>2. SetOffBefore(p, f[p][1], f[p][2])
    BY <1>1 DEF TracedBy
  <2>3. Age(p) \in 0..Timeout
    BY <1>2 DEF Busy, GuardInv, PingState, PingTypes, Age, Off
  <2>4. nextPing[f[p][1]] \in 0..Interval
    BY <2>1, <2>2 DEF SetOffBefore, GuardInv, Clocks, Never
  <2>5. f[p][2] * Interval \in Nat
    BY <2>1
  <2>6. f[p][2] * Interval <= Timeout
    BY <2>2, <2>3, <2>4, <2>5 DEF SetOffBefore
  <2>7. f[p][2] \in Numbers
    BY <2>1, <2>6, DivBounds
  <2> QED BY <2>1, <2>7
<1>3. f \in Injection(Busy, Places)
  BY <1>1, <1>2 DEF TracedBy, Injection, IsInjective
<1>4. Timeout \div Interval \in Nat
  BY DivBounds
<1>5. /\ IsFiniteSet(Numbers) /\ Cardinality(Numbers) = PingsOfChain
      /\ IsFiniteSet(1..Chains) /\ Cardinality(1..Chains) = Chains
  <2>1. ASSUME NEW m \in Nat
        PROVE  IsFiniteSet(0..m) /\ Cardinality(0..m) = m + 1
    BY FS_Interval
  <2>2. ASSUME NEW m \in Nat \ {0}
        PROVE  IsFiniteSet(1..m) /\ Cardinality(1..m) = m
    BY FS_Interval
  <2>3. IsFiniteSet(Numbers) /\ Cardinality(Numbers) = (Timeout \div Interval) + 1
    BY <1>4, <2>1, Zenon
  <2> QED BY <2>2, <2>3, Zenon DEF PingsOfChain
<1>6. IsFiniteSet(Places) /\ Cardinality(Places) = Chains * PingsOfChain
  BY <1>5, FS_Product
<1>7. IsFiniteSet(Busy) /\ Cardinality(Busy) <= Cardinality(Places)
  BY <1>3, <1>6, FS_Injection
<1>8. Cardinality(Busy) \in Nat
  BY <1>7, FS_CardinalityType
<1> QED BY <1>6, <1>7, <1>8

(* Nobody has pinged at first.                                             *)
LEMMA GuardInitTraced == GuardInit => Traced
<1> SUFFICES ASSUME GuardInit PROVE TracedBy([p \in Busy |-> <<1, 0>>])
  BY DEF Traced
<1> QED BY DEF GuardInit, Busy, TracedBy

(* Whatever sets no ping off and lets no time pass.                        *)
LEMMA TracedStays ==
  ASSUME Traced, Busy' \subseteq Busy,
         \A p \in Busy' : kill'[p] = kill[p],
         \A c \in 1..Chains : nextPing[c] # Never => nextPing'[c] = nextPing[c]
  PROVE  Traced'
<1>1. PICK f : TracedBy(f)
  BY DEF Traced
<1>g. PICK g : g = [p \in Busy' |-> f[p]]
  OBVIOUS
<1>2. TracedBy(g)'
  <2>1. g \in [Busy' -> (1..Chains) \X Nat]
    BY <1>1, <1>g DEF TracedBy
  <2>2. \A p, q \in Busy' : g[p] = g[q] => p = q
    BY <1>1, <1>g DEF TracedBy
  <2>3. ASSUME NEW p \in Busy' PROVE SetOffBefore(p, g[p][1], g[p][2])'
    <3>1. g[p] = f[p] /\ f[p][1] \in 1..Chains /\ SetOffBefore(p, f[p][1], f[p][2])
      BY <1>1, <1>g DEF TracedBy
    <3> QED BY <3>1 DEF SetOffBefore, Age
  <2> QED BY <2>1, <2>2, <2>3 DEF TracedBy
<1> QED BY <1>2 DEF Traced

(* A new ping is its chain's last; those before it are one further back.   *)
LEMMA StartPingTraced ==
  ASSUME GuardInv, Traced, NEW c \in 1..Chains, StartPing(c)
  PROVE  Traced'
<1> USE ConstantTypes
<1>1. PICK p \in FreeSlot : kill' = [kill EXCEPT ![p] = Timeout] /\ Ask(p)
  BY DEF StartPing
<1>2. /\ p \in Pings \ Busy /\ Busy' = Busy \cup {p}
      /\ kill'[p] = Timeout
      /\ \A q \in Busy : q # p /\ kill'[q] = kill[q]
  BY <1>1 DEF FreeSlot, Ask, Busy, GuardInv, PingTypes
<1>3. /\ nextPing[c] = 0 /\ nextPing'[c] = Interval
      /\ \A d \in 1..Chains : d # c => nextPing'[d] = nextPing[d]
  BY DEF StartPing, GuardInv, Clocks
<1>4. PICK f : TracedBy(f)
  BY DEF Traced
<1>g. PICK g : g = [q \in Busy' |-> IF q = p THEN <<c, 0>>
                                 ELSE IF f[q][1] = c THEN <<c, f[q][2] + 1>>
                                 ELSE f[q]]
  OBVIOUS
<1>5. \A q \in Busy : /\ f[q][1] \in 1..Chains /\ f[q][2] \in Nat
                      /\ f[q] = <<f[q][1], f[q][2]>>
  BY <1>4 DEF TracedBy
<1>6. g \in [Busy' -> (1..Chains) \X Nat]
  BY <1>g, <1>2, <1>5
<1>7. ASSUME NEW q \in Busy', NEW r \in Busy', g[q] = g[r] PROVE q = r
  <2>1. /\ g[p] = <<c, 0>>
        /\ \A b \in Busy : g[b] = IF f[b][1] = c THEN <<c, f[b][2] + 1>> ELSE f[b]
    BY <1>g, <1>2
  <2>2. ASSUME NEW b \in Busy
        PROVE  /\ g[b][1] = f[b][1]
               /\ g[b][2] = IF f[b][1] = c THEN f[b][2] + 1 ELSE f[b][2]
    <3>1. CASE f[b][1] = c
      <4>1. g[b] = <<c, f[b][2] + 1>>
        BY <2>1, <3>1, Zenon
      <4> QED BY <3>1, <4>1
    <3>2. CASE f[b][1] # c
      <4>1. g[b] = f[b]
        BY <2>1, <3>2, Zenon
      <4> QED BY <3>2, <4>1
    <3> QED BY <3>1, <3>2
  <2>3. \A b \in Busy : g[b] # g[p]
    <3>1. g[p][1] = c /\ g[p][2] = 0
      BY <2>1
    <3>2. ASSUME NEW b \in Busy, f[b][1] = c PROVE g[b][2] # 0
      BY <1>5, <2>2, <3>2
    <3> QED BY <2>2, <3>1, <3>2
  <2>4. ASSUME NEW a \in Busy, NEW b \in Busy, g[a] = g[b] PROVE f[a] = f[b]
    <3>1. f[a][1] = f[b][1]
      BY <2>2, <2>4
    <3>2. f[a][2] = f[b][2]
      BY <1>5, <2>2, <2>4, <3>1
    <3> QED BY <1>5, <3>1, <3>2
  <2> QED BY <1>2, <1>4, <1>7, <2>3, <2>4 DEF TracedBy
<1>8. ASSUME NEW q \in Busy' PROVE SetOffBefore(q, g[q][1], g[q][2])'
  <2>1. CASE q = p
    <3>1. g[q] = <<c, 0>> /\ Age(q)' = 0
      BY <1>g, <1>2, <2>1 DEF Age
    <3> QED BY <1>3, <3>1 DEF SetOffBefore, Never
  <2>2. CASE q # p /\ f[q][1] = c
    <3>1. q \in Busy /\ SetOffBefore(q, c, f[q][2]) /\ f[q][2] \in Nat
      BY <1>2, <1>4, <1>5, <2>2 DEF TracedBy
    <3>2. (f[q][2] + 1) * Interval = f[q][2] * Interval + Interval
          /\ f[q][2] * Interval \in Nat
      BY <3>1, OneMorePause
    <3>3. g[q] = <<c, f[q][2] + 1>>
      BY <1>g, <2>2
    <3>4. Age(q)' = Age(q)
      BY <1>2, <3>1 DEF Age
    <3>5. Age(q) = Interval + f[q][2] * Interval
      BY <1>3, <3>1 DEF SetOffBefore
    <3> QED BY <1>3, <3>2, <3>3, <3>4, <3>5 DEF SetOffBefore, Never
  <2>3. CASE q # p /\ f[q][1] # c
    <3>1. g[q] = f[q] /\ q \in Busy
      BY <1>g, <1>2, <2>3
    <3> QED BY <1>2, <1>3, <1>4, <1>5, <2>3, <3>1 DEF TracedBy, SetOffBefore, Age
  <2> QED BY <2>1, <2>2, <2>3
<1> QED BY <1>6, <1>7, <1>8 DEF Traced, TracedBy

(* Pings and chains grow older together.                                   *)
LEMMA TickTraced ==
  ASSUME GuardInv, Traced, Tick
  PROVE  Traced'
<1> USE ConstantTypes
<1>1. Busy' = Busy
  BY DEF Tick, Busy
<1>2. \A p \in Busy : Age(p)' = Age(p) + 1
  BY DEF Tick, Busy, Age, GuardInv, PingState, PingTypes, Off
<1>3. \A c \in 1..Chains : nextPing[c] # Never =>
        /\ nextPing[c] \in 1..Interval
        /\ nextPing'[c] = nextPing[c] - 1
  BY DEF Tick, GuardInv, Clocks, Never
<1>4. PICK f : TracedBy(f)
  BY DEF Traced
<1>5. ASSUME NEW p \in Busy PROVE SetOffBefore(p, f[p][1], f[p][2])'
  <2>1. f[p][1] \in 1..Chains /\ f[p][2] \in Nat /\ SetOffBefore(p, f[p][1], f[p][2])
    BY <1>4 DEF TracedBy
  <2>2. f[p][2] * Interval \in Nat
    BY <2>1
  <2> QED BY <1>2, <1>3, <2>1, <2>2 DEF SetOffBefore, Never
<1> QED BY <1>1, <1>4, <1>5 DEF Traced, TracedBy

LEMMA NextKeepsTraced == GuardInv /\ Traced /\ [GuardNext]_guardVars => Traced'
<1> SUFFICES ASSUME GuardInv, Traced, [GuardNext]_guardVars PROVE Traced'
  OBVIOUS
<1>1. ASSUME NEW c \in 1..Chains, ChainStarts(c) PROVE Traced'
  <2>1. Busy' = Busy /\ kill' = kill
    BY <1>1 DEF ChainStarts, Busy
  <2>2. \A d \in 1..Chains : nextPing[d] # Never => nextPing'[d] = nextPing[d]
    BY <1>1 DEF ChainStarts, GuardInv, Clocks
  <2> QED BY <2>1, <2>2, TracedStays
<1>2. ASSUME NEW p \in Pings, Answered(p) PROVE Traced'
  BY <1>2, TracedStays DEF Answered, Busy, GuardInv, PingTypes
<1>3. ASSUME NEW p \in Pings, Unavailable(p) \/ Retry(p) \/ Rejected(p) PROVE Traced'
  <2>1. Busy' \subseteq Busy /\ UNCHANGED <<kill, nextPing>>
    BY <1>3 DEF Unavailable, Retry, Rejected, Ask, Busy, GuardInv, PingTypes
  <2> QED BY <2>1, TracedStays
<1>4. ASSUME NEW p \in Pings, KillTimerFires(p) PROVE Traced'
  BY <1>4, TracedStays DEF KillTimerFires, Busy
<1>5. ASSUME NEW state, LinkChanges(state) PROVE Traced'
  BY <1>5, TracedStays DEF LinkChanges, Busy
<1>6. CASE UNCHANGED guardVars
  BY <1>6, TracedStays DEF guardVars, Busy
<1> QED
  BY <1>1, <1>2, <1>3, <1>4, <1>5, <1>6, StartPingTraced, TickTraced DEF GuardNext

LEMMA TracedAlways == GuardSpec => []Traced
  BY GuardInitTraced, NextKeepsTraced, GuardInvHolds, PTL DEF GuardSpec

(* Pings do not pile up: a chain has no more of them under way than fit    *)
(* into the timeout.                                                       *)
THEOREM PingsAreBounded == GuardSpec => []BoundedPings
<1>1. GuardInv /\ Traced => BoundedPings
  BY TracedAreFew DEF BoundedPings, Busy, PingsOfChain
<1> QED BY <1>1, GuardInvHolds, TracedAlways, PTL

(* There is a place for another ping, the one StartPing takes.             *)
PlaceForNextPing == \E p \in FreeSlot : \A r \in FreeSlot : p <= r

(* So a ping that is due always finds a place, whatever Slots is: the      *)
(* bound on the places holds no timer back, in any of the theorems above.  *)
THEOREM PlaceIsAlwaysThere == GuardSpec => []PlaceForNextPing
<1>1. ASSUME GuardInv, Traced PROVE PlaceForNextPing
  <2>1. FreeSlot # {}
    <3> SUFFICES ASSUME Busy = Pings PROVE FALSE
      BY DEF FreeSlot, Busy
    <3>1. Cardinality(Pings) = Slots
      BY FS_Interval, GuardAssumption DEF Pings
    <3>2. Chains * PingsOfChain < Slots
      BY GuardAssumption DEF PingsOfChain
    <3>3. Chains * PingsOfChain \in Int
      BY GuardAssumption, DivBounds DEF PingsOfChain
    <3> QED BY <1>1, <3>1, <3>2, <3>3, TracedAreFew, GuardAssumption
  <2>2. FreeSlot \subseteq Nat
    BY GuardAssumption DEF FreeSlot, Pings
  <2>3. PICK p \in FreeSlot : \A r \in FreeSlot : <<r, p>> \notin OpToRel(<, Nat)
    BY <2>1, <2>2, WFMin, NatLessThanWellFounded
  <2>4. \A r \in FreeSlot : ~(r < p)
    BY <2>2, <2>3 DEF OpToRel
  <2> QED BY <2>2, <2>4 DEF PlaceForNextPing
<1> QED BY <1>1, GuardInvHolds, TracedAlways, PTL
=============================================================================

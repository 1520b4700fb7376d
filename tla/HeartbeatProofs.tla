--------------------------- MODULE HeartbeatProofs ---------------------------
(***************************************************************************)
(* Proofs about InformSchedule.tla and Heartbeat.tla for every width of    *)
(* the integers, every set of configurations, hints and clock readings and *)
(* every bound on the failures.  The schedule's invariant is shown for the *)
(* schedule's own steps first; a turn of the presence loop is one of them, *)
(* or a restart.                                                           *)
(***************************************************************************)
EXTENDS Heartbeat, WellFoundedInduction, TLAPS

\* The doubling loop stays between the interval and the maximum.
LoopBounds ==
  loop.running => /\ effective <= loop.delay /\ loop.delay <= backoffMaximum
                  /\ loop.count <= failures /\ failures > 0

\* A granted immediate delay leaves the latch set, until a failure is counted.
LatchHeld == decision.ImmediateApplied => immediateLatched \/ loop.running

SInv == /\ ScheduleTypeOK /\ EffectiveWithinPolicy /\ DelayWithinBounds
        /\ LoopBounds /\ LatchHeld /\ ImmediateNeverTwice

\* In a valid configuration every retained interval is positive.
LEMMA EffectivePositive ==
  ASSUME ScheduleTypeOK, EffectiveWithinPolicy
  PROVE  /\ effective \in 1 .. MaxInt /\ backoffMaximum \in 1 .. MaxInt
         /\ effective <= backoffMaximum
<1>1. config \in ScheduleConfig
  BY ScheduleAssumption DEF ScheduleTypeOK
<1>2. effective > 0 /\ effective \in 1 .. MaxInt
  BY <1>1, ScheduleAssumption
     DEF ScheduleTypeOK, EffectiveWithinPolicy, ValidateScheduleConfig, minimumInterval,
         larger, Duration, ScheduleConfig
<1>3. QED
  BY <1>1, <1>2, ScheduleAssumption DEF backoffMaximum, larger, ScheduleConfig, Duration

\* A hint, converted and clamped, lies within the bounds of a valid
\* configuration.
LEMMA HintClamped ==
  ASSUME ScheduleTypeOK, config.ControllerHints, NEW hint \in Duration
  PROVE  LET e == clampDuration(hint, minimumInterval(config), maximumInterval(config))
         IN /\ e \in Duration
            /\ minimumInterval(config) <= e /\ e <= maximumInterval(config)
<1>1. config \in ScheduleConfig
  BY ScheduleAssumption DEF ScheduleTypeOK
<1>2. /\ minimumInterval(config) \in Duration /\ maximumInterval(config) \in Duration
      /\ minimumInterval(config) <= maximumInterval(config)
  BY <1>1, ScheduleAssumption
     DEF ScheduleTypeOK, ValidateScheduleConfig, minimumInterval, maximumInterval, larger,
         smaller, Duration, ScheduleConfig
<1>3. QED
  BY <1>2 DEF clampDuration, Duration

\* Wrapped arithmetic stays within the width.
LEMMA WrapType ==
  ASSUME NEW x \in Int
  PROVE  Wrap(x) \in Duration
<1> DEFINE m == 2 * MaxInt + 2
           r == (x + MaxInt + 1) % m
<1>1. m \in Nat /\ m > 0 /\ x + MaxInt + 1 \in Int
  BY ScheduleAssumption
<1>2. r \in 0 .. m - 1
  <2> HIDE DEF m
  <2>1. QED BY <1>1
<1>3. QED
  BY <1>2, ScheduleAssumption DEF Wrap, Duration

\* The hint's conversion from seconds never leaves the type.
LEMMA HintType ==
  ASSUME NEW seconds \in HintSeconds
  PROVE  controllerIntervalDuration(seconds) \in Duration
<1>1. seconds \in Int /\ Second \in Int /\ seconds * Second \in Int
  BY ScheduleAssumption DEF Duration
<1>2. Wrap(seconds * Second) \in Duration
  BY <1>1, WrapType
<1>3. QED
  BY <1>1, <1>2, ScheduleAssumption DEF controllerIntervalDuration, Duration

\* Every delay the jitter can produce lies between its bounds.
LEMMA JitterBounds ==
  ASSUME ScheduleTypeOK,
         NEW minimum \in Duration, NEW maximum \in Duration, NEW delay \in Duration,
         minimum <= delay, delay <= maximum,
         NEW d \in jitter(delay, minimum, maximum)
  PROVE  d \in Duration /\ minimum <= d /\ d <= maximum
<1>1. CASE config.JitterPercent = 0 \/ delay <= 0 \/ jitterWindow(delay) <= 0
  BY <1>1 DEF jitter
<1>2. CASE ~(config.JitterPercent = 0 \/ delay <= 0 \/ jitterWindow(delay) <= 0)
  <2>1. config.JitterPercent \in Int
    BY ScheduleAssumption DEF ScheduleTypeOK, ValidateScheduleConfig
  <2>2. delay \in Int /\ delay * config.JitterPercent \in Int
    BY <2>1 DEF Duration
  <2>3. Wrap(delay * config.JitterPercent) \in Int
    BY <2>2, WrapType DEF Duration
  <2>4. jitterWindow(delay) \in Int
    BY <2>3 DEF jitterWindow
  <2>5. PICK offset \in (-jitterWindow(delay)) .. jitterWindow(delay) :
          d = clampDuration(Wrap(delay + offset), minimum, maximum)
    BY <1>2 DEF jitter
  <2>6. delay + offset \in Int
    BY <2>2, <2>4, <2>5
  <2>7. Wrap(delay + offset) \in Duration
    BY <2>6, WrapType
  <2>8. QED
    BY <2>5, <2>7 DEF clampDuration, Duration
<1>3. QED BY <1>1, <1>2

(***************************************************************************)
(* The invariant is inductive.                                             *)
(***************************************************************************)

\* A new schedule satisfies the invariant.
LEMMA InitSInv == NewSchedule => SInv
<1> SUFFICES ASSUME NewSchedule PROVE SInv
  OBVIOUS
<1>1. config \in ScheduleConfig /\ ValidateScheduleConfig(config) /\ config \in Configs
  BY ScheduleAssumption DEF NewSchedule
<1>2. config.BaseInterval \in Duration /\ config.BaseInterval > 0 /\ 0 \in Duration
  BY <1>1, ScheduleAssumption DEF ScheduleConfig, ValidateScheduleConfig, Duration
<1>3. idleLoop \in [running : BOOLEAN, count : 0 .. MaxFailures, delay : Duration]
  BY <1>2, ScheduleAssumption DEF idleLoop
<1>4. Decision(config.BaseInterval, FALSE, FALSE)
        \in [NextDelay : Duration, Backoff : BOOLEAN, ImmediateApplied : BOOLEAN]
  BY <1>2 DEF Decision
<1>5. immediateLatched \in BOOLEAN /\ wasImmediate \in BOOLEAN
  BY DEF NewSchedule
<1>6. effective \in Duration /\ failures \in 0 .. MaxFailures
  BY <1>2, ScheduleAssumption DEF NewSchedule
<1>7. ScheduleTypeOK
  BY <1>1, <1>3, <1>4, <1>5, <1>6 DEF NewSchedule, ScheduleTypeOK
<1>8. QED
  BY <1>2, <1>7 DEF NewSchedule, SInv, EffectiveWithinPolicy, DelayWithinBounds, LoopBounds,
     LatchHeld, ImmediateNeverTwice, idleLoop, Decision

\* A decision taken outside the loop, with a new retained interval.
LEMMA DecisionKeeps ==
  ASSUME SInv, NEW delay \in Duration, NEW immediate \in BOOLEAN,
         ~loop.running, loop' = loop, config' = config,
         effective' \in Duration, EffectiveWithinPolicy',
         failures' \in 0 .. MaxFailures, immediateLatched' \in BOOLEAN,
         delay = effective' \/ delay = immediateInformDelay,
         immediate => ~immediateLatched /\ immediateLatched',
         Decide(Decision(delay, FALSE, immediate))
  PROVE  SInv'
<1>1. ScheduleTypeOK'
  BY DEF SInv, ScheduleTypeOK, Decide, Decision, Duration
<1>2. delay > 0
  <2>1. config \in ScheduleConfig /\ ValidateScheduleConfig(config)
    BY ScheduleAssumption DEF SInv, ScheduleTypeOK
  <2>2. effective' > 0
    BY <2>1, ScheduleAssumption
       DEF EffectiveWithinPolicy, ValidateScheduleConfig, minimumInterval, larger, Duration,
           ScheduleConfig
  <2>3. QED BY <2>2, ScheduleAssumption
<1>3. decision' = Decision(delay, FALSE, immediate) /\ wasImmediate' = decision.ImmediateApplied
  BY DEF Decide
<1>4. ImmediateNeverTwice'
  BY <1>3 DEF SInv, LatchHeld, ImmediateNeverTwice, Decision
<1>5. QED
  BY <1>1, <1>2, <1>3, <1>4 DEF SInv, DelayWithinBounds, LoopBounds, LatchHeld, Decision

\* Every step keeps the invariant.
LEMMA NextSInv == SInv /\ [ScheduleNext]_scheduleVars => SInv'
<1> SUFFICES ASSUME SInv, [ScheduleNext]_scheduleVars PROVE SInv'
  OBVIOUS
<1>1. /\ ScheduleTypeOK /\ EffectiveWithinPolicy /\ config \in ScheduleConfig
      /\ effective \in Duration
  BY ScheduleAssumption DEF SInv, ScheduleTypeOK
<1>2. /\ effective \in 1 .. MaxInt /\ backoffMaximum \in 1 .. MaxInt
      /\ effective <= backoffMaximum
  BY <1>1, EffectivePositive
<1>3. CASE Current
  <2>1. EffectiveWithinPolicy'
    BY <1>1, <1>3 DEF Current, EffectiveWithinPolicy
  <2>2. /\ ~loop.running /\ loop' = loop /\ config' = config /\ effective' = effective
        /\ failures' \in 0 .. MaxFailures /\ immediateLatched' \in BOOLEAN
        /\ Decide(Decision(effective, FALSE, FALSE))
    BY <1>1, <1>3 DEF Current, ScheduleTypeOK
  <2>3. QED
    BY <1>1, <2>1, <2>2, DecisionKeeps
<1>4. CASE Reset
  <2>1. /\ ~loop.running /\ loop' = loop /\ config' = config
        /\ effective' = config.BaseInterval
        /\ failures' = 0 /\ immediateLatched' = FALSE
        /\ Decide(Decision(effective', FALSE, FALSE))
    BY <1>4 DEF Reset
  <2>2. effective' \in Duration /\ EffectiveWithinPolicy'
    BY <1>1, <2>1 DEF EffectiveWithinPolicy, ScheduleConfig
  <2>3. failures' \in 0 .. MaxFailures
    BY <2>1, ScheduleAssumption
  <2>4. immediateLatched' \in BOOLEAN
    BY <2>1
  <2>5. QED
    BY <2>1, <2>2, <2>3, <2>4, DecisionKeeps
<1>5. ASSUME NEW hint \in Duration, NEW immediate \in BOOLEAN,
             SuccessWithOptions(hint, immediate)
      PROVE  SInv'
  <2> DEFINE grant == immediate /\ ~immediateLatched
             delay == IF grant THEN immediateInformDelay ELSE effective'
  <2>2. /\ ~loop.running /\ loop' = loop /\ config' = config
        /\ failures' = 0 /\ immediateLatched' = immediate
        /\ effective' = IF config.ControllerHints /\ hint > 0
                          THEN clampDuration(hint, minimumInterval(config), maximumInterval(config))
                          ELSE effective
        /\ Decide(Decision(delay, FALSE, grant))
    BY <1>5 DEF SuccessWithOptions
  <2>3. effective' \in Duration /\ EffectiveWithinPolicy'
    <3>1. CASE config.ControllerHints /\ hint > 0
      BY <1>1, <2>2, <3>1, HintClamped DEF EffectiveWithinPolicy
    <3>2. CASE ~(config.ControllerHints /\ hint > 0)
      BY <1>1, <2>2, <3>2 DEF EffectiveWithinPolicy
    <3>3. QED BY <3>1, <3>2
  <2>4. delay \in Duration /\ grant \in BOOLEAN
    BY <2>3, ScheduleAssumption DEF Duration
  <2>5. failures' \in 0 .. MaxFailures
    BY <2>2, ScheduleAssumption
  <2>6. delay = effective' \/ delay = immediateInformDelay
    OBVIOUS
  <2>7. grant => ~immediateLatched /\ immediateLatched'
    BY <2>2
  <2> HIDE DEF delay, grant
  <2>8. QED
    BY <2>2, <2>3, <2>4, <2>5, <2>6, <2>7, DecisionKeeps
<1>6. CASE FailureBegin
  <2>1. /\ failures < MaxFailures /\ failures' = failures + 1 /\ immediateLatched' = FALSE
        /\ loop' = [running |-> TRUE, count |-> 0, delay |-> effective]
        /\ UNCHANGED <<config, effective, decision, wasImmediate>>
    BY <1>6 DEF FailureBegin
  <2>2. failures' \in 0 .. MaxFailures /\ failures' > 0
    BY <1>1, <2>1, ScheduleAssumption DEF ScheduleTypeOK
  <2>3. loop' \in [running : BOOLEAN, count : 0 .. MaxFailures, delay : Duration]
    BY <1>1, <2>1, ScheduleAssumption
  <2>4. ScheduleTypeOK'
    <3>1. immediateLatched' \in BOOLEAN
      BY <2>1
    <3>2. QED BY <1>1, <2>1, <2>2, <2>3, <3>1 DEF ScheduleTypeOK
  <2>5. LoopBounds'
    BY <1>1, <1>2, <2>1, <2>2 DEF LoopBounds, backoffMaximum
  <2>6. DelayWithinBounds' /\ LatchHeld' /\ ImmediateNeverTwice' /\ EffectiveWithinPolicy'
    BY <2>1 DEF SInv, DelayWithinBounds, LatchHeld, ImmediateNeverTwice, EffectiveWithinPolicy
  <2>7. QED BY <2>4, <2>5, <2>6 DEF SInv
<1>7. CASE FailureDouble
  <2>1. /\ loop.running /\ loop.count # failures
        /\ UNCHANGED <<config, effective, failures, immediateLatched, decision, wasImmediate>>
        /\ loop' = IF doubledPastMaximum(loop.delay)
                     THEN [running |-> TRUE, count |-> failures, delay |-> backoffMaximum]
                     ELSE [running |-> TRUE, count |-> loop.count + 1,
                           delay |-> Wrap(loop.delay * 2)]
    BY <1>7 DEF FailureDouble, loopEnded
  <2>2. /\ loop.count \in 0 .. MaxFailures /\ loop.delay \in Duration
        /\ failures \in 0 .. MaxFailures /\ loop.count < failures
        /\ effective <= loop.delay /\ loop.delay <= backoffMaximum
    BY <1>1, <2>1 DEF SInv, LoopBounds, ScheduleTypeOK
  <2>3. /\ loop'.running = TRUE /\ loop'.count \in 0 .. MaxFailures /\ loop'.count <= failures
        /\ loop'.delay \in Duration /\ effective <= loop'.delay /\ loop'.delay <= backoffMaximum
        /\ loop' \in [running : BOOLEAN, count : 0 .. MaxFailures, delay : Duration]
    <3>1. CASE doubledPastMaximum(loop.delay)
      <4>1. loop' = [running |-> TRUE, count |-> failures, delay |-> backoffMaximum]
        BY <2>1, <3>1
      <4>2. backoffMaximum \in Duration
        BY <1>2, ScheduleAssumption DEF Duration
      <4>3. QED BY <1>2, <2>2, <4>1, <4>2
    <3>2. CASE ~doubledPastMaximum(loop.delay)
      <4>1. /\ loop.delay * 2 \in Duration
            /\ effective <= loop.delay * 2 /\ loop.delay * 2 <= backoffMaximum
        BY <1>2, <2>2, <3>2, ScheduleAssumption DEF doubledPastMaximum, Duration
      <4>2. Wrap(loop.delay * 2) = loop.delay * 2
        BY <4>1 DEF Wrap
      <4>3. loop' = [running |-> TRUE, count |-> loop.count + 1, delay |-> loop.delay * 2]
        BY <2>1, <3>2, <4>2
      <4>4. loop.count + 1 \in 0 .. MaxFailures /\ loop.count + 1 <= failures
        BY <2>2, ScheduleAssumption
      <4>5. QED BY <4>1, <4>3, <4>4
    <3>3. QED BY <3>1, <3>2
  <2>4. ScheduleTypeOK'
    BY <1>1, <2>1, <2>3 DEF ScheduleTypeOK
  <2>5. LoopBounds'
    BY <2>1, <2>2, <2>3, ScheduleAssumption DEF LoopBounds, backoffMaximum
  <2>6. DelayWithinBounds' /\ LatchHeld' /\ ImmediateNeverTwice' /\ EffectiveWithinPolicy'
    BY <2>1, <2>3 DEF SInv, DelayWithinBounds, LatchHeld, ImmediateNeverTwice, EffectiveWithinPolicy
  <2>7. QED BY <2>4, <2>5, <2>6 DEF SInv
<1>8. CASE FailureEnd
  <2>1. /\ loop.running /\ loop' = idleLoop
        /\ UNCHANGED <<config, effective, failures, immediateLatched>>
        /\ \E delay \in jitter(loop.delay, effective, backoffMaximum) :
             Decide(Decision(delay, TRUE, FALSE))
    BY <1>8 DEF FailureEnd
  <2>2. PICK delay \in jitter(loop.delay, effective, backoffMaximum) :
          Decide(Decision(delay, TRUE, FALSE))
    BY <2>1
  <2>3. delay \in Duration /\ effective <= delay /\ delay <= backoffMaximum
    <3>1. /\ loop.delay \in Duration /\ effective <= loop.delay /\ loop.delay <= backoffMaximum
          /\ backoffMaximum \in Duration
      BY <1>1, <1>2, <2>1, ScheduleAssumption DEF SInv, LoopBounds, ScheduleTypeOK, Duration
    <3>2. QED BY <1>1, <2>2, <3>1, JitterBounds
  <2>4. decision' = Decision(delay, TRUE, FALSE) /\ wasImmediate' = decision.ImmediateApplied
    BY <2>2 DEF Decide
  <2>5. ScheduleTypeOK'
    BY <1>1, <2>1, <2>3, <2>4, ScheduleAssumption
       DEF ScheduleTypeOK, idleLoop, Decision, Duration
  <2>6. DelayWithinBounds'
    BY <1>2, <2>1, <2>3, <2>4 DEF DelayWithinBounds, Decision, backoffMaximum, Duration
  <2>7. LoopBounds' /\ LatchHeld' /\ ImmediateNeverTwice' /\ EffectiveWithinPolicy'
    BY <1>1, <2>1, <2>4 DEF LoopBounds, LatchHeld, ImmediateNeverTwice, EffectiveWithinPolicy,
                            Decision, idleLoop
  <2>8. QED BY <2>5, <2>6, <2>7 DEF SInv
<1>9. CASE UNCHANGED scheduleVars
  BY <1>9 DEF scheduleVars, SInv, ScheduleTypeOK, EffectiveWithinPolicy, DelayWithinBounds,
              LoopBounds, LatchHeld, ImmediateNeverTwice, backoffMaximum
<1>10. CASE Success(0)
  <2>1. 0 \in Duration /\ FALSE \in BOOLEAN
    BY ScheduleAssumption DEF Duration
  <2>2. QED BY <1>5, <1>10, <2>1 DEF Success
<1>11. ASSUME NEW seconds \in HintSeconds, NEW immediate \in BOOLEAN,
              SuccessWithOptions(controllerIntervalDuration(seconds), immediate)
       PROVE  SInv'
  BY <1>5, <1>11, HintType
<1>12. QED
  BY <1>3, <1>4, <1>6, <1>7, <1>8, <1>9, <1>10, <1>11 DEF ScheduleNext

(***************************************************************************)
(* The doubling loop computes a power of two.                              *)
(***************************************************************************)

\* f doubles from one up to n.
Doubles(f, n) == f \in [0 .. n -> Nat] /\ f[0] = 1 /\ \A i \in 1 .. n : f[i] = 2 * f[i - 1]

\* A set of naturals that is not empty has a least element.
LEMMA LeastNatural ==
  ASSUME NEW T \in SUBSET Nat, T # {}
  PROVE  \E k \in T : \A j \in T : k <= j
<1>1. PICK k \in T : \A j \in T : ~ (<<j, k>> \in OpToRel(<, Nat))
  BY NatLessThanWellFounded, WFMin
<1>2. \A j \in T : ~ (j < k)
  BY <1>1 DEF OpToRel
<1>3. \A j \in T : j \in Nat /\ k \in Nat
  OBVIOUS
<1>4. \A j \in T : k <= j
  BY <1>2, <1>3
<1>5. QED BY <1>4

\* Doubling can be carried on to any length.
LEMMA DoublesExist ==
  ASSUME NEW n \in Nat
  PROVE  \E f : Doubles(f, n)
<1> DEFINE T == {k \in Nat : ~ \E f : Doubles(f, k)}
<1>1. SUFFICES ASSUME T # {} PROVE FALSE
  OBVIOUS
<1>2. PICK k \in T : \A j \in T : k <= j
  <2>1. T \in SUBSET Nat
    OBVIOUS
  <2> HIDE DEF T
  <2>2. QED BY <1>1, <2>1, LeastNatural
<1>3. k # 0
  <2>1. Doubles([i \in 0 .. 0 |-> 1], 0)
    BY DEF Doubles
  <2>2. QED BY <2>1
<1>4. PICK g : Doubles(g, k - 1)
  <2>1. k - 1 \in Nat /\ ~ (k <= k - 1)
    BY <1>3
  <2>2. QED BY <1>2, <2>1
<1> DEFINE f == [i \in 0 .. k |-> IF i = k THEN 2 * g[k - 1] ELSE g[i]]
<1>5. k \in Nat /\ k > 0
  BY <1>3
<1>6. Doubles(f, k)
  <2>1. g \in [0 .. k - 1 -> Nat] /\ g[0] = 1 /\ \A i \in 1 .. k - 1 : g[i] = 2 * g[i - 1]
    BY <1>4 DEF Doubles
  <2>2. f \in [0 .. k -> Nat]
    BY <1>5, <2>1
  <2>3. f[0] = 1
    BY <1>5, <2>1
  <2>4. ASSUME NEW i \in 1 .. k PROVE f[i] = 2 * f[i - 1]
    BY <1>5, <2>1
  <2>5. QED BY <2>2, <2>3, <2>4 DEF Doubles
<1>7. QED BY <1>6

\* Any two of them agree where both are defined.
LEMMA DoublesAgree ==
  ASSUME NEW m \in Nat, NEW n \in Nat, NEW f, NEW g, Doubles(f, m), Doubles(g, n),
         NEW i \in Nat, i <= m, i <= n
  PROVE  f[i] = g[i]
<1> DEFINE T == {k \in Nat : k <= m /\ k <= n /\ f[k] # g[k]}
<1>1. SUFFICES ASSUME T # {} PROVE FALSE
  OBVIOUS
<1>2. PICK k \in T : \A j \in T : k <= j
  <2>1. T \in SUBSET Nat
    OBVIOUS
  <2> HIDE DEF T
  <2>2. QED BY <1>1, <2>1, LeastNatural
<1>3. k # 0
  BY DEF Doubles
<1>4. k - 1 \in Nat /\ k - 1 <= m /\ k - 1 <= n /\ ~ (k <= k - 1)
  BY <1>3
<1>5. f[k - 1] = g[k - 1]
  BY <1>2, <1>4
<1>6. k \in 1 .. m /\ k \in 1 .. n
  BY <1>3
<1>7. QED
  BY <1>5, <1>6 DEF Doubles

\* powerOfTwo satisfies its recursive equation.
LEMMA PowerOfTwo ==
  /\ powerOfTwo \in [Nat -> Nat] /\ powerOfTwo[0] = 1
  /\ \A n \in Nat : powerOfTwo[n + 1] = 2 * powerOfTwo[n]
<1> DEFINE upTo(n) == CHOOSE f : Doubles(f, n)
           p == [n \in Nat |-> upTo(n)[n]]
<1>1. \A n \in Nat : Doubles(upTo(n), n)
  BY DoublesExist
<1> HIDE DEF upTo
<1>2. p \in [Nat -> Nat]
  BY <1>1 DEF Doubles
<1>3. p[0] = 1
  BY <1>1 DEF Doubles
<1>4. ASSUME NEW n \in Nat, n # 0 PROVE p[n] = 2 * p[n - 1]
  <2>1. n - 1 \in Nat /\ n - 1 <= n /\ n - 1 <= n - 1 /\ n \in 1 .. n
    BY <1>4
  <2>2. upTo(n)[n] = 2 * upTo(n)[n - 1]
    BY <1>1, <2>1 DEF Doubles
  <2>3. upTo(n)[n - 1] = upTo(n - 1)[n - 1]
    BY <1>1, <2>1, DoublesAgree
  <2>4. QED BY <2>1, <2>2, <2>3
<1> HIDE DEF p
<1>5. p = [n \in Nat |-> IF n = 0 THEN 1 ELSE 2 * p[n - 1]]
  BY <1>2, <1>3, <1>4
<1>6. powerOfTwo = [n \in Nat |-> IF n = 0 THEN 1 ELSE 2 * powerOfTwo[n - 1]]
  BY <1>5 DEF powerOfTwo
<1>7. \A n \in Nat : powerOfTwo[n] = IF n = 0 THEN 1 ELSE 2 * powerOfTwo[n - 1]
  BY <1>6
<1>8. DOMAIN powerOfTwo = Nat
  BY <1>6
<1>9. \A n \in Nat : powerOfTwo[n] = p[n]
  <2> DEFINE T == {k \in Nat : powerOfTwo[k] # p[k]}
  <2>1. SUFFICES ASSUME T # {} PROVE FALSE
    OBVIOUS
  <2>2. PICK k \in T : \A j \in T : k <= j
    <3>1. T \in SUBSET Nat
      OBVIOUS
    <3> HIDE DEF T
    <3>2. QED BY <2>1, <3>1, LeastNatural
  <2>3. k # 0
    BY <1>3, <1>7
  <2>4. k - 1 \in Nat /\ ~ (k <= k - 1)
    BY <2>3
  <2>5. powerOfTwo[k - 1] = p[k - 1]
    BY <2>2, <2>4
  <2>6. QED BY <1>4, <1>7, <2>3, <2>5
<1>10. powerOfTwo = p
  BY <1>2, <1>6, <1>9
<1>11. \A n \in Nat : n + 1 \in Nat /\ n + 1 # 0 /\ (n + 1) - 1 = n
  OBVIOUS
<1>12. \A n \in Nat : powerOfTwo[n + 1] = 2 * powerOfTwo[n]
  BY <1>7, <1>11
<1>13. QED
  BY <1>2, <1>3, <1>10, <1>12

\* Powers of two grow.
LEMMA PowersGrow ==
  ASSUME NEW m \in Nat, NEW n \in Nat, m <= n
  PROVE  powerOfTwo[m] <= powerOfTwo[n]
<1> DEFINE T == {d \in Nat : ~ (powerOfTwo[m] <= powerOfTwo[m + d])}
<1>1. T = {}
  <2>1. SUFFICES ASSUME T # {} PROVE FALSE
    OBVIOUS
  <2>2. PICK d \in T : \A j \in T : d <= j
    <3>1. T \in SUBSET Nat
      OBVIOUS
    <3> HIDE DEF T
    <3>2. QED BY <2>1, <3>1, LeastNatural
  <2>3. d # 0
    BY PowerOfTwo
  <2>4. d - 1 \in Nat /\ ~ (d <= d - 1) /\ m + (d - 1) \in Nat /\ (m + (d - 1)) + 1 = m + d
    BY <2>3
  <2>5. powerOfTwo[m] <= powerOfTwo[m + (d - 1)]
    BY <2>2, <2>4
  <2>6. powerOfTwo[m + d] = 2 * powerOfTwo[m + (d - 1)]
    BY <2>4, PowerOfTwo
  <2>7. powerOfTwo[m] \in Nat /\ powerOfTwo[m + (d - 1)] \in Nat
    BY <2>4, PowerOfTwo
  <2>8. QED BY <2>5, <2>6, <2>7
<1>2. n - m \in Nat /\ m + (n - m) = n
  OBVIOUS
<1>3. QED BY <1>1, <1>2

\* While the loop runs, its delay is the interval doubled once per iteration,
\* or the loop has left early because that product passes the maximum.
LoopDoubles ==
  loop.running =>
    \/ loop.delay = effective * powerOfTwo[loop.count]
    \/ /\ loop.count = failures /\ loop.delay = backoffMaximum
       /\ backoffMaximum <= effective * powerOfTwo[failures]

\* Products of naturals grow with their factor.
LEMMA ProductsGrow ==
  ASSUME NEW a \in Nat, NEW x \in Nat, NEW y \in Nat, x <= y
  PROVE  a * x \in Nat /\ a * x <= a * y
OBVIOUS

\* Doubling a product doubles its factor.
LEMMA DoubledProduct ==
  ASSUME NEW a \in Nat, NEW x \in Nat
  PROVE  (a * x) * 2 = a * (2 * x)
OBVIOUS

\* Every step of the schedule keeps the loop's delay a power of two times the
\* interval.
LEMMA NextDoubles == SInv /\ LoopDoubles /\ [ScheduleNext]_scheduleVars => LoopDoubles'
<1> SUFFICES ASSUME SInv, LoopDoubles, [ScheduleNext]_scheduleVars PROVE LoopDoubles'
  OBVIOUS
<1>1. /\ effective \in 1 .. MaxInt /\ backoffMaximum \in 1 .. MaxInt
      /\ effective <= backoffMaximum
  BY EffectivePositive DEF SInv
<1>2. CASE FailureBegin
  <2>1. /\ effective' = effective
        /\ loop' = [running |-> TRUE, count |-> 0, delay |-> effective]
    BY <1>2 DEF FailureBegin
  <2>2. effective * powerOfTwo[0] = effective
    BY <1>1, PowerOfTwo
  <2>3. loop'.delay = effective' * powerOfTwo[loop'.count]
    BY <2>1, <2>2
  <2>4. QED BY <2>3 DEF LoopDoubles
<1>3. CASE FailureDouble
  <2>1. /\ loop.running /\ loop.count # failures
        /\ UNCHANGED <<config, effective, failures>> /\ backoffMaximum' = backoffMaximum
        /\ loop' = IF doubledPastMaximum(loop.delay)
                     THEN [running |-> TRUE, count |-> failures, delay |-> backoffMaximum]
                     ELSE [running |-> TRUE, count |-> loop.count + 1,
                           delay |-> Wrap(loop.delay * 2)]
    BY <1>3 DEF FailureDouble, loopEnded, backoffMaximum
  <2>2. /\ loop.count \in Nat /\ failures \in Nat /\ loop.count + 1 <= failures
        /\ loop.delay \in Nat /\ loop.delay <= backoffMaximum
    BY <1>1, <2>1, ScheduleAssumption DEF SInv, LoopBounds, ScheduleTypeOK, Duration
  <2>3. loop.delay = effective * powerOfTwo[loop.count]
    BY <2>1 DEF LoopDoubles
  <2>4. /\ powerOfTwo[loop.count] \in Nat /\ powerOfTwo[failures] \in Nat
        /\ powerOfTwo[loop.count + 1] \in Nat /\ effective \in Nat
        /\ powerOfTwo[loop.count + 1] = 2 * powerOfTwo[loop.count]
        /\ powerOfTwo[loop.count + 1] <= powerOfTwo[failures]
    <3>1. effective \in Nat /\ loop.count + 1 \in Nat
      BY <1>1, <2>2
    <3>2. powerOfTwo[loop.count + 1] <= powerOfTwo[failures]
      BY <2>2, <3>1, PowersGrow
    <3>3. QED BY <2>2, <3>1, <3>2, PowerOfTwo
  <2>5. loop.delay * 2 = effective * powerOfTwo[loop.count + 1]
    BY <2>3, <2>4, DoubledProduct
  <2>6. /\ loop.delay * 2 <= effective * powerOfTwo[failures]
        /\ effective * powerOfTwo[failures] \in Nat
    BY <2>4, <2>5, ProductsGrow
  <2>7. CASE doubledPastMaximum(loop.delay)
    <3>1. loop' = [running |-> TRUE, count |-> failures, delay |-> backoffMaximum]
      BY <2>1, <2>7
    <3>2. backoffMaximum <= loop.delay * 2
      BY <1>1, <2>2, <2>7 DEF doubledPastMaximum
    <3>3. backoffMaximum <= effective * powerOfTwo[failures]
      <4> DEFINE e == effective * powerOfTwo[failures]
      <4>1. e \in Nat /\ loop.delay * 2 <= e
        BY <2>6
      <4> HIDE DEF e
      <4>2. backoffMaximum <= e
        BY <1>1, <2>2, <3>2, <4>1
      <4>3. QED BY <4>2 DEF e
    <3>4. QED BY <2>1, <3>1, <3>3 DEF LoopDoubles
  <2>8. CASE ~doubledPastMaximum(loop.delay)
    <3>1. loop.delay * 2 \in Duration
      BY <1>1, <2>2, <2>8, ScheduleAssumption DEF doubledPastMaximum, Duration
    <3>2. loop' = [running |-> TRUE, count |-> loop.count + 1, delay |-> loop.delay * 2]
      BY <2>1, <2>8, <3>1 DEF Wrap
    <3>3. loop'.delay = effective' * powerOfTwo[loop'.count]
      BY <2>1, <2>5, <3>2
    <3>4. QED BY <3>3 DEF LoopDoubles
  <2>9. QED BY <2>7, <2>8
<1>4. CASE FailureEnd
  BY <1>4 DEF FailureEnd, idleLoop, LoopDoubles
<1>5. CASE ~loop.running /\ loop' = loop
  BY <1>5 DEF LoopDoubles
<1>6. CASE UNCHANGED scheduleVars
  BY <1>6 DEF scheduleVars, LoopDoubles, backoffMaximum
<1>7. QED
  BY <1>2, <1>3, <1>4, <1>5, <1>6
     DEF ScheduleNext, Current, Reset, SuccessWithOptions, Success

\* A loop that has ended holds the smaller of the power and the maximum.
LEMMA DoublesIsExponential == SInv /\ LoopDoubles => BackoffIsExponential
<1> SUFFICES ASSUME SInv, LoopDoubles, loop.running, loopEnded
             PROVE  loop.delay = smaller(backoffMaximum, effective * powerOfTwo[failures])
  BY DEF BackoffIsExponential
<1> DEFINE e == effective * powerOfTwo[failures]
<1>1. effective \in Nat /\ backoffMaximum \in Nat
  BY EffectivePositive DEF SInv
<1>2. failures \in Nat /\ loop.delay <= backoffMaximum
  BY ScheduleAssumption DEF SInv, LoopBounds, ScheduleTypeOK
<1>3. e \in Nat
  BY <1>1, <1>2, PowerOfTwo
<1>4. loop.delay = e \/ (loop.delay = backoffMaximum /\ backoffMaximum <= e)
  BY DEF LoopDoubles, loopEnded
<1> HIDE DEF e
<1>5. loop.delay = smaller(backoffMaximum, e)
  BY <1>1, <1>2, <1>3, <1>4 DEF smaller
<1>6. QED BY <1>5 DEF e

(***************************************************************************)
(* The presence loop.                                                      *)
(***************************************************************************)

\* A turn of the loop is a step of the schedule, or the process is replaced.
LEMMA TurnsAreScheduled ==
  [Next]_heartbeatVars => [ScheduleNext]_scheduleVars \/ Restart
BY DEF Next, heartbeatVars, NoInformURL, ExchangeFails, CountFailure, FailureRecorded,
       OtherResponse, SetDefaultApplied, Noop, ScheduleNext

\* A new process starts as its predecessor did.
LEMMA RestartSInv == SInv /\ Restart => SInv' /\ LoopDoubles'
<1> SUFFICES ASSUME SInv, Restart PROVE SInv' /\ LoopDoubles'
  OBVIOUS
<1>1. /\ config' = config /\ effective' = config.BaseInterval /\ failures' = 0
      /\ immediateLatched' = FALSE /\ wasImmediate' = FALSE
      /\ loop' = idleLoop /\ decision' = Decision(config.BaseInterval, FALSE, FALSE)
  BY DEF Restart
<1>2. config \in ScheduleConfig /\ ValidateScheduleConfig(config) /\ config \in Configs
  BY ScheduleAssumption DEF SInv, ScheduleTypeOK
<1>3. config.BaseInterval \in Duration /\ config.BaseInterval > 0 /\ 0 \in Duration
  BY <1>2, ScheduleAssumption DEF ScheduleConfig, ValidateScheduleConfig, Duration
<1>4. idleLoop \in [running : BOOLEAN, count : 0 .. MaxFailures, delay : Duration]
  BY <1>3, ScheduleAssumption DEF idleLoop
<1>5. Decision(config.BaseInterval, FALSE, FALSE)
        \in [NextDelay : Duration, Backoff : BOOLEAN, ImmediateApplied : BOOLEAN]
  BY <1>3 DEF Decision
<1>6. immediateLatched' \in BOOLEAN /\ wasImmediate' \in BOOLEAN
  BY <1>1
<1>7. failures' \in 0 .. MaxFailures
  BY <1>1, ScheduleAssumption
<1>8. ScheduleTypeOK'
  BY <1>1, <1>2, <1>3, <1>4, <1>5, <1>6, <1>7 DEF ScheduleTypeOK
<1>9. QED
  BY <1>1, <1>3, <1>8 DEF SInv, EffectiveWithinPolicy, DelayWithinBounds, LoopBounds,
     LatchHeld, ImmediateNeverTwice, LoopDoubles, idleLoop, Decision

\* The schedule's invariant holds throughout the presence loop.
LEMMA HeartbeatSchedule == Spec => [](SInv /\ LoopDoubles)
<1>1. Init => SInv /\ LoopDoubles
  BY InitSInv DEF Init, NewSchedule, LoopDoubles, idleLoop
<1>2. SInv /\ LoopDoubles /\ [Next]_heartbeatVars => (SInv /\ LoopDoubles)'
  BY TurnsAreScheduled, RestartSInv, NextSInv, NextDoubles
<1>3. QED BY <1>1, <1>2, PTL DEF Spec

\* Nothing of a controller is left before the first noop, up or not.
Forgotten ==
  ~noopSeen => /\ ~clock.set /\ clock.offsetSeconds = 0
               /\ blocks = NoBlocks
               /\ effective = config.BaseInterval
               /\ ~immediateLatched

\* Truncating milliseconds to seconds stays within the width.
LEMMA SecondsType ==
  ASSUME NEW millis \in ServerMillis
  PROVE  truncatedSeconds(millis) \in Duration
<1>1. /\ millis \in Int /\ MinInt <= millis /\ millis <= MaxInt
      /\ MillisPerSecond \in Nat /\ MillisPerSecond > 0
      /\ MaxInt \in Nat /\ MinInt = -(MaxInt + 1)
  BY ScheduleAssumption, HeartbeatAssumption DEF Duration, MinInt
<1>2. ASSUME NEW x \in Nat
      PROVE  x \div MillisPerSecond \in Nat /\ x \div MillisPerSecond <= x
  BY <1>1
<1>3. CASE millis >= 0
  BY <1>1, <1>2, <1>3 DEF truncatedSeconds, Duration
<1>4. CASE ~(millis >= 0)
  <2>1. -millis \in Nat /\ -millis <= MaxInt + 1
    BY <1>1, <1>4
  <2> DEFINE q == (-millis) \div MillisPerSecond
  <2>2. q \in Nat /\ q <= -millis
    BY <1>2, <2>1
  <2>3. truncatedSeconds(millis) = -q
    BY <1>4 DEF truncatedSeconds
  <2> HIDE DEF q
  <2>4. QED BY <1>1, <2>1, <2>2, <2>3 DEF Duration
<1>5. QED BY <1>3, <1>4

\* The guarded subtraction is the true difference cut to the width.
LEMMA SubtractionSaturates ==
  ASSUME NEW left \in Duration, NEW right \in Duration
  PROVE  saturatingSubtract(left, right) = clampDuration(left - right, MinInt, MaxInt)
<1>1. CASE right < 0 /\ left > MaxInt + right
  BY <1>1, ScheduleAssumption DEF saturatingSubtract, clampDuration, Duration, MinInt
<1>2. CASE right > 0 /\ left < MinInt + right
  BY <1>2, ScheduleAssumption DEF saturatingSubtract, clampDuration, Duration, MinInt
<1>3. CASE ~(right < 0 /\ left > MaxInt + right) /\ ~(right > 0 /\ left < MinInt + right)
  <2>1. left - right \in Duration
    BY <1>3, ScheduleAssumption DEF Duration, MinInt
  <2>2. saturatingSubtract(left, right) = left - right
    BY <1>3, <2>1 DEF saturatingSubtract, Wrap
  <2>3. QED
    BY <2>1, <2>2, ScheduleAssumption DEF clampDuration, Duration, MinInt
<1>4. QED BY <1>1, <1>2, <1>3

\* Every step of the loop keeps both.
LEMMA NextTaught ==
  Forgotten /\ ClockOffsetSaturates /\ [Next]_heartbeatVars
    => (Forgotten /\ ClockOffsetSaturates)'
<1> SUFFICES ASSUME Forgotten, ClockOffsetSaturates, [Next]_heartbeatVars
             PROVE  Forgotten' /\ ClockOffsetSaturates'
  OBVIOUS
<1>1. ASSUME UNCHANGED <<clock, blocks, noopSeen, config, effective>>,
             immediateLatched' = immediateLatched \/ immediateLatched' = FALSE
      PROVE  Forgotten' /\ ClockOffsetSaturates'
  BY <1>1 DEF Forgotten, ClockOffsetSaturates
<1>2. CASE NoInformURL \/ CountFailure \/ FailureRecorded \/ UNCHANGED heartbeatVars
  <2>1. CASE NoInformURL
    BY <1>1, <2>1 DEF NoInformURL, Current, volatile
  <2>2. CASE CountFailure
    BY <1>1, <2>2 DEF CountFailure, FailureDouble, volatile
  <2>3. CASE FailureRecorded
    BY <1>1, <2>3 DEF FailureRecorded, FailureEnd
  <2>4. CASE UNCHANGED heartbeatVars
    BY <1>1, <2>4 DEF heartbeatVars, scheduleVars
  <2>5. QED BY <1>2, <2>1, <2>2, <2>3, <2>4
<1>3. CASE \E isFatal \in BOOLEAN : ExchangeFails(isFatal)
  BY <1>1, <1>3 DEF ExchangeFails, FailureBegin
<1>4. CASE OtherResponse
  <2>1. ~ (0 > 0)
    OBVIOUS
  <2>2. SuccessWithOptions(0, FALSE) /\ UNCHANGED <<clock, blocks, noopSeen>>
    BY <1>4 DEF OtherResponse, Success, volatile
  <2>3. effective' = effective /\ config' = config /\ immediateLatched' = FALSE
    BY <2>1, <2>2 DEF SuccessWithOptions
  <2>4. QED BY <1>1, <2>2, <2>3
<1>5. CASE SetDefaultApplied
  BY <1>5 DEF SetDefaultApplied, Reset, unsetClock, Forgotten, ClockOffsetSaturates
<1>6. CASE Restart
  BY <1>6 DEF Restart, unsetClock, Forgotten, ClockOffsetSaturates
<1>7. ASSUME NEW seconds \in HintSeconds, NEW immediate \in BOOLEAN, NEW local \in LocalSeconds,
             NEW serverTime \in ServerMillis \cup {NoServerTime},
             NEW selection \in Blocks \cup {NoBlocks},
             Noop(seconds, immediate, serverTime, local, selection)
      PROVE  Forgotten' /\ ClockOffsetSaturates'
  <2>1. noopSeen' = TRUE
    BY <1>7 DEF Noop
  <2>2. clock' = clock \/ (serverTime \in ServerMillis /\ clock' = clockUpdate(serverTime, local))
    BY <1>7 DEF Noop
  <2>3. CASE clock' = clock
    BY <2>1, <2>3 DEF Forgotten, ClockOffsetSaturates
  <2>4. CASE serverTime \in ServerMillis /\ clock' = clockUpdate(serverTime, local)
    <3>1. truncatedSeconds(serverTime) \in Duration /\ local \in Duration
      BY <2>4, SecondsType, HeartbeatAssumption
    <3>2. clock'.offsetSeconds =
            clampDuration(clock'.source.server - clock'.source.local, MinInt, MaxInt)
      BY <2>4, <3>1, SubtractionSaturates DEF clockUpdate
    <3>3. QED BY <2>1, <3>2 DEF Forgotten, ClockOffsetSaturates
  <2>5. QED BY <2>2, <2>3, <2>4
<1>8. QED
  BY <1>2, <1>3, <1>4, <1>5, <1>6, <1>7 DEF Next

\* Nothing is left of a controller, and the offset is right, in every state.
LEMMA HeartbeatTaught == Spec => [](Forgotten /\ ClockOffsetSaturates)
<1>1. Init => Forgotten /\ ClockOffsetSaturates
  BY DEF Init, NewSchedule, unsetClock, Forgotten, ClockOffsetSaturates
<1>2. QED BY <1>1, NextTaught, PTL DEF Spec

(***************************************************************************)
(* The theorems.                                                           *)
(***************************************************************************)

\* The daemon never waits for zero or negative time, and a backoff lies
\* between the effective interval and the maximum, for every width of the
\* integers and although the jitter's arithmetic may overflow (Failure, jitter).
THEOREM DelaysAreBounded == Spec => []DelayWithinBounds
<1>1. SInv => DelayWithinBounds  BY DEF SInv
<1>2. QED BY <1>1, HeartbeatSchedule, PTL

\* No hint moves the interval out of the operator's and the firmware's bounds
\* (SuccessWithOptions).
THEOREM HintsStayWithinPolicy == Spec => []EffectiveWithinPolicy
<1>1. SInv => EffectiveWithinPolicy  BY DEF SInv
<1>2. QED BY <1>1, HeartbeatSchedule, PTL

\* Two consecutive waits are never both the immediate delay
\* (SuccessWithOptions).
THEOREM ImmediateIsRateLimited == Spec => []ImmediateNeverTwice
<1>1. SInv => ImmediateNeverTwice  BY DEF SInv
<1>2. QED BY <1>1, HeartbeatSchedule, PTL

\* The doubling loop ends with the interval times two to the number of
\* failures, cut at the maximum, for every width of the integers and every
\* number of failures (Failure).
THEOREM BackoffDoubles == Spec => []BackoffIsExponential
BY DoublesIsExponential, HeartbeatSchedule, PTL

\* After a reset or a restart, and until the next noop, no clock offset, block
\* selection, interval or latch of a controller is left
\* (sendInformHeartbeat).
THEOREM ResetForgets == Spec => []ResetForgetsController
<1>1. Forgotten => ResetForgetsController  BY DEF Forgotten, ResetForgetsController
<1>2. QED BY <1>1, HeartbeatTaught, PTL

\* The clock offset is the true difference of the two clocks cut to the width,
\* for every width and every pair of readings (Update, saturatingSubtract).
THEOREM ClockOffsetNeverWraps == Spec => []ClockOffsetSaturates
BY HeartbeatTaught, PTL

\* Every step that writes the status file writes what the loop does next
\* (recordLastInform).
THEOREM StatusIsTrue == Spec => StatusTellsTheTruth
<1>1. [Next]_heartbeatVars =>
        [last' # last =>
           /\ last'.decision = decision' /\ last'.effective = effective'
           /\ last'.failures = failures'
           /\ last'.clockSet = clock'.set /\ last'.clockOffset = clock'.offsetSeconds]_heartbeatVars
  <2> SUFFICES ASSUME Next, last' # last
               PROVE  /\ last'.decision = decision' /\ last'.effective = effective'
                      /\ last'.failures = failures'
                      /\ last'.clockSet = clock'.set /\ last'.clockOffset = clock'.offsetSeconds
    OBVIOUS
  <2>1. recordLastInform
    BY DEF Next, NoInformURL, ExchangeFails, CountFailure, FailureRecorded, OtherResponse,
           SetDefaultApplied, Noop, Restart
  <2>2. QED BY <2>1 DEF recordLastInform
<1>2. QED BY <1>1, PTL DEF Spec, StatusTellsTheTruth
=============================================================================

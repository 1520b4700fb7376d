--------------------------- MODULE InformSchedule ---------------------------
(***************************************************************************)
(* internal/inform/schedule.go: when the presence loop sends its next      *)
(* heartbeat.  A controller's interval hint is clamped to the operator's   *)
(* and the firmware's bounds; a failed heartbeat doubles the delay up to a *)
(* maximum and adds jitter; an "immediate" reply is granted once.          *)
(*                                                                         *)
(* Durations are Go's signed integers: arithmetic wraps at MaxInt.  The    *)
(* doubling loop of Failure is an action per iteration.                    *)
(***************************************************************************)
EXTENDS Integers

CONSTANTS
  MaxInt,                           \* the largest time.Duration
  Second,                           \* time.Second
  immediateInformDelay,
  maximumControllerInformInterval,
  Configs,                          \* the configurations to start from
  HintSeconds,                      \* "interval" values of a controller response
  MaxFailures                       \* bound on consecutive failures

Duration == -(MaxInt + 1) .. MaxInt

ScheduleConfig ==
  [BaseInterval : Duration, ControllerIntervalMin : Duration,
   ControllerIntervalMax : Duration, FirmwareIntervalMin : Duration,
   ControllerHints : BOOLEAN, BackoffMax : Duration, JitterPercent : Int]

ASSUME ScheduleAssumption ==
  /\ MaxInt \in Nat \ {0} /\ Second \in 1 .. MaxInt
  /\ immediateInformDelay \in 1 .. MaxInt
  /\ maximumControllerInformInterval \in 1 .. MaxInt
  /\ Configs \subseteq ScheduleConfig
  /\ HintSeconds \subseteq Duration
  /\ MaxFailures \in Nat \ {0}

VARIABLES
  config, effective, failures, immediateLatched,  \* the Schedule
  loop,          \* the loop of Failure: its counter, its delay, and whether it runs
  decision,      \* the last ScheduleDecision
  wasImmediate   \* history: the decision before it was a granted immediate one

scheduleVars == <<config, effective, failures, immediateLatched, loop, decision, wasImmediate>>

\* Two's complement.
Wrap(x) ==
  IF x \in Duration THEN x
  ELSE ((x + MaxInt + 1) % (2 * MaxInt + 2)) - (MaxInt + 1)

larger(a, b) == IF a > b THEN a ELSE b

smaller(a, b) == IF a < b THEN a ELSE b

clampDuration(value, minimum, maximum) ==
  IF value < minimum THEN minimum ELSE IF value > maximum THEN maximum ELSE value

minimumInterval(c) == larger(c.FirmwareIntervalMin, c.ControllerIntervalMin)

maximumInterval(c) == smaller(c.ControllerIntervalMax, maximumControllerInformInterval)

\* Mutant: the controller maximum is not compared with the firmware's minimum.
ValidateScheduleConfig_noEffectiveMinimum(c) ==
  /\ c.BaseInterval > 0
  /\ c.ControllerIntervalMin > 0
  /\ c.ControllerIntervalMin <= maximumControllerInformInterval
  /\ c.ControllerIntervalMax >= c.ControllerIntervalMin
  /\ ~c.ControllerHints => c.FirmwareIntervalMin = 0
  /\ c.ControllerHints => /\ c.FirmwareIntervalMin > 0
                          /\ c.FirmwareIntervalMin <= maximumControllerInformInterval
  /\ c.BackoffMax > 0
  /\ c.JitterPercent \in 0 .. 100

ValidateScheduleConfig(c) ==
  /\ c.BaseInterval > 0
  /\ c.ControllerIntervalMin > 0
  /\ c.ControllerIntervalMin <= maximumControllerInformInterval
  /\ c.ControllerIntervalMax >= c.ControllerIntervalMin
  /\ ~c.ControllerHints => c.FirmwareIntervalMin = 0
  /\ c.ControllerHints => /\ c.FirmwareIntervalMin > 0
                          /\ c.FirmwareIntervalMin <= maximumControllerInformInterval
                          /\ c.ControllerIntervalMax >= minimumInterval(c)
  /\ c.BackoffMax > 0
  /\ c.JitterPercent \in 0 .. 100

idleLoop == [running |-> FALSE, count |-> 0, delay |-> 0]

Decision(delay, backoff, immediate) ==
  [NextDelay |-> delay, Backoff |-> backoff, ImmediateApplied |-> immediate]

\* NewSchedule refuses an invalid configuration; the daemon does not start then.
NewSchedule ==
  /\ config \in {c \in Configs : ValidateScheduleConfig(c)}
  /\ effective = config.BaseInterval
  /\ failures = 0
  /\ immediateLatched = FALSE
  /\ loop = idleLoop
  /\ decision = Decision(config.BaseInterval, FALSE, FALSE)
  /\ wasImmediate = FALSE
----------------------------------------------------------------------------
Decide(d) == decision' = d /\ wasImmediate' = decision.ImmediateApplied

Current ==
  /\ ~loop.running
  /\ Decide(Decision(effective, FALSE, FALSE))
  /\ UNCHANGED <<config, effective, failures, immediateLatched, loop>>

\* The action of sendInformHeartbeat after a controller reset: Success has run
\* before, and Reset overwrites all it has changed.
Reset ==
  /\ ~loop.running
  /\ effective' = config.BaseInterval
  /\ failures' = 0
  /\ immediateLatched' = FALSE
  /\ Decide(Decision(effective', FALSE, FALSE))
  /\ UNCHANGED <<config, loop>>

controllerIntervalDuration(seconds) ==
  IF seconds <= 0 THEN 0
  ELSE IF seconds > MaxInt \div Second THEN MaxInt
  ELSE Wrap(seconds * Second)

\* Mutant: the latch follows the grant, not the request.
SuccessWithOptions_latchesGrant(hint, immediate) ==
  /\ ~loop.running
  /\ effective' = IF config.ControllerHints /\ hint > 0
                    THEN clampDuration(hint, minimumInterval(config), maximumInterval(config))
                    ELSE effective
  /\ failures' = 0
  /\ immediateLatched' = immediateLatched
  /\ LET grant == immediate /\ ~immediateLatched
     IN Decide(Decision(IF grant THEN immediateInformDelay ELSE effective', FALSE, grant))
  /\ UNCHANGED <<config, loop>>

SuccessWithOptions(hint, immediate) ==
  /\ ~loop.running
  /\ effective' = IF config.ControllerHints /\ hint > 0
                    THEN clampDuration(hint, minimumInterval(config), maximumInterval(config))
                    ELSE effective
  /\ failures' = 0
  /\ immediateLatched' = immediate
  /\ LET grant == immediate /\ ~immediateLatched
     IN Decide(Decision(IF grant THEN immediateInformDelay ELSE effective', FALSE, grant))
  /\ UNCHANGED <<config, loop>>

Success(hint) == SuccessWithOptions(hint, FALSE)
----------------------------------------------------------------------------
(* Failure: count it, double the delay, add jitter.                        *)

backoffMaximum == larger(config.BackoffMax, effective)

FailureBegin ==
  /\ ~loop.running
  /\ failures < MaxFailures
  /\ failures' = failures + 1
  /\ immediateLatched' = FALSE
  /\ loop' = [running |-> TRUE, count |-> 0, delay |-> effective]
  /\ UNCHANGED <<config, effective, decision, wasImmediate>>

\* Mutant: the delay may grow past half the maximum before it is doubled.
doubledPastMaximum_late(delay) == delay >= backoffMaximum

\* Doubling once more would exceed the maximum.
doubledPastMaximum(delay) ==
  delay >= backoffMaximum \/ delay > backoffMaximum \div 2

loopEnded == loop.count = failures

FailureDouble ==
  /\ loop.running /\ ~loopEnded
  /\ loop' = IF doubledPastMaximum(loop.delay)
               THEN [running |-> TRUE, count |-> failures, delay |-> backoffMaximum]
               ELSE [running |-> TRUE, count |-> loop.count + 1,
                     delay |-> Wrap(loop.delay * 2)]
  /\ UNCHANGED <<config, effective, failures, immediateLatched, decision, wasImmediate>>

\* Go divides towards zero; only a positive window is used.
jitterWindow(delay) ==
  LET product == Wrap(delay * config.JitterPercent)
  IN IF product < 0 THEN 0 ELSE product \div 100

\* Mutant: the jittered delay is not clamped.
jitter_unclamped(delay, minimum, maximum) ==
  {Wrap(delay + offset) : offset \in (-jitterWindow(delay)) .. jitterWindow(delay)}

\* The delays the random source can produce.
jitter(delay, minimum, maximum) ==
  IF config.JitterPercent = 0 \/ delay <= 0 \/ jitterWindow(delay) <= 0 THEN {delay}
  ELSE {clampDuration(Wrap(delay + offset), minimum, maximum) :
          offset \in (-jitterWindow(delay)) .. jitterWindow(delay)}

FailureEnd ==
  /\ loop.running /\ loopEnded
  /\ loop' = idleLoop
  /\ \E delay \in jitter(loop.delay, effective, backoffMaximum) :
       Decide(Decision(delay, TRUE, FALSE))
  /\ UNCHANGED <<config, effective, failures, immediateLatched>>

ScheduleNext ==
  \/ Current
  \/ Reset
  \/ \E seconds \in HintSeconds, immediate \in BOOLEAN :
       SuccessWithOptions(controllerIntervalDuration(seconds), immediate)
  \/ Success(0)
  \/ FailureBegin
  \/ FailureDouble
  \/ FailureEnd

ScheduleSpec == NewSchedule /\ [][ScheduleNext]_scheduleVars
----------------------------------------------------------------------------
(* Properties.                                                             *)

ScheduleTypeOK ==
  /\ config \in Configs /\ ValidateScheduleConfig(config)
  /\ effective \in Duration
  /\ failures \in 0 .. MaxFailures
  /\ immediateLatched \in BOOLEAN
  /\ loop \in [running : BOOLEAN, count : 0 .. MaxFailures, delay : Duration]
  /\ decision \in [NextDelay : Duration, Backoff : BOOLEAN, ImmediateApplied : BOOLEAN]
  /\ wasImmediate \in BOOLEAN

\* The retained interval is the operator's own or lies within both the
\* operator's and the firmware's bounds, whatever hint the controller sends
\* and also when the hint overflows time.Duration (SuccessWithOptions).
EffectiveWithinPolicy ==
  \/ effective = config.BaseInterval
  \/ /\ config.ControllerHints
     /\ minimumInterval(config) <= effective /\ effective <= maximumInterval(config)

\* The loop never sleeps for zero or negative time: a backoff delay lies
\* between the effective interval and the backoff maximum, also where the
\* jitter's product or sum overflows (Failure, jitter).
DelayWithinBounds ==
  /\ decision.NextDelay > 0
  /\ (decision.Backoff /\ ~loop.running) =>
       effective <= decision.NextDelay /\ decision.NextDelay <= backoffMaximum

\* The power is a function of its own: the provers know no law of ^.
powerOfTwo[n \in Nat] == IF n = 0 THEN 1 ELSE 2 * powerOfTwo[n - 1]

\* When the doubling loop ends, its delay is the effective interval times two
\* to the number of failures, capped at the maximum: no iteration overflows and
\* the early exit cuts nothing short (Failure).
BackoffIsExponential ==
  (loop.running /\ loopEnded) =>
    loop.delay = smaller(backoffMaximum, effective * powerOfTwo[failures])

\* A controller that asks for immediate informs again and again gets at most
\* every other one: two consecutive waits are never both 100 ms
\* (SuccessWithOptions, immediateLatched).
ImmediateNeverTwice == ~(wasImmediate /\ decision.ImmediateApplied)
=============================================================================

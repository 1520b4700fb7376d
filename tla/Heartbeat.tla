------------------------------ MODULE Heartbeat ------------------------------
(***************************************************************************)
(* What one turn of the presence loop does to the daemon's volatile state  *)
(* (cmd/unifi-stubd/serve_heartbeat.go): the schedule, the controller      *)
(* clock (internal/inform/controller_clock.go), the block selection, and   *)
(* the status file that "unifi-stubd -status" reads.  The adoption store   *)
(* is the subject of Adoption.tla; here an exchange is told apart only by  *)
(* its outcome.                                                            *)
(***************************************************************************)
EXTENDS InformSchedule

CONSTANTS
  MillisPerSecond,
  ServerMillis,    \* server_time_in_utc values of a noop
  LocalSeconds,    \* what the host clock shows
  Blocks,          \* block selections of a noop
  NoBlocks,        \* the empty selection
  NoServerTime,    \* a noop without server_time_in_utc
  NoStatus         \* the status file does not exist

ASSUME HeartbeatAssumption ==
  /\ MillisPerSecond \in Nat \ {0}
  /\ ServerMillis \subseteq Duration /\ LocalSeconds \subseteq Duration
  /\ NoBlocks \notin Blocks /\ NoServerTime \notin ServerMillis

VARIABLES
  policy,     \* the profile's ControllerReportingPolicy
  clock,      \* the ControllerClock; source: what it was computed from
  blocks,     \* the block selection the next payload honours
  last,       \* the status file
  fatal,      \* the failure being counted ends the daemon
  up,         \* the daemon runs
  noopSeen    \* history: a noop was applied since the start or the last reset

heartbeatVars == <<scheduleVars, policy, clock, blocks, last, fatal, up, noopSeen>>

volatile == <<clock, blocks, fatal, up, noopSeen>>
----------------------------------------------------------------------------
(* The controller clock.                                                   *)

MinInt == -(MaxInt + 1)

\* Mutant: the difference is taken without saturation.
saturatingSubtract_wraps(left, right) == Wrap(left - right)

saturatingSubtract(left, right) ==
  CASE right < 0 /\ left > MaxInt + right -> MaxInt
    [] right > 0 /\ left < MinInt + right -> MinInt
    [] OTHER                              -> Wrap(left - right)

\* Go's integer division truncates.
truncatedSeconds(millis) ==
  IF millis >= 0 THEN millis \div MillisPerSecond ELSE -((-millis) \div MillisPerSecond)

noSource == [server |-> 0, local |-> 0]

unsetClock == [set |-> FALSE, offsetSeconds |-> 0, source |-> noSource]

clockUpdate(millis, local) ==
  [set |-> TRUE,
   offsetSeconds |-> saturatingSubtract(truncatedSeconds(millis), local),
   source |-> [server |-> truncatedSeconds(millis), local |-> local]]
----------------------------------------------------------------------------
Policies == [ControllerClock : BOOLEAN, BlockSelection : BOOLEAN]

Init ==
  /\ NewSchedule
  /\ policy \in Policies
  /\ clock = unsetClock
  /\ blocks = NoBlocks
  /\ last = NoStatus
  /\ fatal = FALSE
  /\ up = TRUE
  /\ noopSeen = FALSE

Turn == up /\ ~loop.running

\* recordLastInform: the summary is written, or the write fails and is logged.
recordLastInform ==
  \/ last' = [decision |-> decision', effective |-> effective', failures |-> failures',
              clockSet |-> clock'.set, clockOffset |-> clock'.offsetSeconds]
  \/ UNCHANGED last

\* No inform URL: nothing is sent and nothing recorded.
NoInformURL ==
  /\ Turn
  /\ Current
  /\ UNCHANGED <<policy, last, volatile>>

\* sendInform fails, the status is not 200, or the response does not parse; or
\* (fatal) the updated store cannot be persisted.
ExchangeFails(isFatal) ==
  /\ Turn
  /\ FailureBegin
  /\ fatal' = isFatal
  /\ UNCHANGED <<policy, clock, blocks, last, up, noopSeen>>

CountFailure ==
  /\ up
  /\ FailureDouble
  /\ UNCHANGED <<policy, last, volatile>>

FailureRecorded ==
  /\ up
  /\ FailureEnd
  /\ UNCHANGED <<policy, clock, blocks, noopSeen>>
  /\ recordLastInform
  /\ up' = ~fatal
  /\ fatal' = FALSE

\* An empty 200; a setparam or an ignored command carries neither hint nor
\* clock nor blocks.
OtherResponse ==
  /\ Turn
  /\ Success(0)
  /\ UNCHANGED <<policy, volatile>>
  /\ recordLastInform

\* Mutant: only the schedule is reset.
SetDefaultApplied_keepsClock ==
  /\ Turn
  /\ Reset
  /\ blocks' = NoBlocks
  /\ noopSeen' = FALSE
  /\ UNCHANGED <<policy, clock, fatal, up>>
  /\ recordLastInform

SetDefaultApplied ==
  /\ Turn
  /\ Reset
  /\ clock' = unsetClock
  /\ blocks' = NoBlocks
  /\ noopSeen' = FALSE
  /\ UNCHANGED <<policy, fatal, up>>
  /\ recordLastInform

\* Mutant: the status is recorded before the clock is updated.
Noop_recordsFirst(seconds, immediate, serverTime, local, selection) ==
  /\ Turn
  /\ SuccessWithOptions(controllerIntervalDuration(seconds), immediate)
  /\ clock' = IF policy.ControllerClock /\ serverTime # NoServerTime
                THEN clockUpdate(serverTime, local) ELSE clock
  /\ blocks' = IF policy.BlockSelection THEN selection ELSE blocks
  /\ noopSeen' = TRUE
  /\ UNCHANGED <<policy, fatal, up>>
  /\ last' = [decision |-> decision', effective |-> effective', failures |-> failures',
              clockSet |-> clock.set, clockOffset |-> clock.offsetSeconds]

\* The only response with a hint, a clock and a block selection.
Noop(seconds, immediate, serverTime, local, selection) ==
  /\ Turn
  /\ SuccessWithOptions(controllerIntervalDuration(seconds), immediate)
  /\ clock' = IF policy.ControllerClock /\ serverTime # NoServerTime
                THEN clockUpdate(serverTime, local) ELSE clock
  /\ blocks' = IF policy.BlockSelection THEN selection ELSE blocks
  /\ noopSeen' = TRUE
  /\ UNCHANGED <<policy, fatal, up>>
  /\ recordLastInform

\* The process ends, and a new one starts from nothing but the status file.
Restart ==
  /\ effective' = config.BaseInterval
  /\ failures' = 0 /\ immediateLatched' = FALSE
  /\ loop' = idleLoop
  /\ decision' = Decision(config.BaseInterval, FALSE, FALSE) /\ wasImmediate' = FALSE
  /\ clock' = unsetClock /\ blocks' = NoBlocks
  /\ fatal' = FALSE /\ up' = TRUE /\ noopSeen' = FALSE
  /\ UNCHANGED <<config, policy, last>>

Next ==
  \/ NoInformURL
  \/ \E isFatal \in BOOLEAN : ExchangeFails(isFatal)
  \/ CountFailure
  \/ FailureRecorded
  \/ OtherResponse
  \/ SetDefaultApplied
  \/ \E seconds \in HintSeconds, immediate \in BOOLEAN, local \in LocalSeconds,
        serverTime \in ServerMillis \cup {NoServerTime}, selection \in Blocks \cup {NoBlocks} :
       Noop(seconds, immediate, serverTime, local, selection)
  \/ Restart

Spec == Init /\ [][Next]_heartbeatVars
----------------------------------------------------------------------------
(* Properties.                                                             *)

\* Whenever the status file is written it shows the delay the loop will really
\* wait, the retained interval and failure count, and the clock offset the next
\* payload will carry, on every path through sendInformHeartbeat.
StatusTellsTheTruth ==
  [][last' # last =>
       /\ last'.decision = decision' /\ last'.effective = effective'
       /\ last'.failures = failures'
       /\ last'.clockSet = clock'.set /\ last'.clockOffset = clock'.offsetSeconds]_heartbeatVars

\* After a controller reset, as after a restart, nothing a controller taught
\* the process is left until the next noop: no clock offset, no block
\* selection, no interval, no latch.
ResetForgetsController ==
  (up /\ ~noopSeen) => /\ ~clock.set /\ clock.offsetSeconds = 0
                       /\ blocks = NoBlocks
                       /\ effective = config.BaseInterval
                       /\ ~immediateLatched

\* The offset is the true difference of the two clocks, saturated: it never
\* wraps, whatever time the controller or the host reports (Update).
ClockOffsetSaturates ==
  clock.set => clock.offsetSeconds =
                 clampDuration(clock.source.server - clock.source.local, MinInt, MaxInt)
=============================================================================

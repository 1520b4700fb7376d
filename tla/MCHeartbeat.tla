---------------------------- MODULE MCHeartbeat ----------------------------
(* Configurations for the model checker.  Durations are scaled down so that *)
(* the 100 ms delay, the 300 s maximum and the overflow of int64 all lie    *)
(* within reach.                                                            *)
EXTENDS Heartbeat

Candidate(base, min, max, fw, backoff, percent) ==
  [BaseInterval |-> base, ControllerIntervalMin |-> min, ControllerIntervalMax |-> max,
   FirmwareIntervalMin |-> fw, ControllerHints |-> fw > 0, BackoffMax |-> backoff,
   JitterPercent |-> percent]

\* One configuration with controller hints, one without.
UsualConfigs == {Candidate(5, 2, 30, fw, 17, 0) : fw \in {0, 3}}

\* Intervals at and beyond the bounds of hints; backoff below the interval, at an
\* odd multiple and at the largest duration; no jitter, and jitter whose window
\* is empty, wide or overflows; configurations the daemon refuses.
EdgeConfigs ==
  {Candidate(base, min, max, fw, backoff, 0) :
     base \in {0, 5, 40}, min \in {2, 6}, max \in {4, 30}, fw \in {0, 5}, backoff \in {1, 47, MaxInt}}
    \cup {Candidate(5, 2, 30, fw, backoff, percent) :
             fw \in {0, 3}, backoff \in {12, MaxInt}, percent \in {10, 25, 100}}

MCConfigs == UsualConfigs \cup EdgeConfigs

\* Absent, negative, small and overflowing hints.
MCHintSeconds == {-1, 0, 3, 86}

\* A plain difference, and differences below and above the type.
MCServerMillis == {MinInt, 11}
MCLocalSeconds == {MinInt, 4, MaxInt}

\* The clock and the blocks run with the usual configurations.
MCInit ==
  /\ Init
  /\ config \in EdgeConfigs => policy = [ControllerClock |-> FALSE, BlockSelection |-> FALSE]

MCSpec == MCInit /\ [][Next]_heartbeatVars
=============================================================================

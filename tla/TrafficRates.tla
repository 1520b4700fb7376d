---------------------------- MODULE TrafficRates ----------------------------
(***************************************************************************)
(* internal/observe/rates.go and cmd/unifi-stubd/traffic_rates.go: the     *)
(* byte rates of a heartbeat, computed from the counters of this and of an *)
(* earlier heartbeat.  Samples are kept by interface name, not by port.    *)
(*                                                                         *)
(* The host counts bytes of every interface and may start a counter again  *)
(* from zero (a reload, a removed and re-created interface).  The reads of *)
(* one heartbeat see one state of the counters, and each may fail.  Packet *)
(* and error counters take no part.  A time is an age: the seconds since   *)
(* an interface was sampled.                                               *)
(***************************************************************************)
EXTENDS Integers

CONSTANTS
  Iface,      \* interfaces, by trimmed name in lower case
  NoIface,    \* a port without a source interface
  RatePorts,  \* the port numbers
  MaxBytes,   \* bound on a counter
  MaxMoved,   \* bound on the bytes between two samples
  MaxAge      \* bound on the seconds between two samples

ASSUME RatesAssumption ==
  /\ NoIface \notin Iface
  /\ \E last \in RatePorts \cup {0} : last \in Nat /\ RatePorts \subseteq 0 .. last
  /\ MaxBytes \in Nat /\ MaxMoved \in Nat /\ MaxAge \in Nat

VARIABLES
  host,      \* of every interface: link and byte counters
  previous,  \* the tracker's samples
  age,       \* seconds since the sample was taken
  moved,     \* history: bytes really received and sent since the sample
  restarted, \* history: the counters started again since the sample
  rates      \* what the heartbeat under way reports

rateVars == <<host, previous, age, moved, restarted, rates>>

Bytes == [rx : 0 .. MaxBytes, tx : 0 .. MaxBytes]

noBytes == [rx |-> 0, tx |-> 0]
noSample == [taken |-> FALSE, rx |-> 0, tx |-> 0]

\* real, elapsed, exact: history, what the rate should be.
noRate == [set |-> FALSE, rx |-> 0, tx |-> 0, real |-> noBytes, elapsed |-> 0, exact |-> FALSE]

RatesInit ==
  /\ host = [i \in Iface |-> [up |-> TRUE, rx |-> 0, tx |-> 0]]
  /\ previous = [i \in Iface |-> noSample]
  /\ age = [i \in Iface |-> 0]
  /\ moved = [i \in Iface |-> noBytes]
  /\ restarted = [i \in Iface |-> FALSE]
  /\ rates = [p \in RatePorts |-> noRate]
----------------------------------------------------------------------------
(* The host.  By the time it changes, the report has left with the payload. *)

reportSent == rates' = [p \in RatePorts |-> noRate]

Receive(i) ==
  /\ host[i].rx < MaxBytes /\ moved[i].rx < MaxMoved
  /\ host' = [host EXCEPT ![i].rx = @ + 1]
  /\ moved' = [moved EXCEPT ![i].rx = @ + 1]
  /\ reportSent /\ UNCHANGED <<previous, age, restarted>>

Transmit(i) ==
  /\ host[i].tx < MaxBytes /\ moved[i].tx < MaxMoved
  /\ host' = [host EXCEPT ![i].tx = @ + 1]
  /\ moved' = [moved EXCEPT ![i].tx = @ + 1]
  /\ reportSent /\ UNCHANGED <<previous, age, restarted>>

LinkChange(i) ==
  /\ host' = [host EXCEPT ![i].up = ~ host[i].up]
  /\ reportSent /\ UNCHANGED <<previous, age, moved, restarted>>

CounterReset(i) ==
  /\ host' = [host EXCEPT ![i].rx = 0, ![i].tx = 0]
  /\ restarted' = [restarted EXCEPT ![i] = TRUE]
  /\ reportSent /\ UNCHANGED <<previous, age, moved>>

SecondPasses ==
  /\ \A i \in Iface : age[i] < MaxAge
  /\ age' = [i \in Iface |-> IF previous[i].taken THEN age[i] + 1 ELSE 0]
  /\ reportSent /\ UNCHANGED <<host, previous, moved, restarted>>
----------------------------------------------------------------------------
(* applyTrafficRates.  seen[p] is what port p shows: its interface, whether *)
(* it has counters, the counters and its link.                              *)

hasByteCounters(s) == s.rx > 0 \/ s.tx > 0

\* The ports whose counters reach the tracker under the key i.
Sampled(seen, i) ==
  {p \in RatePorts : seen[p].key = i /\ seen[p].set /\ hasByteCounters(seen[p])}

\* The loop is in the order of the ports: the first compares with the last
\* heartbeat, for the others no time has passed, and the last one's stays.
FirstPort(S, p) == p \in S /\ \A q \in S : p <= q
LastPort(S, p) == p \in S /\ \A q \in S : q <= p

\* Mutant: a counter that went back is not recognised.
Comparable_back(s, i) ==
  previous[i].taken /\ s.up /\ age[i] > 0

Comparable(s, i) ==
  previous[i].taken /\ s.up /\ age[i] > 0 /\ s.rx >= previous[i].rx /\ s.tx >= previous[i].tx

rateOf(s, i) ==
  [set |-> TRUE, rx |-> (s.rx - previous[i].rx) \div age[i],
   tx |-> (s.tx - previous[i].tx) \div age[i],
   real |-> moved[i], elapsed |-> age[i], exact |-> ~ restarted[i]]

Rates(seen, p) ==
  IF /\ seen[p].key \in Iface
     /\ FirstPort(Sampled(seen, seen[p].key), p)
     /\ Comparable(seen[p], seen[p].key)
    THEN rateOf(seen[p], seen[p].key) ELSE noRate

sampleOf(s) == [taken |-> TRUE, rx |-> s.rx, tx |-> s.tx]

applyTrafficRates(seen) ==
  /\ rates' = [p \in RatePorts |-> Rates(seen, p)]
  /\ previous' = [i \in Iface |->
                    IF Sampled(seen, i) = {} THEN previous[i]
                    ELSE sampleOf(seen[CHOOSE p \in RatePorts : LastPort(Sampled(seen, i), p)])]
  /\ age' = [i \in Iface |-> IF Sampled(seen, i) = {} THEN age[i] ELSE 0]
  /\ moved' = [i \in Iface |-> IF Sampled(seen, i) = {} THEN moved[i] ELSE noBytes]
  /\ restarted' = [i \in Iface |-> Sampled(seen, i) = {} /\ restarted[i]]
  /\ UNCHANGED host
----------------------------------------------------------------------------
(* The tracker alone: ports show an interface with its own counters.       *)

shows(i, full, up) ==
  [key |-> i, set |-> full /\ i \in Iface, rx |-> IF i \in Iface THEN host[i].rx ELSE 0,
   tx |-> IF i \in Iface THEN host[i].tx ELSE 0, up |-> up]

HostNext ==
  \/ \E i \in Iface : Receive(i) \/ Transmit(i) \/ LinkChange(i) \/ CounterReset(i)
  \/ SecondPasses

RatesNext ==
  \/ HostNext
  \/ \E wiring \in [RatePorts -> Iface \cup {NoIface}], full, up \in [RatePorts -> BOOLEAN] :
       applyTrafficRates([p \in RatePorts |-> shows(wiring[p], full[p], up[p])])

RatesSpec == RatesInit /\ [][RatesNext]_rateVars
----------------------------------------------------------------------------
(* Properties.                                                             *)

\* A reported rate is never negative (the subtraction does not wrap) nor more
\* than what really went through the interface since it was last sampled,
\* whatever was restarted, unreadable or down in between and however many ports
\* show the interface; without a restart it is exactly that (Rates).
RatesAreReal ==
  \A p \in RatePorts :
    rates[p].set =>
      /\ rates[p].elapsed > 0 /\ rates[p].rx >= 0 /\ rates[p].tx >= 0
      /\ rates[p].rx <= rates[p].real.rx \div rates[p].elapsed
      /\ rates[p].tx <= rates[p].real.tx \div rates[p].elapsed
      /\ rates[p].exact => /\ rates[p].rx = rates[p].real.rx \div rates[p].elapsed
                           /\ rates[p].tx = rates[p].real.tx \div rates[p].elapsed
=============================================================================

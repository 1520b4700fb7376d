-------------------------- MODULE MCBridgeObserve --------------------------
(***************************************************************************)
(* A bridge with two physical and two virtual interfaces, and a switch of  *)
(* three ports.                                                            *)
(***************************************************************************)
EXTENDS BridgeObserve, TLC

AddressSymmetry == Permutations(MAC)

MCMember == {"br0", "eno1", "eno2", "tap1", "tap2"}

\* Virtual interfaces come first and the bridge last.
MCPlace == [m \in MCMember |-> CASE m = "tap1" -> 1 [] m = "tap2" -> 2 [] m = "eno1" -> 3
                                 [] m = "eno2" -> 4 [] m = "br0" -> 5]

pins(p1, p2) ==
  [m \in MCMember |-> CASE m = "tap1" -> p1 [] m = "tap2" -> p2 [] OTHER -> 0]

\* With and without an uplink; pins that are absent, good, shared, on the
\* uplink port and out of range; ignored members, the uplink among them.
Candidates ==
  {[mode |-> mode, uplinkInterface |-> up, ignored |-> ign, pin |-> pins(q[1], q[2]), uplinkPort |-> 1] :
     mode \in {"bridge-observe", "host-direct"}, up \in {NoMember, "eno1"},
     ign \in {{}, {"eno1"}, {"tap2"}}, q \in {<<0, 0>>, <<2, 0>>, <<1, 0>>, <<2, 2>>, <<0, 4>>}}

\* host-direct mode where it differs: configurations nobody has validated.
MCConfig == {c \in Candidates : c.mode = "host-direct" => ~validateObserveSources(c)}

\* Every distribution of the addresses over uplink and virtual interfaces; the
\* bridge and the second physical interface have all of them or none.
MCTables ==
  {[m \in MCMember |-> CASE m = "eno1" -> s[1] [] m = "tap1" -> s[2] [] m = "tap2" -> s[3] [] OTHER -> s[4]] :
     s \in {t \in (SUBSET MAC) \X (SUBSET MAC) \X (SUBSET MAC) \X {{}, MAC} :
             t[4] = MAC => t[1] = {} \/ t[2] = t[3]}}
=============================================================================

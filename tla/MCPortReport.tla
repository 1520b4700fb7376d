---------------------------- MODULE MCPortReport ----------------------------
(***************************************************************************)
(* A device of three ports; a bridge with two physical and two virtual     *)
(* interfaces; one host interface, e1, whose counters move.  The names f1  *)
(* to f3 are of interfaces that are gone: their reads fail.                *)
(***************************************************************************)
EXTENDS MCBridgeObserve, PortReport
LOCAL INSTANCE SequencesExt
----------------------------------------------------------------------------
(* Configurations.                                                         *)

\* A bridge without uplink and pins.
noBridge(up) ==
  [mode |-> "bridge-observe", uplinkInterface |-> NoMember, ignored |-> {}, pin |-> pins(0, 0), uplinkPort |-> up]

copper ==
  [ports |-> 3, speed |-> 1000, uplinkSpeed |-> 0, media |-> "GE", uplinkMedia |-> "", groups |-> <<>>, roles |-> <<>>]

\* Two copper ports and an SFP uplink.
fibre ==
  [copper EXCEPT !.uplinkSpeed = 10000, !.uplinkMedia = "SFP+",
                 !.groups = <<[count |-> 2, speed |-> 0, media |-> "", uplink |-> FALSE],
                              [count |-> 1, speed |-> 10000, media |-> "SFP+", uplink |-> TRUE]>>]

basic ==
  [mode |-> "stub", gateway |-> FALSE, profile |-> copper, uplinkPort |-> 1, linkSpeed |-> 0, uplinkSpeed |-> 0,
   uplinkInterface |-> "", observe |-> noBridge(1), mapping |-> <<>>, overrides |-> <<>>, ping |-> FALSE,
   targets |-> <<>>, neighbors |-> <<>>, uplinkNeighbor |-> "", lldp |-> FALSE, rates |-> FALSE,
   source |-> NoSource, own |-> <<>>]

over(p, values) == values @@ emptyOverride(p)

\* Bridges, with an operator who renames a port, names an interface that
\* is gone, and lists a client and an uplink neighbour.
BridgePlans ==
  {[basic EXCEPT !.mode = c.mode, !.observe = c,
                 !.uplinkInterface = IF c.uplinkInterface = NoMember THEN "" ELSE c.uplinkInterface,
                 !.overrides = <<over(2, [name |-> "server", up |-> "up"]), over(3, [interface |-> "f1"])>>,
                 !.neighbors = <<[port |-> 3, mac |-> "X", client |-> TRUE, remote |-> 0]>>,
                 !.uplinkNeighbor = "Y"] :
     c \in {d \in MCConfig : IF d.mode = "host-direct" THEN d.ignored = {} ELSE d.pin["tap2"] = 0}}

\* The uplink of an SFP profile moves to the last copper port; a forced link
\* speed forgets the groups, and the uplink is port 1.
FibrePlans ==
  {[basic EXCEPT !.mode = "bridge-observe", !.profile = fibre, !.uplinkPort = 0, !.uplinkInterface = "eno1",
                 !.observe = [noBridge(2) EXCEPT !.uplinkInterface = "eno1"]],
   [basic EXCEPT !.profile = fibre, !.uplinkPort = 0, !.linkSpeed = 100]}

\* The port map, with an interface on one or two ports, and overrides that
\* leave it alone, refine it, repeat it or stand against it.
MapPlans ==
  {[basic EXCEPT !.mode = "port-map", !.mapping = m, !.overrides = o, !.rates = r, !.gateway = ~ r] :
     <<m, r>> \in {<<<<"e1", "unmapped", "disabled">>, TRUE>>, <<<<"e1", "unmapped", "disabled">>, FALSE>>,
                    <<<<"e1", "e1", "f1">>, TRUE>>},
     o \in {<<>>, <<over(1, [interface |-> "e1", name |-> "up link"])>>,
            <<over(1, [up |-> "up", speed |-> 2500, ip |-> "op"]), over(3, [up |-> "up"])>>}}

\* Overrides alone name the interface.
StubPlans ==
  {[basic EXCEPT !.overrides = o, !.rates = r] :
     o \in {<<over(1, [interface |-> "e1"])>>,
            <<over(2, [interface |-> "e1", up |-> "down"]), over(2, [name |-> "x"])>>},
     r \in BOOLEAN}

\* Gateways: every combination of roles, live and dead ports and assignments.
RoleOverride(p) ==
  {over(p, [name |-> "x"]), over(p, [role |-> "wan"]), over(p, [role |-> "wan", up |-> "down"]),
   over(p, [role |-> "wan", interface |-> "f1", up |-> "up"]), over(p, [role |-> "lan", conf |-> "id"]),
   over(p, [role |-> "lan2", interface |-> "f2"]),
   over(p, [role |-> "unassigned", group |-> "Unassigned"]), over(p, [role |-> "unassigned"])}

GatewayPlans ==
  {[basic EXCEPT !.gateway = TRUE, !.overrides = <<o1, o2, o3>>, !.ping = (t # <<>>), !.targets = t] :
     o1 \in RoleOverride(1), o2 \in RoleOverride(2), o3 \in RoleOverride(3), t \in {<<>>, <<2>>}}

\* Neighbours: of the uplink, of ports, and what is heard on three interfaces.
device(p, mac, client) == [port |-> p, mac |-> mac, client |-> client, remote |-> 0]

NeighborPlans ==
  {[basic EXCEPT !.mode = "port-map", !.mapping = <<"f1", "f2", "f3">>, !.gateway = g, !.uplinkPort = u,
                 !.observe = noBridge(u), !.lldp = TRUE, !.uplinkNeighbor = n, !.neighbors = d,
                 !.overrides = <<over(1, [up |-> "up"])>>] :
     g \in BOOLEAN, u \in 1 .. 3, n \in {"", "X"},
     d \in {<<>>, <<device(1, "X", FALSE)>>, <<device(2, "X", FALSE)>>, <<device(2, "Y", FALSE)>>,
            <<device(2, "X", TRUE)>>, <<device(1, "X", FALSE), device(2, "X", FALSE)>>}}

heardOn(i, S) == SetToSeq({[interface |-> i, mac |-> mac, remote |-> 0] : mac \in S})

MCHeard ==
  {heardOn("f1", s1) \o heardOn("f2", s2) \o heardOn("f3", s3) :
     s1 \in SUBSET {"X", "Y"}, s2 \in SUBSET {"X", "Y"}, s3 \in SUBSET {"X", "Y"}}

\* The importer: ports 1 and 2, with overrides of the operator that leave them
\* alone or stand against them.
mapped(p, i, values) ==
  values @@ [port |-> p, interface |-> i, name |-> "", role |-> "", group |-> "", conf |-> "", vlan |-> 0,
             speed |-> 0, media |-> ""]

sourceOf(interfaces, health) ==
  [interfaces |-> interfaces, uplinkPort |-> 2, gatewayStatus |-> TRUE,
   wanHealth |-> [set |-> health, ping |-> health, targets |-> IF health THEN <<1>> ELSE <<>>]]

ImportPlans ==
  {[basic EXCEPT !.gateway = TRUE, !.uplinkPort = u, !.own = o, !.overrides = o,
                 !.source = sourceOf(<<mapped(1, i, [role |-> "wan", name |-> "WAN"]),
                                       mapped(2, "f2", [speed |-> 1000])>>, h)] :
     <<u, i, h>> \in {<<0, "f1", FALSE>>, <<1, "f1", FALSE>>, <<0, "f1", TRUE>>, <<1, "f1", TRUE>>, <<0, "e1", FALSE>>},
     o \in {<<>>, <<over(1, [up |-> "down"])>>,
            <<over(1, [interface |-> "f2"]), over(2, [ip |-> "op", speed |-> 2500])>>,
            <<over(2, [name |-> "server", role |-> "lan"]), over(2, [up |-> "up", name |-> "other"])>>}}

row(i, name, values) == values @@ [unknownInterface(i) EXCEPT !.name = name]

\* The overview lacks an interface, knows one by its description, has two rows
\* under one name, or says different things at different times.
MCAnswers ==
  {[overview |-> o, detail |-> [i \in {"e1", "f1", "f2"} |-> IF i = "f2" THEN d ELSE {}], gateways |-> g] :
     o \in {{row("f1", "", [ip |-> "A", up |-> "up", speed |-> 1000])},
            {row("f1", "", [up |-> "down"]), row("f2", "", [ip |-> "E"]), row("f3", "f2", [ip |-> "B", up |-> "up"])},
            {row("e1", "f1", [ip |-> "C", speed |-> 2500, media |-> "GE"])}},
     d \in {{}, {row("f2", "", [ip |-> "D", up |-> "up"])}},
     g \in {{}, {[interface |-> "f1", name |-> "GW", online |-> "dead"]}}}

MCPlan == BridgePlans \cup FibrePlans \cup MapPlans \cup StubPlans \cup GatewayPlans \cup NeighborPlans \cup ImportPlans

\* A WAN port with a VLAN, and a probe of it.
VLANPlan ==
  {[basic EXCEPT !.gateway = TRUE, !.overrides = <<over(2, [role |-> "wan", vlan |-> 5])>>,
                 !.ping = TRUE, !.targets = <<2>>]}
=============================================================================

------------------------------ MODULE Payload ------------------------------
(***************************************************************************)
(* internal/device/payload: the tables of an inform payload, built from    *)
(* the ports of one heartbeat.  A switch has a summary of its uplink at    *)
(* the root, a management interface and a port table; a gateway repeats    *)
(* its ports in a dozen tables, some by port, some by WAN or LAN role.     *)
(*                                                                         *)
(* A row has what several tables show; constants, capabilities, duplex,    *)
(* PoE and the telemetry block are left out.  Interface names are made     *)
(* from the port number alone, so a row is known by its port; bit rates    *)
(* are byte rates times eight.                                             *)
(***************************************************************************)
EXTENDS PortOverrides, Topology

firstOf(S) == IF S = {} THEN 0 ELSE CHOOSE p \in S : \A q \in S : p <= q

noCounters == [set |-> FALSE, rx |-> 0, tx |-> 0]
----------------------------------------------------------------------------
(* view.go and fragments.go: what all tables are rendered from.            *)

effectivePortSpeed(port) == IF port.up /\ port.speed <= 0 THEN 1000 ELSE port.speed

effectivePortMedia(port, speed) ==
  IF port.media = "" /\ speed > 0 THEN mediaForSpeed(speed) ELSE port.media

\* Without a role, port 1 is WAN, port 3 is WAN2 and the others are LAN.
gatewayPortRole(port, p) ==
  text(port.role, CASE p = 1 -> "wan" [] p = 3 -> "wan2" [] OTHER -> "lan")

gatewayNetworkGroup(port, p) ==
  text(port.group, CASE gatewayPortRole(port, p) = "wan" -> "WAN"
                     [] gatewayPortRole(port, p) = "wan2" -> "WAN2"
                     [] OTHER -> "LAN")

\* Without an address: the device's on a LAN, one from the documentation range
\* on a WAN.
interfaceIP(port, p) ==
  text(port.ip, CASE gatewayPortRole(port, p) \in {"lan", "lan2"} -> "device"
                  [] gatewayPortRole(port, p) \in {"wan", "wan2"} -> "192.0.2.2"
                  [] OTHER -> "0.0.0.0")

\* neighbor is the resolved edge; upstream, its direction.
BuildPortViews(ports, topology) ==
  [p \in DOMAIN ports |->
     [port |-> ports[p], index |-> p, role |-> gatewayPortRole(ports[p], p),
      group |-> gatewayNetworkGroup(ports[p], p), source |-> ports[p].interface,
      uplink |-> ports[p].uplink, enabled |-> ~ ports[p].disabled, up |-> ports[p].up,
      speed |-> effectivePortSpeed(ports[p]),
      media |-> effectivePortMedia(ports[p], effectivePortSpeed(ports[p])),
      ip |-> interfaceIP(ports[p], p), neighbor |-> topology.edges[p], upstream |-> ports[p].uplink]]

portCounterFields(port) ==
  IF port.set THEN [set |-> TRUE, rx |-> port.rx, tx |-> port.tx] ELSE noCounters

portRateFields(port) ==
  IF port.rates.set /\ port.up THEN [rx |-> port.rates.rx, tx |-> port.rates.tx]
  ELSE [rx |-> 0, tx |-> 0]

explicitPortRateFields(port) ==
  IF port.rates.set
    THEN [set |-> TRUE, rx |-> portRateFields(port).rx, tx |-> portRateFields(port).tx]
    ELSE noRates

\* Mutant: the upstream device is listed like a client.
downstreamMACTable_both(view) ==
  view.port.macs \cup (IF view.neighbor # noNeighbor THEN {view.neighbor.mac} ELSE {})

downstreamMACTable(view) ==
  view.port.macs \cup (IF view.neighbor # noNeighbor /\ ~ view.upstream THEN {view.neighbor.mac} ELSE {})

\* The reported neighbours are those of the selected device only.
lldpTable(views) ==
  UNION {{[port |-> p, mac |-> n.mac, remote |-> n.remote] :
            n \in {m \in {lldpOf(views[p].port)[k] : k \in DOMAIN lldpOf(views[p].port)} :
                     m.mac = views[p].neighbor.mac}} : p \in DOMAIN views}

uplinksOf(views) == {p \in DOMAIN views : views[p].uplink}

\* Mutant: the root keeps the direction of the port.
rootTraffic_sameDirection(view) ==
  [counters |-> portCounterFields(view.port),
   rates |-> IF view.port.rates.set THEN explicitPortRateFields(view.port) ELSE noRates]

\* The root's receive is the port's send; a link that is down has no rate.
rootTraffic(view) ==
  [counters |-> IF view.port.set THEN [set |-> TRUE, rx |-> view.port.tx, tx |-> view.port.rx] ELSE noCounters,
   rates |-> IF ~ view.port.rates.set THEN noRates
             ELSE IF ~ view.up THEN [set |-> TRUE, rx |-> 0, tx |-> 0]
             ELSE [set |-> TRUE, rx |-> view.port.rates.tx, tx |-> view.port.rates.rx]]

noTraffic == [counters |-> noCounters, rates |-> noRates]
----------------------------------------------------------------------------
(* switch.go.                                                              *)

switchTrafficSummaryFor(views) ==
  IF uplinksOf(views) = {} THEN noTraffic ELSE rootTraffic(views[firstOf(uplinksOf(views))])

managementSpeed(ports) ==
  LET fast == {p \in DOMAIN ports : ports[p].uplink /\ ports[p].speed > 0} IN
  IF fast # {} THEN ports[firstOf(fast)].speed
  ELSE IF 1 \in DOMAIN ports /\ ports[1].speed > 0 THEN ports[1].speed ELSE 1000

\* The management interface has the uplink's counters in the port's direction.
switchManagementInterfaceRow(views, ports) ==
  [speed |-> managementSpeed(ports),
   counters |-> IF uplinksOf(views) = {} THEN noCounters
                ELSE portCounterFields(views[firstOf(uplinksOf(views))].port),
   rates |-> IF uplinksOf(views) = {} THEN noRates
             ELSE explicitPortRateFields(views[firstOf(uplinksOf(views))].port)]

switchLastUplinkRowFor(views) ==
  LET told == {p \in DOMAIN views : views[p].neighbor # noNeighbor /\ views[p].upstream} IN
  IF told = {} THEN [port |-> 0, mac |-> "", remote |-> 0]
  ELSE [port |-> firstOf(told), mac |-> views[firstOf(told)].neighbor.mac,
        remote |-> views[firstOf(told)].neighbor.remote]

\* An uplink of unknown speed is not given the default one.
portTable(views) ==
  [p \in DOMAIN views |->
     [enable |-> views[p].enabled, up |-> views[p].up, isUplink |-> views[p].uplink,
      speed |-> IF views[p].uplink /\ views[p].port.speed <= 0 THEN 0 ELSE views[p].speed,
      macTable |-> downstreamMACTable(views[p]), counters |-> portCounterFields(views[p].port),
      rates |-> explicitPortRateFields(views[p].port), source |-> views[p].source]]

buildSwitchPayload(views, ports) ==
  [kind |-> "switch", summary |-> switchTrafficSummaryFor(views),
   ifTable |-> switchManagementInterfaceRow(views, ports), portTable |-> portTable(views),
   lastUplink |-> switchLastUplinkRowFor(views), lldpTable |-> lldpTable(views)]
----------------------------------------------------------------------------
(* The gateway's tables by role.                                           *)

\* The ports with the role that are live, else all with the role, else all.
gatewayRoleCandidates(views, role) ==
  LET matches == {p \in DOMAIN views : views[p].role = role}
      active == {p \in matches : views[p].up /\ (views[p].uplink \/ views[p].source # "")} IN
  IF active # {} THEN active ELSE IF matches # {} THEN matches ELSE DOMAIN views

\* The first candidate that has the role; 0: nobody.
gatewayRolePort(views, role) ==
  firstOf({p \in gatewayRoleCandidates(views, role) : views[p].role = role})

gatewayConfigNetwork(views, role) ==
  LET p == gatewayRolePort(views, role) IN
  IF p = 0 THEN [port |-> 0, ip |-> "", group |-> ""]
  ELSE [port |-> p, ip |-> views[p].ip, group |-> views[p].group]

\* Live LAN ports before others, and the first LAN before the second.
gatewayLANConfigPort(views) ==
  LET of(role, live) == {p \in DOMAIN views : views[p].role = role /\ (live => views[p].up \/ views[p].source # "")}
      candidates == <<of("lan", TRUE), of("lan2", TRUE), of("lan", FALSE), of("lan2", FALSE)>> IN
  IF \A k \in 1 .. 4 : candidates[k] = {} THEN 0
  ELSE firstOf(candidates[CHOOSE k \in 1 .. 4 : candidates[k] # {} /\ \A j \in 1 .. k - 1 : candidates[j] = {}])

gatewayConfigLAN(views) ==
  LET p == gatewayLANConfigPort(views) IN
  IF p = 0 THEN [port |-> 0, ip |-> "", vlan |-> 0]
  ELSE [port |-> p, ip |-> views[p].ip, vlan |-> positive(views[p].port.vlan, 1)]

gatewayTrafficSummaryFor(views, role) ==
  LET p == gatewayRolePort(views, role) IN IF p = 0 THEN noTraffic ELSE rootTraffic(views[p])

gatewayWans(views) ==
  {[port |-> p, ip |-> views[p].ip, plugged |-> views[p].up, enabled |-> views[p].enabled] :
     p \in {gatewayRolePort(views, "wan"), gatewayRolePort(views, "wan2")} \ {0}}

gatewayLastWANIP(views) ==
  LET p == gatewayRolePort(views, "wan") IN IF p = 0 THEN "" ELSE views[p].ip
----------------------------------------------------------------------------
(* The gateway's tables by port.                                           *)

gatewayIsLogicalRole(role) == role \in {"wan", "wan2", "lan", "lan2"}

\* Interface names are the ports' own, so no two ports meet under one name.
logicalInterfacePorts(views) == {p \in DOMAIN views : gatewayIsLogicalRole(views[p].role)}

\* The device behind the port: upstream in the logical tables ...
gatewayConnectionFields(view) ==
  IF view.up /\ view.uplink /\ view.neighbor # noNeighbor /\ view.upstream
    THEN view.neighbor.mac ELSE ""

\* ... downstream in the physical ones, where a client may stand in for it.
physicalConnectionFields(view) ==
  IF ~ view.up THEN {}
  ELSE IF view.neighbor # noNeighbor /\ ~ view.upstream THEN {view.neighbor.mac}
  ELSE view.port.macs

assignmentFields(view) == [conf |-> view.port.conf, vlan |-> view.port.vlan]

gatewayPortTable(views) ==
  [p \in DOMAIN views |->
     [role |-> views[p].role, group |-> views[p].group, enable |-> views[p].enabled, up |-> views[p].up,
      isUplink |-> views[p].uplink, speed |-> views[p].speed,
      ip |-> IF views[p].ip = "0.0.0.0" THEN "" ELSE views[p].ip,
      macTable |-> downstreamMACTable(views[p]), assignment |-> assignmentFields(views[p]),
      counters |-> portCounterFields(views[p].port), rates |-> explicitPortRateFields(views[p].port),
      source |-> views[p].source, connection |-> physicalConnectionFields(views[p])]]

gatewayPortStatsTable(views) ==
  [p \in DOMAIN views |->
     [enable |-> views[p].enabled, up |-> views[p].up, isUplink |-> views[p].uplink, speed |-> views[p].speed,
      macTable |-> downstreamMACTable(views[p]), counters |-> portCounterFields(views[p].port),
      rates |-> explicitPortRateFields(views[p].port)]]

gatewayConfigPortTable(views) ==
  [p \in DOMAIN views |->
     [role |-> views[p].role, group |-> views[p].group, up |-> views[p].up, enable |-> views[p].enabled,
      isUplink |-> views[p].uplink, assignment |-> assignmentFields(views[p]), speed |-> views[p].speed,
      source |-> views[p].source, connection |-> physicalConnectionFields(views[p])]]

unassigned(view) == ~ gatewayIsLogicalRole(view.role) /\ view.group = "Unassigned"

needsAllEthernetOverrides(views) ==
  \E p \in DOMAIN views : unassigned(views[p]) \/ views[p].port.conf # ""

\* Mutant: only LAN ports are assigned, whatever the other ports say.
overriddenPorts_lan(views) == {p \in DOMAIN views : views[p].role \in {"lan", "lan2"}}

overriddenPorts(views) ==
  {p \in DOMAIN views :
     IF needsAllEthernetOverrides(views) THEN gatewayIsLogicalRole(views[p].role) \/ unassigned(views[p])
     ELSE views[p].role \in {"lan", "lan2"}}

gatewayEthernetOverrides(views) ==
  [p \in overriddenPorts(views) |->
     IF unassigned(views[p])
       THEN [group |-> "Unassigned", up |-> FALSE, enable |-> FALSE, disabled |-> TRUE,
             assignment |-> [conf |-> "", vlan |-> 0], source |-> views[p].source]
       ELSE [group |-> views[p].group, up |-> views[p].up, enable |-> views[p].enabled, disabled |-> FALSE,
             assignment |-> assignmentFields(views[p]), source |-> views[p].source]]

\* The row with the management VLAN: the uplink's, or port 1's when the uplink is
\* not in the table.
managementRow(views) ==
  LET up == {p \in logicalInterfacePorts(views) : views[p].uplink} IN IF up = {} THEN 1 ELSE firstOf(up)

gatewayIfTable(views, managementVLAN) ==
  [p \in logicalInterfacePorts(views) |->
     [ip |-> views[p].ip, up |-> views[p].up, enable |-> views[p].enabled, group |-> views[p].group,
      speed |-> views[p].speed, counters |-> portCounterFields(views[p].port),
      rates |-> explicitPortRateFields(views[p].port), source |-> views[p].source,
      connection |-> gatewayConnectionFields(views[p]),
      vlan |-> IF p = managementRow(views) THEN managementVLAN ELSE 0]]

gatewayNetworkTable(views) ==
  [p \in logicalInterfacePorts(views) |->
     [ip |-> views[p].ip, group |-> views[p].group, up |-> views[p].up, speed |-> views[p].speed,
      counters |-> portCounterFields(views[p].port), rates |-> explicitPortRateFields(views[p].port),
      hosts |-> views[p].port.macs]]

gatewayReportedNetworks(views) ==
  [p \in logicalInterfacePorts(views) |->
     [ip |-> views[p].ip, group |-> views[p].group, type |-> views[p].role, up |-> views[p].up]]

gatewayUplinkTable(views, managementVLAN) ==
  LET p == IF uplinksOf(views) = {} THEN 1 ELSE firstOf(uplinksOf(views)) IN
  [port |-> p, ip |-> views[p].ip, up |-> views[p].up, enable |-> views[p].enabled, speed |-> views[p].speed,
   counters |-> portCounterFields(views[p].port), rates |-> explicitPortRateFields(views[p].port),
   connection |-> gatewayConnectionFields(views[p]), vlan |-> managementVLAN]

buildGatewayPayload(views, managementVLAN) ==
  [kind |-> "gateway", summary |-> gatewayTrafficSummaryFor(views, "wan"),
   ifTable |-> gatewayIfTable(views, managementVLAN), networkTable |-> gatewayNetworkTable(views),
   configPortTable |-> gatewayConfigPortTable(views), ethernetOverrides |-> gatewayEthernetOverrides(views),
   portTable |-> gatewayPortTable(views), portStats |-> gatewayPortStatsTable(views),
   reportedNetworks |-> gatewayReportedNetworks(views), wans |-> gatewayWans(views),
   uplinkTable |-> gatewayUplinkTable(views, managementVLAN), lastWANIP |-> gatewayLastWANIP(views),
   configWAN |-> gatewayConfigNetwork(views, "wan"), configWAN2 |-> gatewayConfigNetwork(views, "wan2"),
   configLAN |-> gatewayConfigLAN(views), lldpTable |-> lldpTable(views)]
----------------------------------------------------------------------------
\* build.go: a topology error is the builder's, and ends the presence loop.
buildFrom(ports, topology, gateway, managementVLAN) ==
  IF topology.failed THEN [kind |-> "error"]
  ELSE IF gateway THEN buildGatewayPayload(BuildPortViews(ports, topology), managementVLAN)
  ELSE buildSwitchPayload(BuildPortViews(ports, topology), ports)

Build(ports, gateway, managementVLAN) == buildFrom(ports, ResolveTopology(ports), gateway, managementVLAN)
=============================================================================

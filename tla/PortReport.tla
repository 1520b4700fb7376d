----------------------------- MODULE PortReport -----------------------------
(***************************************************************************)
(* cmd/unifi-stubd, portsForRuntime: what one heartbeat shows of the       *)
(* ports.  The profile's ports, the host's bridge or the mapped            *)
(* interfaces, the operator's overrides, the WAN probes, LLDP and the      *)
(* configured neighbours are laid over each other in this order; then the  *)
(* traffic rates are added and the payload is built.                       *)
(*                                                                         *)
(* It composes BridgeObserve (how a bridge is read), TrafficRates (the     *)
(* host's counters and the tracker) with the functions of PortOverrides,   *)
(* Topology and Payload.  Only the tracker and the configuration live      *)
(* longer than a heartbeat; an import from OPNsense (Opnsense) replaces    *)
(* the configuration and restarts the daemon.                              *)
(***************************************************************************)
EXTENDS BridgeObserve, TrafficRates, Payload, Opnsense

CONSTANTS
  Plan,       \* the configurations to start from
  Heard,      \* what lldpd may report: lists of interface, address, remote port
  HostSpeed,  \* of every interface that is up
  Answers     \* what the API of OPNsense may say

ASSUME ReportAssumption ==
  RatePorts = Port /\ Port # {} /\ NoIface = "" /\ HostSpeed \in Nat \ {0}

planFields ==
  {"mode", "gateway", "profile", "uplinkPort", "linkSpeed", "uplinkSpeed", "uplinkInterface", "observe", "mapping",
   "overrides", "ping", "targets", "neighbors", "uplinkNeighbor", "lldp", "rates", "source", "own"}

isList(s) == Len(s) \in Nat /\ DOMAIN s = 1 .. Len(s)

\* Speeds and VLANs are numbers, in the file and in what OPNsense answers for it.
SourceType(source) ==
  /\ isList(source.interfaces) /\ isList(source.wanHealth.targets)
  /\ \A k \in DOMAIN source.interfaces :
       LET mapping == source.interfaces[k] IN
       /\ mapping.port \in Int /\ mapping.vlan \in Int /\ mapping.speed \in Int
       /\ \A answer \in Answers : \A row \in lookupInterfaceStatus(answer, mapping.interface) : row.speed \in Int

PlanType(pl) ==
  /\ DOMAIN pl = planFields
  /\ isList(pl.overrides) /\ isList(pl.mapping) /\ isList(pl.targets) /\ isList(pl.neighbors)
  /\ isList(pl.profile.groups)
  /\ \A g \in DOMAIN pl.profile.groups : pl.profile.groups[g].count \in Int
  /\ \A k \in DOMAIN pl.overrides : isConfigured(pl.overrides[k])
  /\ pl.source # <<>> => SourceType(pl.source) /\ isList(pl.own) /\ \A k \in DOMAIN pl.own : isConfigured(pl.own[k])

ASSUME PlanAssumption ==
  /\ \A pl \in Plan : PlanType(pl) /\ (pl.source # <<>> => pl.own = pl.overrides)
  /\ \A heard \in Heard : isList(heard)

VARIABLES
  plan,       \* the configuration; source, when it is not NoSource, is the file of the
              \* importer, and own are the overrides before any import
  overrides,  \* flags.portOverrides
  shown       \* the report under way: ports, topology and payload; or NoReport

reportVars == <<plan, overrides, shown>>
allVars == <<vars, rateVars, reportVars>>

NoReport == <<>>
NoSource == <<>>

bridgeModes == {"bridge-observe", "host-direct"}
----------------------------------------------------------------------------
(* The configuration.                                                      *)

\* resolvePortBuildOptions.  plan.uplinkSpeed is what the egress link or the
\* operator says, 0 for the profile's.
portBuildOptions(pl) ==
  [count |-> PortCount, linkSpeed |-> pl.linkSpeed, uplinkSpeed |-> pl.uplinkSpeed,
   uplinkPort |-> effectiveUplinkPort(pl.profile, pl)]

builtPorts(pl) == BuildPorts(pl.profile, portBuildOptions(pl))

\* validatePortOverrides: the neighbours and overrides alone.
validatePortOverrides(pl, built) ==
  /\ pl.uplinkPort \in 0 .. PortCount
  /\ \A k \in DOMAIN pl.neighbors : pl.neighbors[k].port \in Port
  /\ \A k \in DOMAIN pl.overrides : ValidatePortOverride(pl.overrides[k], PortCount)
  /\ validateTopologyNeighbors(built, pl.neighbors, pl.uplinkNeighbor)

\* validatePortMapSources: every port is mapped once.
validatePortMapSources(pl) == pl.mode = "port-map" => DOMAIN pl.mapping = Port

validWith(pl, built) ==
  /\ validatePortOverrides(pl, built) /\ validatePortMapSources(pl)
  /\ pl.mode = "bridge-observe" => validateObserveSources(pl.observe)
  /\ validateWANHealthTargets(pl, ApplyPortOverrides(built, pl.overrides))
  /\ pl.mode \in bridgeModes => pl.observe.uplinkPort = uplinkPortIndex(built)
  /\ pl.source # NoSource => ValidateSourceConfig(pl.source)

\* What -validate and the start of the daemon accept.
Valid(pl) == validWith(pl, builtPorts(pl))

ReportInit ==
  /\ plan \in {pl \in Plan : Valid(pl)}
  /\ cfg = plan.observe
  /\ phase = "idle" /\ uplink = "silent" /\ fdb = noAddresses
  /\ found = [m \in Member |-> "silent"] /\ ports = [p \in Port |-> profilePort]
  /\ queue = {} /\ access = {} /\ used = {}
  /\ RatesInit
  /\ overrides = plan.overrides /\ shown = NoReport
----------------------------------------------------------------------------
(* Reading interfaces.                                                     *)

\* Everything; no counters; counters but no carrier; nothing, as after the
\* timeout of the heartbeat's reads or when the interface is gone.
Quality == {"full", "linked", "counted", "silent"}

ObserveInterface(i, quality) ==
  LET linked == i \in Iface /\ quality \in {"full", "linked"}
      counted == i \in Iface /\ quality \in {"full", "counted"} IN
  [interface |-> i, ip |-> IF linked \/ counted THEN i ELSE "",
   up |-> IF ~ linked THEN "" ELSE IF host[i].up THEN "up" ELSE "down",
   speed |-> IF linked /\ host[i].up THEN HostSpeed ELSE 0, media |-> "",
   set |-> counted, rx |-> IF counted THEN host[i].rx ELSE 0, tx |-> IF counted THEN host[i].tx ELSE 0]

\* What the snapshot leaves of a profile port.
observedPort(port, seen) ==
  [port EXCEPT !.interface = IF seen.interface = NoMember THEN "" ELSE seen.interface,
               !.name = IF seen.name = Profile THEN @ ELSE seen.name,
               !.up = seen.link # Down,
               !.speed = IF seen.link = Profile THEN @ ELSE IF seen.link = Down THEN 0 ELSE HostSpeed,
               !.set = seen.counters # NoMember, !.macs = seen.macs]

\* The host's part: mapped interfaces, or the bridge (BridgeObserve), or none.
observed(built, mapped) ==
  CASE plan.mode = "port-map" ->
         ApplyPortOverrides(built,
           OverridesFromObservation(plan.mapping, [p \in Port |-> ObserveInterface(plan.mapping[p], mapped[p])]))
    [] plan.mode \in bridgeModes -> [p \in Port |-> observedPort(built[p], ports[p])]
    [] OTHER -> built

\* lldpInterfacePortMap: uplink, pins, port map, overrides.
lldpBindings(all) ==
  (IF cfg.uplinkInterface = NoMember THEN <<>> ELSE <<<<cfg.uplinkInterface, uplinkPortIndex(all)>>>>)
  \o Ext!SetToSeq({<<m, cfg.pin[m]>> : m \in {n \in Member : cfg.pin[n] # 0}})
  \o [p \in DOMAIN plan.mapping |-> <<plan.mapping[p], p>>]
  \o [k \in DOMAIN overrides |-> <<overrides[k].interface, overrides[k].port>>]

\* Mutant: the names that were observed come after the configured ones.
withOverrides_observedLast(seen, enriched) ==
  [p \in Port |-> [ApplyPortOverrides(seen, enriched)[p] EXCEPT !.name = seen[p].name]]

withOverrides(seen, enriched) == ApplyPortOverrides(seen, enriched)

withLLDP(all, heard) == IF plan.lldp THEN applyLLDPNeighbors(all, lldpBindings(all), heard) ELSE all

withNeighbors(all) == ApplyUplinkNeighbor(ApplyPortNeighbors(all, plan.neighbors), plan.uplinkNeighbor, 0)

portsForRuntime(enriched, mapped, heard, alive) ==
  withNeighbors(
    withLLDP(applyWANHealth(withOverrides(observed(builtPorts(plan), mapped), enriched), plan, enriched, alive),
             heard))

\* Mutant: what was read for an override stays in the configuration.
flagsAfter_enriched(enriched) == enriched

\* The flags are a copy: the heartbeat leaves the configuration alone.
flagsAfter(enriched) == overrides
----------------------------------------------------------------------------
(* The steps.                                                              *)

\* traffic_rates.go: a port's samples go under the name of its interface.
seenBy(all) ==
  [p \in Port |-> [key |-> all[p].interface, set |-> all[p].set, rx |-> all[p].rx, tx |-> all[p].tx,
                   up |-> all[p].up]]

withRates(all) ==
  [p \in Port |->
     LET r == Rates(seenBy(all), p) IN
     [all[p] EXCEPT !.rates = IF plan.rates THEN [set |-> r.set, rx |-> r.rx, tx |-> r.tx] ELSE noRates]]

reportOf(all) ==
  [ports |-> all, edges |-> ResolveTopology(all).edges, payload |-> Build(all, plan.gateway, 7)]

\* What was read for the overrides that name an interface.
enrichedOverrides(refreshed) ==
  RefreshOverrides(overrides, [k \in DOMAIN overrides |-> ObserveInterface(overrides[k].interface, refreshed[k])])

Show(enriched, all) ==
  /\ shown' = reportOf(withRates(all))
  /\ overrides' = flagsAfter(enriched)
  /\ IF plan.rates THEN applyTrafficRates(seenBy(all)) ELSE UNCHANGED rateVars

Report(mapped, refreshed, heard, alive) ==
  /\ shown = NoReport
  /\ plan.mode \in bridgeModes => phase = "done"
  /\ \E enriched \in {enrichedOverrides(refreshed)} :
       \E all \in {portsForRuntime(enriched, mapped, heard, alive)} : Show(enriched, all)
  /\ UNCHANGED <<plan, vars>>

\* The payload is built and sent.
Sent ==
  /\ shown # NoReport
  /\ shown' = NoReport
  /\ reportSent
  /\ UNCHANGED <<plan, overrides, vars, host, previous, age, moved, restarted>>

ObserveBridge ==
  /\ plan.mode \in bridgeModes /\ shown = NoReport
  /\ Next
  /\ UNCHANGED <<plan, overrides, shown, rateVars>>

\* The interfaces the configuration names.
named(i) ==
  \/ \E p \in DOMAIN plan.mapping : plan.mapping[p] = i
  \/ \E k \in DOMAIN overrides : overrides[k].interface = i

HostStep ==
  /\ plan.mode \notin bridgeModes /\ shown = NoReport
  /\ \E i \in Iface : named(i)
  /\ HostNext
  /\ UNCHANGED <<plan, overrides, shown, vars>>

\* cmd/unifi-stubd-opnsense, and the operator who validates and installs what it
\* wrote and restarts the daemon: the tracker forgets its samples.  A read that
\* fails, and a file that -validate refuses, leave everything as it was.
Install(generated) ==
  /\ Valid(generated)
  /\ plan' = generated /\ overrides' = generated.overrides
  /\ previous' = [i \in Iface |-> noSample] /\ age' = [i \in Iface |-> 0]
  /\ moved' = [i \in Iface |-> noBytes] /\ restarted' = [i \in Iface |-> FALSE]
  /\ UNCHANGED <<shown, vars, host, rates>>

Import(status, gateway) == Install(GenerateConfig(plan, plan.source, status, gateway))

\* One row for every mapping, out of those found for it.
picks(rows) == {s \in [DOMAIN rows -> UNION Ext!Range(rows)] : \A k \in DOMAIN rows : s[k] \in rows[k]}

readings(answer) ==
  picks([k \in DOMAIN plan.source.interfaces |->
           lookupInterfaceStatus(answer, plan.source.interfaces[k].interface)])

gatewayReadings(answer) ==
  picks([k \in DOMAIN plan.source.interfaces |->
           lookupGatewayStatus(answer, plan.source, plan.source.interfaces[k].interface)])

OperatorImports ==
  /\ plan.source # NoSource /\ shown = NoReport
  /\ \E answer \in Answers : \E status \in readings(answer), gateway \in gatewayReadings(answer) :
       Import(status, gateway)

\* Only interfaces can be read in more than one way.
mappedReadings ==
  {r \in [Port -> Quality] :
     \A p \in Port : ~ (p \in DOMAIN plan.mapping /\ plan.mapping[p] \in Iface) => r[p] = "silent"}

overrideReadings ==
  {r \in [DOMAIN overrides -> Quality] :
     \A k \in DOMAIN overrides : overrides[k].interface \notin Iface => r[k] = "silent"}

ReportNext ==
  \/ \E mapped \in mappedReadings, refreshed \in overrideReadings,
        heard \in (IF plan.lldp THEN Heard ELSE {<<>>}),
        alive \in SUBSET {plan.targets[k] : k \in DOMAIN plan.targets} :
       Report(mapped, refreshed, heard, alive)
  \/ Sent
  \/ ObserveBridge
  \/ HostStep
  \/ OperatorImports

ReportSpec == ReportInit /\ [][ReportNext]_allVars
----------------------------------------------------------------------------
(* Properties of the ports.                                                *)

reporting == shown # NoReport

\* What an override has to do with a field: it gives it; the interface it names
\* may give it; a link that is down has no speed; and none leaves the VLAN.
speaks(o, field) ==
  \/ given(o, field)
  \/ field \in {"ip", "up", "speed"} /\ o.interface # ""
  \/ field = "speed" /\ o.up = "down"
  \/ field = "vlan"

says(o, field) == IF field = "up" THEN o.up = "up" ELSE o[field]

speakers(list, p, field) == {k \in DOMAIN list : list[k].port = p /\ speaks(list[k], field)}

\* Port p shows what the last override that speaks of a field gives.
Shows(list, p, field) ==
  \A k \in speakers(list, p, field) :
    (k = lastOf(speakers(list, p, field)) /\ given(list[k], field)) => shown.ports[p][field] = says(list[k], field)

ShowsWhatIsSet(list, p) ==
  \A field \in {"name", "interface", "ip", "role", "group", "conf", "up", "speed"} : Shows(list, p, field)

\* What the operator sets is what is shown, in every mode, whatever the host's
\* bridge, the mapped interfaces and the probes say, and also when the
\* interface that the override itself names cannot be read (portsForRuntime).
OperatorHasTheLastWord == reporting => \A p \in Port : ShowsWhatIsSet(plan.overrides, p)

sets(p, field) == \E k \in DOMAIN plan.own : plan.own[k].port = p /\ given(plan.own[k], field)

imported(p) ==
  {m \in {plan.source.interfaces[k] : k \in DOMAIN plan.source.interfaces} : m.port = p /\ plan.overrides # plan.own}

\* What OPNsense may say of the address of an interface.
answered(name) == {row.ip : row \in UNION {lookupInterfaceStatus(answer, name) : answer \in Answers}}

mappedTo(p) == {plan.mapping[q] : q \in DOMAIN plan.mapping \cap {p}}

\* However often the importer runs, and whatever OPNsense answered each time,
\* the operator's own values stay (MergeOverrides), and a port that the
\* operator left open shows the name and the address of the interface it is
\* mapped to, never those of another mapping.
ImportKeepsOperator ==
  (reporting /\ plan.source # NoSource) =>
    \A p \in Port :
      /\ ShowsWhatIsSet(plan.own, p)
      /\ \A m \in imported(p) :
           /\ ~ sets(p, "name") /\ m.name # "" => shown.ports[p].name = m.name
           /\ ~ sets(p, "interface") => shown.ports[p].interface = m.interface
           /\ ~ sets(p, "ip") /\ ~ sets(p, "interface") =>
                shown.ports[p].ip \in {"", m.interface} \cup mappedTo(p) \cup answered(m.interface)

\* The interfaces whose facts reach port p.
sourcesOf(p) ==
  ({plan.overrides[k].interface : k \in {j \in DOMAIN plan.overrides : plan.overrides[j].port = p}}
     \cup mappedTo(p)) \cap Iface

unmixed(p) == Cardinality(sourcesOf(p)) <= 1

operatorLinks(p) ==
  \E k \in DOMAIN plan.overrides :
    plan.overrides[k].port = p /\ (plan.overrides[k].up # "" \/ plan.overrides[k].speed > 0)

\* A port that names an interface shows it as it is now: it is up only if the
\* interface is, a port that is down has no speed, and the counters are the
\* interface's, never those of an earlier heartbeat (RefreshOverrides).
HostFactsAreCurrent ==
  (reporting /\ plan.mode \notin bridgeModes) =>
    \A p \in Port :
      (shown.ports[p].interface \in Iface /\ unmixed(p)) =>
        /\ shown.ports[p].set => /\ shown.ports[p].rx = host[shown.ports[p].interface].rx
                           /\ shown.ports[p].tx = host[shown.ports[p].interface].tx
        /\ ~ operatorLinks(p) => /\ shown.ports[p].up => host[shown.ports[p].interface].up
                                 /\ ~ shown.ports[p].up => shown.ports[p].speed = 0

\* wan_health.go: "Role, VLAN, assignment IDs, addresses, and source interfaces
\* are intentionally left untouched."
ProbesLeaveVLAN == reporting => \A p \in Port : Shows(plan.overrides, p, "vlan")
----------------------------------------------------------------------------
(* Properties of the topology.                                             *)

payload == shown.payload
edgeOf(p) == shown.edges[p]

\* What lldpd hears can never make the resolution fail and end the daemon: the
\* only errors are those of the configuration, which is refused at startup.
LLDPNeverFails == reporting => payload.kind # "error"

\* A configured neighbour is always the one shown on its port.
ConfiguredEdgesSurvive ==
  (reporting /\ payload.kind # "error") =>
    \A p \in Port : configuredOf(shown.ports[p]) # <<>> => edgeOf(p).mac = configuredOf(shown.ports[p])[1].mac

\* Of devices that only LLDP knows, none is shown upstream and downstream.
HeardOneWay ==
  (reporting /\ payload.kind # "error") =>
    \A p, q \in Port :
      (/\ edgeOf(p).source = "lldp" /\ edgeOf(q).source = "lldp" /\ edgeOf(p).mac = edgeOf(q).mac)
        => shown.ports[p].uplink = shown.ports[q].uplink
----------------------------------------------------------------------------
(* Properties of the payload.                                              *)

\* The port whose traffic is the root's.
rootPort ==
  IF plan.gateway THEN gatewayRolePort(BuildPortViews(shown.ports, shown), "wan")
  ELSE uplinkPortIndex(shown.ports)

\* The root's traffic is that of the interface behind the uplink (the WAN port
\* of a gateway), seen from the other side: the bytes and the rate it sends are
\* what the interface has received, now and not at an earlier heartbeat; and a
\* link that is down has no rate (rootTraffic).
RootTrafficIsReal ==
  (reporting /\ payload.kind # "error" /\ plan.mode \notin bridgeModes /\ rootPort # 0) =>
    LET port == shown.ports[rootPort]
        root == payload.summary IN
    /\ (root.counters.set /\ port.interface \in Iface /\ unmixed(rootPort)) =>
         /\ root.counters.tx = host[port.interface].rx /\ root.counters.rx = host[port.interface].tx
    /\ root.rates.set => /\ root.rates.tx = rates[rootPort].rx /\ root.rates.rx = rates[rootPort].tx
                         /\ ~ port.up => root.rates.tx = 0 /\ root.rates.rx = 0
    /\ ~ plan.gateway =>
         /\ {p \in Port : payload.portTable[p].isUplink} = {rootPort}
         /\ payload.ifTable.counters = payload.portTable[rootPort].counters
         /\ payload.ifTable.rates = payload.portTable[rootPort].rates

\* Every device the resolution selected is told once: the upstream one as last
\* uplink or connection of the uplink port and in no address table, every other
\* in the address table of its own port (unless the operator lists its address
\* as a client there too); and LLDP rows name selected devices only.
EdgesAreToldOnce ==
  (reporting /\ payload.kind # "error") =>
    /\ \A p \in Port :
         LET told == payload.portTable[p].macTable \ shown.ports[p].macs IN
         told = IF edgeOf(p) # noNeighbor /\ ~ shown.ports[p].uplink THEN {edgeOf(p).mac} \ shown.ports[p].macs ELSE {}
    /\ \A row \in payload.lldpTable : edgeOf(row.port).mac = row.mac
    /\ ~ plan.gateway => payload.lastUplink.mac = edgeOf(uplinkPortIndex(shown.ports)).mac
    /\ plan.gateway =>
         payload.uplinkTable.connection =
           IF shown.ports[uplinkPortIndex(shown.ports)].up THEN edgeOf(uplinkPortIndex(shown.ports)).mac ELSE ""

live(p) == shown.ports[p].up /\ (shown.ports[p].uplink \/ shown.ports[p].interface # "")
roleOf(p) == gatewayPortRole(shown.ports[p], p)

\* A gateway tells one story in all of its tables: the WAN of the configuration,
\* of the inventory and of the last address is one port, a live one if there is
\* any; a port is up, enabled and counted in every table or in none; with an
\* assignment anywhere all assigned ports have a row; and the management VLAN
\* is on the uplink's row.
GatewayTablesAgree ==
  (reporting /\ plan.gateway /\ payload.kind # "error") =>
    /\ \A role \in {"wan", "wan2"} :
         LET network == IF role = "wan" THEN payload.configWAN ELSE payload.configWAN2
             own == {p \in Port : roleOf(p) = role} IN
         /\ network.port # 0 <=> own # {}
         /\ (\E p \in own : live(p)) => live(network.port)
         /\ own # {} => \E row \in payload.wans : row.port = network.port /\ row.ip = network.ip
    /\ payload.lastWANIP = payload.configWAN.ip
    /\ \A p \in DOMAIN payload.ifTable :
         /\ payload.ifTable[p].up = payload.portTable[p].up
         /\ payload.ifTable[p].counters = payload.portStats[p].counters
         /\ payload.networkTable[p].rates = payload.portTable[p].rates
         /\ payload.networkTable[p].hosts \subseteq payload.portTable[p].macTable
         /\ payload.reportedNetworks[p].ip = payload.ifTable[p].ip
         /\ payload.ifTable[p].vlan # 0 =>
              p = uplinkPortIndex(shown.ports) \/ uplinkPortIndex(shown.ports) \notin DOMAIN payload.ifTable
    /\ payload.configLAN.port # 0 => payload.configLAN.ip = payload.networkTable[payload.configLAN.port].ip
    /\ (\E p \in Port : payload.configPortTable[p].assignment.conf # "") =>
         DOMAIN payload.ifTable \subseteq DOMAIN payload.ethernetOverrides
=============================================================================

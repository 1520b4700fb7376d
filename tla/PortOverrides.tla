--------------------------- MODULE PortOverrides ---------------------------
(***************************************************************************)
(* internal/device: the ports of the profile, and the overrides that the   *)
(* operator, the port map and the WAN probes lay over them.  Everything is *)
(* a function of its arguments; PortReport calls it in every heartbeat.    *)
(*                                                                         *)
(* A text is a string, "" when it is not set, and already normalised.  ip  *)
(* stands for MAC, IPv4 address and netmask, group for the network group,  *)
(* conf for the assignment ids, wan for the four WAN fields, rx and tx for *)
(* all counters; up is a pointer, "" when it is nil.                       *)
(***************************************************************************)
EXTENDS Lists

text(new, old) == IF new = "" THEN old ELSE new
positive(new, old) == IF new > 0 THEN new ELSE old

mediaForSpeed(speed) == IF speed >= 10000 THEN "SFP+" ELSE "GE"
----------------------------------------------------------------------------
(* BuildPorts.                                                             *)

\* A forced link speed forgets the profile's media and groups.
profilePortLayout(profile, options) ==
  LET forced == options.linkSpeed > 0
      media == IF forced THEN "" ELSE profile.media
      uplinkMedia == IF forced THEN "" ELSE profile.uplinkMedia IN
  [speed |-> positive(options.linkSpeed, profile.speed),
   uplinkSpeed |-> positive(options.uplinkSpeed, positive(options.linkSpeed, profile.uplinkSpeed)),
   media |-> media,
   uplinkMedia |-> IF options.uplinkSpeed > 0 /\ uplinkMedia = media THEN "" ELSE uplinkMedia,
   groups |-> IF forced THEN <<>> ELSE profile.groups]

withMedia(layout, speed, uplinkSpeed) ==
  [layout EXCEPT !.speed = speed, !.uplinkSpeed = uplinkSpeed,
                 !.media = text(@, mediaForSpeed(speed)),
                 !.uplinkMedia = text(@, mediaForSpeed(uplinkSpeed))]

normalizePortLayout(layout) ==
  withMedia(layout, positive(layout.speed, 1000), positive(layout.uplinkSpeed, positive(layout.speed, 1000)))

countGroup(n, group) == n + group.count

Counted == INSTANCE ListFold WITH Step <- countGroup

portsBefore(groups, g) == Counted!folded(0, groups)[g - 1]

\* Groups that do not add up to the port count are ignored.
grouped(layout, count) ==
  /\ layout.groups # <<>>
  /\ \A g \in DOMAIN layout.groups : layout.groups[g].count >= 1
  /\ portsBefore(layout.groups, Len(layout.groups) + 1) = count

groupOf(groups, p) == CHOOSE g \in DOMAIN groups : portsBefore(groups, g) < p /\ p <= portsBefore(groups, g + 1)

\* The first port of the first uplink group, else port 1.
profileUplink(layout, count) ==
  LET uplinks == {g \in DOMAIN layout.groups : layout.groups[g].uplink} IN
  IF grouped(layout, count) /\ uplinks # {}
    THEN portsBefore(layout.groups, CHOOSE g \in uplinks : \A h \in uplinks : g <= h) + 1
    ELSE 1

\* It has the uplink's speed and media, wherever the marker is moved to.
linkOf(layout, count, p) ==
  IF p = profileUplink(layout, count) THEN [speed |-> layout.uplinkSpeed, media |-> layout.uplinkMedia]
  ELSE IF ~ grouped(layout, count) THEN [speed |-> layout.speed, media |-> layout.media]
  ELSE LET group == layout.groups[groupOf(layout.groups, p)]
           speed == positive(group.speed, layout.speed) IN
       [speed |-> speed, media |-> text(group.media, mediaForSpeed(speed))]

\* applyUplinkPort: where the marker is.
uplinkPortOf(layout, count, uplinkPort) ==
  IF uplinkPort \in 1 .. count THEN uplinkPort ELSE profileUplink(layout, count)

noRates == [set |-> FALSE, rx |-> 0, tx |-> 0]

generatedPort(p, link, role, uplink) ==
  [name |-> "profile", interface |-> "", ip |-> "", ipv6 |-> "", role |-> role, group |-> "", conf |-> "",
   vlan |-> 0, wan |-> "", media |-> link.media, uplink |-> uplink, disabled |-> FALSE, up |-> TRUE,
   speed |-> link.speed, set |-> FALSE, rx |-> 0, tx |-> 0, macs |-> {}, neighbors |-> <<>>,
   rates |-> noRates]

profilePortCount(profile, options) ==
  IF options.count > 0 THEN options.count ELSE IF profile.ports < 1 THEN 1 ELSE profile.ports

portsOf(layout, count, roles, uplinkPort) ==
  [p \in 1 .. count |->
     generatedPort(p, linkOf(layout, count, p), IF p \in DOMAIN roles THEN roles[p] ELSE "",
                   p = uplinkPortOf(layout, count, uplinkPort))]

BuildPorts(profile, options) ==
  portsOf(normalizePortLayout(profilePortLayout(profile, options)), profilePortCount(profile, options),
          profile.roles, options.uplinkPort)

\* operation_ports.go, uplinkPortIndex.
uplinkPortIndex(ports) ==
  IF \E p \in DOMAIN ports : ports[p].uplink THEN CHOOSE p \in DOMAIN ports : ports[p].uplink ELSE 1

\* device_ports.go: bridge-observe mode moves the uplink of a switch from an SFP
\* port to the last copper port, or the last port.
effectiveUplinkOf(ports, plan) ==
  LET others == {p \in DOMAIN ports : ~ ports[p].uplink}
      copper == {p \in others : ports[p].media = "GE"}
      last(S) == CHOOSE p \in S : \A q \in S : q <= p IN
  IF \/ plan.uplinkPort > 0 \/ plan.mode # "bridge-observe" \/ plan.uplinkInterface = ""
     \/ plan.gateway \/ ports[uplinkPortIndex(ports)].media = "GE" \/ others = {}
    THEN plan.uplinkPort
  ELSE IF copper # {} THEN last(copper) ELSE last(others)

effectiveUplinkPort(profile, plan) ==
  effectiveUplinkOf(BuildPorts(profile, [count |-> 0, linkSpeed |-> 0, uplinkSpeed |-> 0, uplinkPort |-> 0]), plan)
----------------------------------------------------------------------------
(* ApplyPortOverrides: one setter per group of fields, in this order.      *)

emptyOverride(p) ==
  [port |-> p, name |-> "", interface |-> "", ip |-> "", ipv6 |-> "", role |-> "", group |-> "", conf |-> "",
   vlan |-> 0, wan |-> "", media |-> "", disabled |-> FALSE, up |-> "", speed |-> 0,
   set |-> FALSE, rx |-> 0, tx |-> 0]

\* What a file can say of a port: only the port map disables, and only an
\* interface that is read has counters.
isConfigured(o) ==
  /\ DOMAIN o = DOMAIN emptyOverride(0)
  /\ o.port \in Int /\ o.vlan \in Int /\ o.speed \in Int
  /\ ~ o.disabled /\ ~ o.set /\ o.rx = 0 /\ o.tx = 0

setPortOverrideStrings(port, o) ==
  [port EXCEPT !.name = text(o.name, @), !.interface = text(o.interface, @), !.ip = text(o.ip, @),
               !.role = text(o.role, @), !.group = text(o.group, @), !.conf = text(o.conf, @)]

\* The VLAN is replaced, also by none.
setPortOverrideAssignment(port, o) ==
  [port EXCEPT !.vlan = o.vlan, !.ipv6 = text(o.ipv6, @)]

setPortOverrideSpeed(port, o) ==
  IF o.speed <= 0 THEN port
  ELSE [port EXCEPT !.speed = o.speed, !.media = IF o.media = "" THEN mediaForSpeed(o.speed) ELSE @]

setPortOverrideWANHealth(port, o) == [port EXCEPT !.wan = o.wan]

setPortOverrideCounters(port, o) ==
  [port EXCEPT !.rx = IF o.set \/ o.rx # 0 THEN o.rx ELSE @,
               !.tx = IF o.set \/ o.tx # 0 THEN o.tx ELSE @, !.set = o.set \/ @]

setPortOverrideMedia(port, o) == [port EXCEPT !.media = text(o.media, @)]

setPortOverrideLinkState(port, o) ==
  IF o.up = "" THEN port
  ELSE [port EXCEPT !.up = (o.up = "up"), !.speed = IF o.up = "down" /\ o.speed <= 0 THEN 0 ELSE @]

setPortOverrideDisabled(port, o) ==
  IF ~ o.disabled THEN port
  ELSE [port EXCEPT !.disabled = TRUE, !.up = FALSE, !.speed = 0, !.ipv6 = "", !.macs = {}]

portOverrideSetters(port, o) ==
  LET named == setPortOverrideAssignment(setPortOverrideStrings(port, o), o)
      counted == setPortOverrideCounters(setPortOverrideWANHealth(setPortOverrideSpeed(named, o), o), o) IN
  setPortOverrideDisabled(setPortOverrideLinkState(setPortOverrideMedia(counted, o), o), o)

applyOverride(ports, o) ==
  IF o.port \in DOMAIN ports THEN [ports EXCEPT ![o.port] = portOverrideSetters(@, o)] ELSE ports

Overridden == INSTANCE ListFold WITH Step <- applyOverride

ApplyPortOverrides(ports, overrides) == Overridden!Fold(ports, overrides)

PortOverrideEmpty(o) == o = emptyOverride(o.port)

ValidatePortOverride(o, portCount) ==
  /\ o.port \in 1 .. portCount
  /\ o.speed >= 0 /\ o.vlan >= 0
  /\ o.role \in {"", "wan", "lan", "wan2", "lan2", "unassigned"}
  /\ ~ PortOverrideEmpty(o)
----------------------------------------------------------------------------
(* What a host interface adds to an override.                              *)

\* ifsource/apply.go.  What the operator has set stays.
ApplyObservation(o, seen) ==
  LET up == IF o.up # "" THEN o.up ELSE IF seen.up = "up" THEN "up" ELSE "down" IN
  [o EXCEPT !.interface = text(@, seen.interface), !.ip = text(@, seen.ip), !.ipv6 = text(@, seen.ip),
            !.up = up,
            !.speed = IF @ <= 0 /\ up = "up" /\ seen.speed > 0 THEN seen.speed ELSE @,
            !.media = text(@, seen.media),
            !.rx = seen.rx, !.tx = seen.tx, !.set = seen.set \/ seen.rx # 0 \/ seen.tx # 0]

\* refresh.go: every override that names an interface; seen[k] is what was read
\* for the k-th.
RefreshOverrides(configured, seen) ==
  [k \in DOMAIN configured |->
     IF configured[k].interface = "" THEN configured[k] ELSE ApplyObservation(configured[k], seen[k])]

disabledOverride(p) == [emptyOverride(p) EXCEPT !.up = "down", !.disabled = TRUE]

\* portmap/mapping.go: mapping[p] is an interface, "disabled" or "unmapped".
OverridesFromObservation(mapping, seen) ==
  LET mapped == picked([p \in DOMAIN mapping |-> p], {p \in DOMAIN mapping : mapping[p] # "unmapped"}) IN
  [k \in DOMAIN mapped |->
     IF mapping[mapped[k]] = "disabled" THEN disabledOverride(mapped[k])
     ELSE ApplyObservation(emptyOverride(mapped[k]), seen[mapped[k]])]
----------------------------------------------------------------------------
(* WAN health.                                                             *)

isWANRole(role) == role \in {"wan", "wan2"}

\* explicitWANPorts: the last override with a role decides.
explicitWANPorts(overrides) ==
  LET roles(p) == {k \in DOMAIN overrides : overrides[k].port = p /\ overrides[k].role # ""} IN
  {overrides[k].port : k \in {j \in DOMAIN overrides : /\ isWANRole(overrides[j].role)
                                                      /\ j = lastOf(roles(overrides[j].port))}}

\* probeTargets: the targets that are WAN ports by an override and by what is shown.
probeTargets(targets, ports, overrides) ==
  picked(targets, {k \in DOMAIN targets : /\ targets[k] \in DOMAIN ports
                                          /\ targets[k] \in explicitWANPorts(overrides)
                                          /\ isWANRole(ports[targets[k]].role)})

WANHealthOverrides(targets, alive) ==
  [k \in DOMAIN targets |-> [emptyOverride(targets[k]) EXCEPT !.wan = IF targets[k] \in alive THEN "alive" ELSE "dead"]]

applyWANHealth(ports, plan, overrides, alive) ==
  IF ~ plan.ping \/ ~ plan.gateway THEN ports
  ELSE ApplyPortOverrides(ports, WANHealthOverrides(probeTargets(plan.targets, ports, overrides), alive))

\* validateWANHealthTargets, on the ports of the profile with the overrides.
validateWANHealthTargets(plan, preview) ==
  plan.ping =>
    /\ plan.gateway /\ plan.targets # <<>>
    /\ \A k \in DOMAIN plan.targets :
         /\ plan.targets[k] \in explicitWANPorts(plan.overrides)
         /\ isWANRole(preview[plan.targets[k]].role)
=============================================================================

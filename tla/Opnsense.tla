------------------------------ MODULE Opnsense ------------------------------
(***************************************************************************)
(* internal/opnsense: the configuration that unifi-stubd-opnsense          *)
(* generates from a base configuration, a source file that maps ports to   *)
(* interfaces, and what the API of OPNsense says of interfaces and         *)
(* gateways.  Everything is a function of its arguments; PortReport has    *)
(* the step of the operator who generates, validates and installs it.      *)
(*                                                                         *)
(* answer.overview and answer.gateways are decoded rows in lower case;     *)
(* answer.detail has what the API says of an interface that is asked for   *)
(* by its name.  The shapes and spellings in which a response may come are *)
(* not told apart.  A configuration has the fields the generator touches.  *)
(***************************************************************************)
EXTENDS PortOverrides, FiniteSets
Ext == INSTANCE SequencesExt

unknownInterface(name) ==
  [interface |-> name, name |-> "", ip |-> "", up |-> "", speed |-> 0, media |-> ""]

noGateway == [interface |-> "", name |-> "", online |-> ""]

\* A row is entered under its interface and under its description, in the
\* random order of a Go map: of two rows with one name, either may stay.
under(rows, name) == {r \in rows : r.interface = name \/ r.name = name}

\* An interface that the overview does not have is asked for by its name.
lookupInterfaceStatus(answer, name) ==
  IF under(answer.overview, name) # {} THEN under(answer.overview, name)
  ELSE IF answer.detail[name] # {} THEN answer.detail[name]
  ELSE {unknownInterface(name)}

lookupGatewayStatus(answer, source, name) ==
  IF source.gatewayStatus /\ under(answer.gateways, name) # {}
    THEN under(answer.gateways, name) ELSE {noGateway}

ValidateSourceConfig(source) ==
  /\ source.interfaces # <<>>
  /\ \A k \in DOMAIN source.interfaces :
       source.interfaces[k].port >= 1 /\ source.interfaces[k].interface # ""
  /\ \A k, l \in DOMAIN source.interfaces :
       source.interfaces[k].port = source.interfaces[l].port => k = l
----------------------------------------------------------------------------
\* The source file first, then what the API says.  ip stands for the IPv6
\* addresses of the interface too.
overrideFromMapping(mapping, status) ==
  [emptyOverride(mapping.port) EXCEPT
     !.name = mapping.name, !.interface = mapping.interface, !.role = mapping.role,
     !.group = mapping.group, !.conf = mapping.conf, !.vlan = mapping.vlan,
     !.ip = status.ip, !.ipv6 = status.ip, !.up = status.up,
     !.speed = positive(mapping.speed, status.speed), !.media = text(mapping.media, status.media)]

\* Only the role of the source file counts.
applyGatewayStatus(o, status) ==
  IF isWANRole(o.role) THEN [o EXCEPT !.wan = status.online] ELSE o

\* status[k] and gateway[k] are what the lookups for the k-th mapping found.
OverridesFromState(mappings, status, gateway) ==
  [k \in DOMAIN mappings |-> applyGatewayStatus(overrideFromMapping(mappings[k], status[k]), gateway[k])]

\* The fields an overlay touches, and when a field is given.
overlaid ==
  {"name", "interface", "ip", "ipv6", "role", "group", "conf", "vlan", "wan", "speed", "media", "up"}

given(o, field) == IF field \in {"vlan", "speed"} THEN o[field] > 0 ELSE o[field] # ""

\* Mutant: the generated value wins.
overlayOverride_generatedWins(target, source) ==
  [f \in DOMAIN target |->
     IF f \in overlaid /\ given(source, f) /\ ~ given(target, f) THEN source[f] ELSE target[f]]

overlayOverride(target, source) ==
  [f \in DOMAIN target |-> IF f \in overlaid /\ given(source, f) THEN source[f] ELSE target[f]]

\* The generated overrides by port; of two, the later one.
generatedByPort(generated) ==
  [p \in {generated[k].port : k \in {j \in DOMAIN generated : generated[j].port >= 1}} |->
     generated[lastOf({k \in DOMAIN generated : generated[k].port = p})]]

\* A base override is laid over what its port has.
mergeOverride(merged, o) ==
  IF o.port < 1 THEN merged
  ELSE [p \in DOMAIN merged \cup {o.port} |->
          IF p # o.port THEN merged[p]
          ELSE overlayOverride(IF p \in DOMAIN merged THEN merged[p] ELSE emptyOverride(p), o)]

Merging == INSTANCE ListFold WITH Step <- mergeOverride

mergedByPort(generated, base) == Merging!Fold(generatedByPort(generated), base)

\* Positive numbers, sorted.
inOrder(S) == picked([p \in 1 .. lastOf(S \cup {0}) |-> p], S)

MergeOverrides(generated, base) ==
  LET merged == mergedByPort(generated, base)
      ports == inOrder(DOMAIN merged) IN
  [k \in DOMAIN ports |-> merged[ports[k]]]

GenerateConfig(base, source, status, gateway) ==
  [base EXCEPT !.overrides = MergeOverrides(OverridesFromState(source.interfaces, status, gateway), @),
               !.uplinkPort = IF @ = 0 THEN source.uplinkPort ELSE @,
               !.ping = IF source.wanHealth.set THEN source.wanHealth.ping ELSE @,
               !.targets = IF source.wanHealth.set THEN source.wanHealth.targets ELSE @]
=============================================================================

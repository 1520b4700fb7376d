--------------------------- MODULE BridgeObserve ---------------------------
(***************************************************************************)
(* internal/observe: in bridge-observe and host-direct mode every          *)
(* heartbeat reads the host's bridge and decides which port of the         *)
(* represented switch shows which bridge member and which learned          *)
(* addresses.  Nothing is kept from one heartbeat to the next.             *)
(*                                                                         *)
(* The host is read three times (uplink, forwarding table, members), and   *)
(* each read may fail or find the host changed.  The loop of               *)
(* applyDeviceMACs is an action per member.  Names are modelled trimmed    *)
(* and in lower case.                                                      *)
(***************************************************************************)
EXTENDS Integers, FiniteSets

CONSTANTS
  PortCount,
  Member,    \* interfaces the forwarding table may name
  Bridge,    \* the bridge itself
  Virtual,   \* members whose name is that of a virtual machine's interface
  Physical,  \* members whose name is that of a physical interface
  Place,     \* the order of the members by rank, number and name
  MAC,       \* addresses the bridge may have learned
  Tables,    \* the forwarding tables it may show
  Config,    \* the configurations to start from
  NoMember,  \* nobody; no uplink_interface
  Profile,   \* the profile's synthetic default
  Down       \* not connected

Port == 1 .. PortCount

\* port 0 is no pin; host-direct mode does not validate the pins.
ConfigType ==
  [mode : {"bridge-observe", "host-direct"}, uplinkInterface : Member \cup {NoMember},
   ignored : SUBSET Member, pin : [Member -> Nat], uplinkPort : Port]

ASSUME BridgeAssumption ==
  /\ PortCount \in Nat
  /\ IsFiniteSet(Member) /\ Bridge \in Member /\ NoMember \notin Member
  /\ Profile \notin Member /\ Down \notin Member /\ Profile # Down
  /\ Place \in [Member -> Nat \ {0}]
  /\ Config \subseteq ConfigType /\ Tables \subseteq [Member -> SUBSET MAC]

VARIABLES
  cfg,      \* the configuration
  phase,    \* of the heartbeat: "idle", "fdb", "members", "apply", "done"
  uplink,   \* how the configured uplink was found
  fdb,      \* the learned addresses of every member
  found,    \* how every member was found
  ports,    \* what the ports show
  queue,    \* members that are still to be mapped
  access,   \* access ports that are still free
  used      \* ports that have a member

vars == <<cfg, phase, uplink, fdb, found, ports, queue, access, used>>

\* What an interface read returns: carrier and counters, or (an error, the
\* timeout) only its name.
Reading == {"up", "down", "silent"}

\* link: whose carrier and speed; counters: whose; interface, name: as shown.
profilePort ==
  [link |-> Profile, counters |-> NoMember, interface |-> NoMember, name |-> Profile, macs |-> {}]

noAddresses == [m \in Member |-> {}]
----------------------------------------------------------------------------
(* The configuration and the roles.                                        *)

Pinned(m) == cfg.pin[m] \in Port

\* validateObserveSources, which only bridge-observe mode calls.
validateObserveSources(c) ==
  /\ \A m \in Member : c.pin[m] # 0 => c.pin[m] \in Port
  /\ \A m, n \in Member : (c.pin[m] # 0 /\ c.pin[m] = c.pin[n]) => m = n
  /\ \A m \in c.ignored : m # Bridge /\ m # c.uplinkInterface /\ c.pin[m] = 0

Present == {m \in Member : fdb[m] # {}}

ClassifyMember(m) ==
  CASE m = Bridge              -> "bridge"
    [] m = cfg.uplinkInterface -> "uplink"
    [] m \in Virtual           -> "access"
    [] OTHER                   -> "unknown"

physicalCandidates == {m \in Present : m \in Physical /\ ClassifyMember(m) = "unknown"}

\* ClassifyMembersWithIgnores: without a configured uplink the only physical
\* member is taken for it.
memberRole(m) ==
  IF m \in cfg.ignored THEN "ignored"
  ELSE IF cfg.uplinkInterface = NoMember /\ physicalCandidates = {m} THEN "uplink"
  ELSE ClassifyMember(m)

isUplink(m) == memberRole(m) = "uplink" \/ m = cfg.uplinkInterface

\* RemoteMACsByBridgeMember: these addresses live behind the real neighbour.
remoteMACs == UNION {fdb[m] : m \in {n \in Present : isUplink(n)}}

\* Mutant: nothing is filtered.
filterRemoteMACEntries_none(m) == fdb[m]

filterRemoteMACEntries(m) == fdb[m] \ remoteMACs

Skipped(m) == memberRole(m) \in {"bridge", "ignored"}
----------------------------------------------------------------------------
(* Reading the host.                                                       *)

Init ==
  /\ cfg \in {c \in Config : c.mode = "bridge-observe" => validateObserveSources(c)}
  /\ phase = "idle"
  /\ uplink = "silent"
  /\ fdb = noAddresses
  /\ found = [m \in Member |-> "silent"]
  /\ ports = [p \in Port |-> profilePort]
  /\ queue = {} /\ access = {} /\ used = {}

\* A heartbeat begins: the ports are built anew and the uplink is read.
ReadUplink(reading) ==
  /\ phase \in {"idle", "done"}
  /\ phase' = "fdb"
  /\ uplink' = IF cfg.uplinkInterface = NoMember THEN "silent" ELSE reading
  /\ fdb' = noAddresses
  /\ found' = [m \in Member |-> "silent"]
  /\ ports' = [p \in Port |-> profilePort]
  /\ queue' = {} /\ access' = {} /\ used' = {}
  /\ UNCHANGED cfg

\* The learned entries by member; after a failed read there are none.
ReadFDB(learned) ==
  /\ phase = "fdb"
  /\ phase' = "members"
  /\ fdb' = learned
  /\ UNCHANGED <<cfg, uplink, found, ports, queue, access, used>>

Eligible == {m \in Present : ~Skipped(m)}

\* Mutant: only the pins of members that are present are kept free.
validPinnedPortSet_present == {cfg.pin[m] : m \in Present} \cap Port

validPinnedPortSet == {cfg.pin[m] : m \in Member} \cap Port

\* bridgeMemberObservations, and the uplink's part of Apply.
ReadMembers(readings) ==
  /\ phase = "members"
  /\ phase' = "apply"
  /\ found' = [m \in Member |-> IF m \in Eligible THEN readings[m] ELSE "silent"]
  /\ ports' = [ports EXCEPT ![cfg.uplinkPort].link =
                              IF uplink = "up" THEN cfg.uplinkInterface ELSE Down,
                            ![cfg.uplinkPort].counters =
                              IF uplink = "silent" THEN NoMember ELSE cfg.uplinkInterface]
  /\ queue' = Present
  /\ access' = Port \ ({cfg.uplinkPort} \cup validPinnedPortSet)
  /\ used' = {cfg.uplinkPort}
  /\ UNCHANGED <<cfg, uplink, fdb>>
----------------------------------------------------------------------------
(* applyDeviceMACs.                                                        *)

sortKey(m) == IF m = cfg.uplinkInterface THEN 0 ELSE Place[m]

\* sortedDeviceNames.
First(m) == m \in queue /\ \A n \in queue : sortKey(m) <= sortKey(n)

clearObservedPortState(port) ==
  [port EXCEPT !.link = Down, !.counters = NoMember, !.macs = {}]

\* The observation replaces all a port has shown, its addresses too.
applyMemberPortObservation(port, m) ==
  [clearObservedPortState(port) EXCEPT
     !.interface = m,
     !.link = IF found[m] = "up" THEN m ELSE Down,
     !.counters = IF found[m] = "silent" THEN NoMember ELSE m]

\* The bridge, an ignored member, or one with remote addresses only.
SkipMember(m) ==
  /\ phase = "apply" /\ First(m)
  /\ Skipped(m) \/ (~isUplink(m) /\ filterRemoteMACEntries(m) = {})
  /\ queue' = queue \ {m}
  /\ UNCHANGED <<cfg, phase, uplink, fdb, found, ports, access, used>>

MapUplink(m) ==
  /\ phase = "apply" /\ First(m)
  /\ ~Skipped(m) /\ isUplink(m)
  /\ ports' = [ports EXCEPT ![cfg.uplinkPort] =
                 [applyMemberPortObservation(@, m) EXCEPT !.name = m]]
  /\ queue' = queue \ {m}
  /\ UNCHANGED <<cfg, phase, uplink, fdb, found, access, used>>

\* Its pin, else the first free access port, else the uplink port.
PortFor(m, p) ==
  IF Pinned(m) THEN p = cfg.pin[m]
  ELSE IF access # {} THEN p \in access /\ \A q \in access : p <= q
  ELSE p = cfg.uplinkPort

\* Mutant: nextAccess is not advanced.
MapMember_sharesPort(m, p) ==
  /\ phase = "apply" /\ First(m)
  /\ ~Skipped(m) /\ ~isUplink(m) /\ filterRemoteMACEntries(m) # {}
  /\ PortFor(m, p)
  /\ ports' = [ports EXCEPT ![p] =
                 [applyMemberPortObservation(@, m) EXCEPT
                    !.macs = filterRemoteMACEntries(m),
                    !.name = IF p = cfg.uplinkPort THEN ports[p].name ELSE m]]
  /\ used' = used \cup {p}
  /\ queue' = queue \ {m}
  /\ UNCHANGED <<cfg, phase, uplink, fdb, found, access>>

MapMember(m, p) ==
  /\ phase = "apply" /\ First(m)
  /\ ~Skipped(m) /\ ~isUplink(m) /\ filterRemoteMACEntries(m) # {}
  /\ PortFor(m, p)
  /\ ports' = [ports EXCEPT ![p] =
                 [applyMemberPortObservation(@, m) EXCEPT
                    !.macs = filterRemoteMACEntries(m),
                    !.name = IF p = cfg.uplinkPort THEN ports[p].name ELSE m]]
  /\ access' = IF Pinned(m) THEN access ELSE access \ {p}
  /\ used' = used \cup {p}
  /\ queue' = queue \ {m}
  /\ UNCHANGED <<cfg, phase, uplink, fdb, found>>

\* Mutant: the interface is set whether or not one is shown already.
markObservedUplinkSource_always(shown) ==
  IF cfg.uplinkInterface = NoMember THEN shown
  ELSE [shown EXCEPT ![cfg.uplinkPort].interface = cfg.uplinkInterface]

markObservedUplinkSource(shown) ==
  IF cfg.uplinkInterface = NoMember \/ shown[cfg.uplinkPort].interface # NoMember THEN shown
  ELSE [shown EXCEPT ![cfg.uplinkPort].interface = cfg.uplinkInterface]

\* Mutant: ports without a member keep what the profile says.
unusedCleared_never == ports

\* When addresses were learned, ports without a member are cleared.
unusedCleared ==
  [p \in Port |-> IF Present # {} /\ p \notin used
                    THEN clearObservedPortState(ports[p]) ELSE ports[p]]

Finish ==
  /\ phase = "apply" /\ queue = {}
  /\ phase' = "done"
  /\ ports' = markObservedUplinkSource(unusedCleared)
  /\ UNCHANGED <<cfg, uplink, fdb, found, queue, access, used>>

Next ==
  \/ \E reading \in Reading : ReadUplink(reading)
  \/ \E learned \in Tables \cup {noAddresses} : ReadFDB(learned)
  \/ \E readings \in [Eligible -> Reading] : ReadMembers(readings)
  \/ \E m \in Member : SkipMember(m) \/ MapUplink(m) \/ \E p \in Port : MapMember(m, p)
  \/ Finish

Spec == Init /\ [][Next]_vars
----------------------------------------------------------------------------
(* Properties.                                                             *)

PortRecord ==
  [link : Member \cup {Profile, Down}, counters : Member \cup {NoMember},
   interface : Member \cup {NoMember}, name : Member \cup {Profile}, macs : SUBSET MAC]

TypeOK ==
  /\ cfg \in Config
  /\ phase \in {"idle", "fdb", "members", "apply", "done"}
  /\ uplink \in Reading
  /\ fdb \in [Member -> SUBSET MAC]
  /\ found \in [Member -> Reading]
  /\ ports \in [Port -> PortRecord]
  /\ queue \in SUBSET Member /\ access \in SUBSET Port /\ used \in SUBSET Port

\* An address learned on the uplink is never shown as a client of any port,
\* also when the bridge reports a duplicate row elsewhere, however the members
\* are ordered, pinned or ignored (RemoteMACsByBridgeMember).
RemoteIsNeverClaimed == \A p \in Port : ports[p].macs \cap remoteMACs = {}

\* Members that have local addresses to show.
Local == {m \in Eligible : ~isUplink(m) /\ filterRemoteMACEntries(m) # {}}

\* Every unpinned one can have an access port, and no pin is on the uplink port
\* or shared.
Fits ==
  /\ \A m, n \in Local : (Pinned(m) /\ cfg.pin[m] = cfg.pin[n]) => m = n
  /\ \A m \in Local : cfg.pin[m] # cfg.uplinkPort
  /\ Cardinality({m \in Local : ~Pinned(m)}) <=
       Cardinality(Port \ ({cfg.uplinkPort} \cup validPinnedPortSet))

\* When the members fit, every one with local addresses has a port to itself,
\* its pin if it has one, with its own state and all of its addresses; and the
\* uplink port shows nobody's addresses and no other member (applyDeviceMACs).
EveryMemberIsShown ==
  (phase = "done" /\ Fits) =>
    /\ \A m \in Local :
         \E p \in Port \ {cfg.uplinkPort} :
           /\ Pinned(m) => p = cfg.pin[m]
           /\ ports[p].interface = m /\ ports[p].name = m
           /\ ports[p].macs = filterRemoteMACEntries(m)
           /\ ports[p].link = (IF found[m] = "up" THEN m ELSE Down)
    /\ ports[cfg.uplinkPort].macs = {}
    /\ \A m \in Member :
         ports[cfg.uplinkPort].link = m => isUplink(m)

\* A pinned port is kept for its member: nobody else is ever shown there, also
\* while the member has no addresses (validPinnedPortSet).
PinsAreReserved ==
  \A p \in Port \ {cfg.uplinkPort} :
    (\E n \in Member : cfg.pin[n] = p) =>
      \A m \in Member : ports[p].interface = m => cfg.pin[m] = p

\* Carrier, speed and counters of a port are those of the interface it names,
\* from which the traffic rates are computed; no port mixes two interfaces,
\* also when several members end on the uplink port (markObservedUplinkSource).
OneInterfacePerPort ==
  phase = "done" =>
    \A p \in Port :
      /\ ports[p].counters \in {NoMember, ports[p].interface}
      /\ ports[p].link \in {Profile, Down, ports[p].interface}

\* Once the bridge has learned an address, no port shows a synthetic link.
NothingSyntheticOnceLearned ==
  (phase = "done" /\ Present # {}) => \A p \in Port : ports[p].link # Profile

\* docs/en/operation-modes.md: "Ports without a mapped bridge member are
\* reported as disconnected instead of inheriting synthetic profile link state."
UnmappedPortsAreDown ==
  phase = "done" => \A p \in Port : p \notin used => ports[p].link = Down
=============================================================================

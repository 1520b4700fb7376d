------------------------ MODULE BridgeObserveProofs ------------------------
(***************************************************************************)
(* Proofs about BridgeObserve.tla for any number of ports, members and     *)
(* addresses, every configuration and every order of the members.          *)
(***************************************************************************)
EXTENDS BridgeObserve, FiniteSetTheorems, TLAPS

\* Before the members are mapped the ports are the profile's.
Untouched == phase \in {"idle", "fdb", "members"} => \A p \in Port : ports[p] = profilePort

\* Free access ports are neither pinned nor the uplink port.
AccessIsFree ==
  \A p \in access : p # cfg.uplinkPort /\ \A m \in Member : cfg.pin[m] # p

\* A port that has no interface yet shows nobody, but for the uplink port, which
\* may already show the configured uplink.
OwnInterface ==
  \A p \in Port :
    IF ports[p].interface = NoMember
      THEN LET source == IF p = cfg.uplinkPort THEN cfg.uplinkInterface ELSE NoMember
           IN /\ ports[p].counters \in {NoMember, source}
              /\ ports[p].link \in {Profile, Down, source}
      ELSE /\ ports[p].counters \in {NoMember, ports[p].interface}
           /\ ports[p].link \in {Profile, Down, ports[p].interface}

\* A port with a member shows no synthetic link.
UsedIsObserved ==
  phase \in {"apply", "done"} =>
    cfg.uplinkPort \in used /\ \A p \in used : ports[p].link # Profile

\* Without a configured uplink there is nothing to read.
UplinkRead == cfg.uplinkInterface = NoMember => uplink = "silent"

BInv == /\ TypeOK /\ Untouched /\ AccessIsFree /\ OwnInterface /\ UsedIsObserved /\ UplinkRead
        /\ RemoteIsNeverClaimed /\ PinsAreReserved
        /\ OneInterfacePerPort /\ NothingSyntheticOnceLearned

\* The fields of a configuration.
LEMMA ConfigFields ==
  ASSUME cfg \in Config
  PROVE  /\ cfg.uplinkPort \in Port /\ cfg.uplinkInterface \in Member \cup {NoMember}
         /\ cfg.pin \in [Member -> Nat] /\ cfg.ignored \in SUBSET Member
  BY BridgeAssumption DEF ConfigType

\* A profile's port is a port, and shows nothing of the host.
LEMMA ProfilePort ==
  /\ profilePort \in PortRecord
  /\ profilePort.link = Profile /\ profilePort.counters = NoMember
  /\ profilePort.interface = NoMember /\ profilePort.macs = {}
  BY DEF profilePort, PortRecord

\* What a cleared port and a port with a member's observation show.
LEMMA Overlay ==
  ASSUME NEW port \in PortRecord, NEW m \in Member, found \in [Member -> Reading]
  PROVE  /\ clearObservedPortState(port) \in PortRecord
         /\ clearObservedPortState(port).link = Down
         /\ clearObservedPortState(port).counters = NoMember
         /\ clearObservedPortState(port).interface = port.interface
         /\ clearObservedPortState(port).macs = {}
         /\ applyMemberPortObservation(port, m) \in PortRecord
         /\ applyMemberPortObservation(port, m).link \in {Down, m}
         /\ applyMemberPortObservation(port, m).counters \in {NoMember, m}
         /\ applyMemberPortObservation(port, m).interface = m
         /\ applyMemberPortObservation(port, m).macs = {}
  BY DEF clearObservedPortState, applyMemberPortObservation, PortRecord

\* The invariant holds initially.
LEMMA InitBInv == Init => BInv
<1> SUFFICES ASSUME Init PROVE BInv
  OBVIOUS
<1>1. cfg \in Config /\ phase = "idle" /\ uplink = "silent" /\ fdb = noAddresses
      /\ found = [m \in Member |-> "silent"] /\ ports = [p \in Port |-> profilePort]
      /\ queue = {} /\ access = {} /\ used = {}
  BY DEF Init
<1>2. TypeOK
  BY <1>1, ProfilePort DEF TypeOK, Reading, noAddresses
<1>3. \A p \in Port : ports[p] = profilePort
  BY <1>1
<1>4. Untouched /\ AccessIsFree /\ OwnInterface /\ UsedIsObserved /\ UplinkRead
  BY <1>1, <1>3, ProfilePort DEF Untouched, AccessIsFree, OwnInterface, UsedIsObserved, UplinkRead
<1>5. RemoteIsNeverClaimed /\ OneInterfacePerPort /\ NothingSyntheticOnceLearned
  BY <1>1, <1>3, ProfilePort
     DEF RemoteIsNeverClaimed, OneInterfacePerPort, NothingSyntheticOnceLearned
<1>6. PinsAreReserved
  BY <1>3, ProfilePort, BridgeAssumption DEF PinsAreReserved
<1>7. QED
  BY <1>2, <1>4, <1>5, <1>6 DEF BInv

\* What was learned decides what is remote.
LEMMA SameTable ==
  ASSUME cfg' = cfg, fdb' = fdb
  PROVE  remoteMACs' = remoteMACs /\ Present' = Present
  BY DEF remoteMACs, Present, isUplink, memberRole, physicalCandidates, ClassifyMember

\* One port takes a member's observation, and addresses that are not remote.
LEMMA ObservedKeeps ==
  ASSUME BInv, phase = "apply", phase' = "apply",
         cfg' = cfg, fdb' = fdb, uplink' = uplink, found' = found,
         NEW m \in Member, NEW p \in Port, NEW name, NEW macs \in SUBSET MAC,
         name \in Member \cup {Profile}, macs \cap remoteMACs = {},
         ports' = [ports EXCEPT ![p] = [applyMemberPortObservation(ports[p], m) EXCEPT
                                          !.macs = macs, !.name = name]],
         queue' \in SUBSET Member, access' \in SUBSET access,
         used' = used \cup {p},
         p # cfg.uplinkPort => \A n \in Member : cfg.pin[n] = p => cfg.pin[m] = p
  PROVE  BInv'
<1>1. /\ TypeOK /\ AccessIsFree /\ OwnInterface /\ UsedIsObserved /\ UplinkRead
      /\ RemoteIsNeverClaimed /\ PinsAreReserved
  BY DEF BInv
<1>2. cfg.uplinkPort \in Port
  BY <1>1, ConfigFields DEF TypeOK
<1> DEFINE new == [applyMemberPortObservation(ports[p], m) EXCEPT !.macs = macs, !.name = name]
<1>3. ports[p] \in PortRecord /\ found \in [Member -> Reading] /\ ports \in [Port -> PortRecord]
  BY <1>1 DEF TypeOK
<1>4. applyMemberPortObservation(ports[p], m) \in PortRecord
      /\ applyMemberPortObservation(ports[p], m).link \in {Down, m}
      /\ applyMemberPortObservation(ports[p], m).counters \in {NoMember, m}
      /\ applyMemberPortObservation(ports[p], m).interface = m
  BY <1>3, Overlay
<1>5. /\ new \in PortRecord /\ new.link \in {Down, m} /\ new.counters \in {NoMember, m}
      /\ new.interface = m /\ new.macs = macs
  BY <1>4 DEF PortRecord
<1>6. ports' = [ports EXCEPT ![p] = new]
  OBVIOUS
<1> HIDE DEF new
<1>7. \A q \in Port : ports'[q] = IF q = p THEN new ELSE ports[q]
  BY <1>3, <1>6
<1>8. TypeOK'
  <2>1. ports' \in [Port -> PortRecord]
    BY <1>3, <1>5, <1>6
  <2>2. QED
    BY <1>1, <2>1 DEF TypeOK
<1>9. Untouched' /\ OneInterfacePerPort' /\ NothingSyntheticOnceLearned' /\ UplinkRead'
  BY <1>1 DEF Untouched, OneInterfacePerPort, NothingSyntheticOnceLearned, UplinkRead
<1>10. AccessIsFree'
  BY <1>1 DEF AccessIsFree
<1>11. OwnInterface'
  BY <1>1, <1>5, <1>7, BridgeAssumption DEF OwnInterface
<1>12. UsedIsObserved'
  <2>1. new.link # Profile
    BY <1>5, BridgeAssumption
  <2>2. used \in SUBSET Port
    BY <1>1 DEF TypeOK
  <2>3. QED
    BY <1>1, <1>7, <2>1, <2>2 DEF UsedIsObserved
<1>13. RemoteIsNeverClaimed'
  BY <1>1, <1>5, <1>7, SameTable DEF RemoteIsNeverClaimed
<1>14. PinsAreReserved'
  <2> SUFFICES ASSUME NEW q \in Port, q # cfg.uplinkPort, NEW n \in Member, cfg.pin[n] = q,
                      NEW k \in Member, ports'[q].interface = k
               PROVE  cfg.pin[k] = q
    BY DEF PinsAreReserved
  <2>1. CASE q = p
    BY <1>5, <1>7, <2>1
  <2>2. CASE q # p
    BY <1>1, <1>7, <2>2 DEF PinsAreReserved
  <2>3. QED BY <2>1, <2>2
<1>15. QED
  BY <1>8, <1>9, <1>10, <1>11, <1>12, <1>13, <1>14 DEF BInv

\* A new heartbeat starts from the profile's ports.
LEMMA ReadUplinkKeeps ==
  ASSUME BInv, NEW reading \in Reading, ReadUplink(reading)
  PROVE  BInv'
<1>1. cfg' = cfg /\ phase' = "fdb" /\ fdb' = noAddresses
      /\ found' = [m \in Member |-> "silent"] /\ ports' = [p \in Port |-> profilePort]
      /\ queue' = {} /\ access' = {} /\ used' = {}
      /\ uplink' = IF cfg.uplinkInterface = NoMember THEN "silent" ELSE reading
  BY DEF ReadUplink
<1>2. cfg \in Config
  BY DEF BInv, TypeOK
<1>3. TypeOK'
  BY <1>1, <1>2, ProfilePort DEF TypeOK, Reading, noAddresses
<1>4. \A p \in Port : ports'[p] = profilePort
  BY <1>1
<1>5. Untouched' /\ AccessIsFree' /\ OwnInterface' /\ UsedIsObserved' /\ UplinkRead'
  BY <1>1, <1>4, ProfilePort DEF Untouched, AccessIsFree, OwnInterface, UsedIsObserved, UplinkRead
<1>6. RemoteIsNeverClaimed' /\ OneInterfacePerPort' /\ NothingSyntheticOnceLearned'
  BY <1>1, <1>4, ProfilePort
     DEF RemoteIsNeverClaimed, OneInterfacePerPort, NothingSyntheticOnceLearned
<1>7. PinsAreReserved'
  BY <1>4, ProfilePort, BridgeAssumption DEF PinsAreReserved
<1>8. QED
  BY <1>3, <1>5, <1>6, <1>7 DEF BInv

\* Reading the table changes what is remote, but no port shows an address yet.
LEMMA ReadFDBKeeps ==
  ASSUME BInv, NEW learned \in Tables \cup {noAddresses}, ReadFDB(learned)
  PROVE  BInv'
<1>1. phase = "fdb" /\ phase' = "members" /\ fdb' = learned
      /\ UNCHANGED <<cfg, uplink, found, ports, queue, access, used>>
  BY DEF ReadFDB
<1>2. learned \in [Member -> SUBSET MAC]
  BY BridgeAssumption DEF noAddresses
<1>3. TypeOK'
  BY <1>1, <1>2 DEF BInv, TypeOK
<1>4. \A p \in Port : ports'[p] = profilePort
  BY <1>1 DEF BInv, Untouched
<1>5. Untouched' /\ AccessIsFree' /\ OwnInterface' /\ UsedIsObserved' /\ UplinkRead'
  BY <1>1, <1>4 DEF BInv, Untouched, AccessIsFree, OwnInterface, UsedIsObserved, UplinkRead
<1>6. RemoteIsNeverClaimed' /\ OneInterfacePerPort' /\ NothingSyntheticOnceLearned'
  BY <1>1, <1>4, ProfilePort
     DEF RemoteIsNeverClaimed, OneInterfacePerPort, NothingSyntheticOnceLearned
<1>7. PinsAreReserved'
  BY <1>4, ProfilePort, BridgeAssumption DEF PinsAreReserved
<1>8. QED
  BY <1>3, <1>5, <1>6, <1>7 DEF BInv

\* The uplink's own reading is shown on the uplink port, and every port that is
\* neither that nor pinned becomes a free access port.
LEMMA ReadMembersKeeps ==
  ASSUME BInv, NEW readings \in [Eligible -> Reading], ReadMembers(readings)
  PROVE  BInv'
<1> DEFINE up == cfg.uplinkPort
           newLink == IF uplink = "up" THEN cfg.uplinkInterface ELSE Down
           newCounters == IF uplink = "silent" THEN NoMember ELSE cfg.uplinkInterface
           new == [profilePort EXCEPT !.link = newLink, !.counters = newCounters]
<1>1. /\ phase = "members" /\ phase' = "apply"
      /\ found' = [m \in Member |-> IF m \in Eligible THEN readings[m] ELSE "silent"]
      /\ ports' = [ports EXCEPT ![up].link = newLink, ![up].counters = newCounters]
      /\ queue' = Present /\ access' = Port \ ({up} \cup validPinnedPortSet) /\ used' = {up}
      /\ cfg' = cfg /\ uplink' = uplink /\ fdb' = fdb
  BY DEF ReadMembers
<1>2. TypeOK /\ Untouched /\ UplinkRead
  BY DEF BInv
<1>3. /\ cfg \in Config /\ up \in Port /\ cfg.uplinkInterface \in Member \cup {NoMember}
      /\ cfg.pin \in [Member -> Nat] /\ ports \in [Port -> PortRecord]
  BY <1>2, ConfigFields DEF TypeOK
<1>4. \A p \in Port : ports[p] = profilePort
  BY <1>1, <1>2 DEF Untouched
<1>5. /\ newLink \in Member \cup {Down} /\ newLink \in {Down, cfg.uplinkInterface}
      /\ newCounters \in Member \cup {NoMember} /\ newCounters \in {NoMember, cfg.uplinkInterface}
  BY <1>2, <1>3 DEF UplinkRead
<1>6. ports' = [ports EXCEPT ![up] = new]
  BY <1>1, <1>3, <1>4
<1> HIDE DEF newLink, newCounters
<1>7. /\ new \in PortRecord /\ new.link = newLink /\ new.counters = newCounters
      /\ new.interface = NoMember /\ new.macs = {}
  BY <1>5 DEF profilePort, PortRecord
<1> HIDE DEF new
<1>8. \A q \in Port : ports'[q] = IF q = up THEN new ELSE profilePort
  BY <1>3, <1>4, <1>6
<1>9. TypeOK'
  <2>1. ports' \in [Port -> PortRecord]
    BY <1>3, <1>6, <1>7
  <2>2. found' \in [Member -> Reading]
    BY <1>1 DEF Reading
  <2>3. Present \in SUBSET Member
    BY DEF Present
  <2>4. access' \in SUBSET Port /\ used' \in SUBSET Port /\ queue' \in SUBSET Member
    BY <1>1, <1>3, <2>3
  <2>5. cfg' \in Config /\ uplink' \in Reading /\ fdb' \in [Member -> SUBSET MAC]
    BY <1>1, <1>2 DEF TypeOK
  <2>6. QED
    BY <1>1, <2>1, <2>2, <2>4, <2>5 DEF TypeOK
<1>10. Untouched' /\ OneInterfacePerPort' /\ NothingSyntheticOnceLearned' /\ UplinkRead'
  BY <1>1, <1>2 DEF Untouched, OneInterfacePerPort, NothingSyntheticOnceLearned, UplinkRead
<1>11. AccessIsFree'
  BY <1>1, <1>3 DEF AccessIsFree, validPinnedPortSet
<1>12. OwnInterface'
  BY <1>1, <1>5, <1>7, <1>8, ProfilePort DEF OwnInterface
<1>13. UsedIsObserved'
  BY <1>1, <1>3, <1>5, <1>7, <1>8, BridgeAssumption DEF UsedIsObserved
<1>14. RemoteIsNeverClaimed'
  BY <1>7, <1>8, ProfilePort DEF RemoteIsNeverClaimed
<1>15. PinsAreReserved'
  BY <1>7, <1>8, ProfilePort, BridgeAssumption DEF PinsAreReserved
<1>16. QED
  BY <1>9, <1>10, <1>11, <1>12, <1>13, <1>14, <1>15 DEF BInv

\* A skipped member leaves no trace.
LEMMA SkipMemberKeeps ==
  ASSUME BInv, NEW m \in Member, SkipMember(m)
  PROVE  BInv'
<1>1. queue' = queue \ {m} /\ UNCHANGED <<cfg, phase, uplink, fdb, found, ports, access, used>>
  BY DEF SkipMember
<1>2. remoteMACs' = remoteMACs /\ Present' = Present
  BY <1>1, SameTable
<1>3. TypeOK'
  BY <1>1 DEF BInv, TypeOK
<1>4. Untouched' /\ AccessIsFree' /\ OwnInterface' /\ UsedIsObserved' /\ UplinkRead'
  BY <1>1 DEF BInv, Untouched, AccessIsFree, OwnInterface, UsedIsObserved, UplinkRead
<1>5. RemoteIsNeverClaimed' /\ PinsAreReserved'
  BY <1>1, <1>2 DEF BInv, RemoteIsNeverClaimed, PinsAreReserved
<1>6. OneInterfacePerPort' /\ NothingSyntheticOnceLearned'
  BY <1>1, <1>2 DEF BInv, OneInterfacePerPort, NothingSyntheticOnceLearned
<1>7. QED
  BY <1>3, <1>4, <1>5, <1>6 DEF BInv

\* The uplink member takes the uplink port and shows no addresses.
LEMMA MapUplinkKeeps ==
  ASSUME BInv, NEW m \in Member, MapUplink(m)
  PROVE  BInv'
<1> DEFINE seen == applyMemberPortObservation(ports[cfg.uplinkPort], m)
<1>1. /\ phase = "apply" /\ phase' = phase
      /\ ports' = [ports EXCEPT ![cfg.uplinkPort] = [seen EXCEPT !.name = m]]
      /\ queue' = queue \ {m} /\ access' = access /\ used' = used
      /\ cfg' = cfg /\ uplink' = uplink /\ fdb' = fdb /\ found' = found
  BY DEF MapUplink
<1>2. TypeOK /\ UsedIsObserved
  BY DEF BInv
<1>3. cfg.uplinkPort \in Port
  BY <1>2, ConfigFields DEF TypeOK
<1>4. seen \in PortRecord /\ seen.macs = {}
  BY <1>2, <1>3, Overlay DEF TypeOK
<1> HIDE DEF seen
<1>5. [seen EXCEPT !.name = m] = [seen EXCEPT !.macs = {}, !.name = m]
  BY <1>4 DEF PortRecord
<1>6. ports' = [ports EXCEPT ![cfg.uplinkPort] = [seen EXCEPT !.macs = {}, !.name = m]]
  BY <1>1, <1>5
<1>7. used' = used \cup {cfg.uplinkPort}
  BY <1>1, <1>2 DEF UsedIsObserved
<1>8. queue' \in SUBSET Member
  BY <1>1, <1>2 DEF TypeOK
<1>9. {} \in SUBSET MAC /\ {} \cap remoteMACs = {} /\ m \in Member \cup {Profile}
      /\ access' \in SUBSET access /\ phase' = "apply"
  BY <1>1
<1>10. QED
  BY <1>1, <1>3, <1>6, <1>7, <1>8, <1>9, ObservedKeeps DEF seen

\* Any other member takes its pin, a free access port or the uplink port.
LEMMA MapMemberKeeps ==
  ASSUME BInv, NEW m \in Member, NEW p \in Port, MapMember(m, p)
  PROVE  BInv'
<1> DEFINE macs == filterRemoteMACEntries(m)
           name == IF p = cfg.uplinkPort THEN ports[p].name ELSE m
<1>1. /\ phase = "apply" /\ phase' = phase /\ PortFor(m, p)
      /\ ports' = [ports EXCEPT ![p] = [applyMemberPortObservation(ports[p], m) EXCEPT
                     !.macs = filterRemoteMACEntries(m),
                     !.name = IF p = cfg.uplinkPort THEN ports[p].name ELSE m]]
      /\ access' = IF Pinned(m) THEN access ELSE access \ {p}
      /\ used' = used \cup {p} /\ queue' = queue \ {m}
      /\ cfg' = cfg /\ uplink' = uplink /\ fdb' = fdb /\ found' = found
  BY DEF MapMember
<1>2. TypeOK /\ AccessIsFree
  BY DEF BInv
<1>3. ports[p] \in PortRecord
  BY <1>2 DEF TypeOK
<1>4. name \in Member \cup {Profile}
  BY <1>3 DEF PortRecord
<1>5. macs \in SUBSET MAC /\ macs \cap remoteMACs = {}
  BY <1>2 DEF TypeOK, filterRemoteMACEntries
<1>6. ports' = [ports EXCEPT ![p] = [applyMemberPortObservation(ports[p], m) EXCEPT
                  !.macs = macs, !.name = name]]
  BY <1>1
<1>7. p # cfg.uplinkPort => \A n \in Member : cfg.pin[n] = p => cfg.pin[m] = p
  BY <1>1, <1>2 DEF PortFor, AccessIsFree
<1>8. access' \in SUBSET access /\ queue' \in SUBSET Member
  BY <1>1, <1>2 DEF TypeOK
<1> HIDE DEF macs, name
<1>9. QED
  BY <1>1, <1>4, <1>5, <1>6, <1>7, <1>8, ObservedKeeps

\* The last pass clears what has no member and names the uplink's interface.
LEMMA FinishKeeps ==
  ASSUME BInv, Finish
  PROVE  BInv'
<1> DEFINE up == cfg.uplinkPort
           cleared(p) == clearObservedPortState(ports[p])
           base(p) == IF Present # {} /\ p \notin used THEN cleared(p) ELSE ports[p]
<1>1. /\ phase = "apply" /\ phase' = "done" /\ ports' = markObservedUplinkSource(unusedCleared)
      /\ cfg' = cfg /\ uplink' = uplink /\ fdb' = fdb /\ found' = found
      /\ queue' = queue /\ access' = access /\ used' = used
  BY DEF Finish
<1>2. /\ TypeOK /\ AccessIsFree /\ OwnInterface /\ UsedIsObserved /\ UplinkRead
      /\ RemoteIsNeverClaimed /\ PinsAreReserved
  BY DEF BInv
<1>3. /\ up \in Port /\ cfg.uplinkInterface \in Member \cup {NoMember}
      /\ ports \in [Port -> PortRecord] /\ found \in [Member -> Reading] /\ up \in used
  BY <1>1, <1>2, ConfigFields DEF TypeOK, UsedIsObserved
<1>4. \A p \in Port :
        /\ cleared(p) \in PortRecord /\ cleared(p).link = Down /\ cleared(p).counters = NoMember
        /\ cleared(p).interface = ports[p].interface /\ cleared(p).macs = {}
  <2>1. Bridge \in Member
    BY BridgeAssumption
  <2>2. QED
    BY <1>3, <2>1, Overlay
<1>5. unusedCleared = [p \in Port |-> base(p)]
  BY DEF unusedCleared
<1> HIDE DEF cleared
<1>6. \A p \in Port :
        /\ base(p) \in PortRecord /\ base(p).interface = ports[p].interface
        /\ base(p).macs \in {{}, ports[p].macs}
        /\ base(p).link \in {Down, ports[p].link}
        /\ base(p).counters \in {NoMember, ports[p].counters}
        /\ (Present # {} => base(p).link # Profile)
  <2>1. \A p \in Port : ports[p] \in PortRecord
    BY <1>3
  <2>2. \A p \in used : ports[p].link # Profile
    BY <1>1, <1>2 DEF UsedIsObserved
  <2>3. QED
    BY <1>4, <2>1, <2>2, BridgeAssumption
<1>7. base(up) = ports[up]
  BY <1>3
<1> HIDE DEF base
<1> DEFINE named == cfg.uplinkInterface # NoMember /\ ports[up].interface = NoMember
           last == [base(up) EXCEPT !.interface = cfg.uplinkInterface]
<1>8. ports' = IF named THEN [unusedCleared EXCEPT ![up] = last] ELSE unusedCleared
  BY <1>1, <1>3, <1>5, <1>6 DEF markObservedUplinkSource
<1>9. named => /\ last \in PortRecord /\ last.interface = cfg.uplinkInterface
               /\ last.macs = base(up).macs /\ last.link = base(up).link
               /\ last.counters = base(up).counters
  BY <1>3, <1>6 DEF PortRecord
<1> HIDE DEF last
<1>10. \A p \in Port : ports'[p] = IF named /\ p = up THEN last ELSE base(p)
  BY <1>3, <1>5, <1>8
<1>11. TypeOK'
  <2>1. ports' \in [Port -> PortRecord]
    BY <1>3, <1>5, <1>6, <1>8, <1>9
  <2>2. QED
    BY <1>1, <1>2, <2>1 DEF TypeOK
<1>12. Untouched' /\ AccessIsFree' /\ UplinkRead'
  BY <1>1, <1>2 DEF Untouched, AccessIsFree, UplinkRead
<1>13. \A p \in Port :
         /\ ports'[p].macs \in {{}, ports[p].macs}
         /\ ports'[p].link \in {Down, ports[p].link}
         /\ ports'[p].counters \in {NoMember, ports[p].counters}
         /\ ports'[p].interface = IF named /\ p = up THEN cfg.uplinkInterface ELSE ports[p].interface
         /\ (Present # {} => ports'[p].link # Profile)
  BY <1>6, <1>9, <1>10
<1>14. \A p \in Port :
         /\ ports'[p].counters \in {NoMember, ports'[p].interface}
         /\ ports'[p].link \in {Profile, Down, ports'[p].interface}
  BY <1>2, <1>13 DEF OwnInterface
<1>15. OneInterfacePerPort' /\ OwnInterface'
  BY <1>1, <1>3, <1>13, <1>14 DEF OneInterfacePerPort, OwnInterface
<1>16. NothingSyntheticOnceLearned'
  BY <1>1, <1>13, SameTable DEF NothingSyntheticOnceLearned
<1>17. UsedIsObserved'
  <2>1. used \in SUBSET Port
    BY <1>2 DEF TypeOK
  <2>2. QED
    BY <1>1, <1>2, <1>13, <2>1, BridgeAssumption DEF UsedIsObserved
<1>18. RemoteIsNeverClaimed'
  BY <1>1, <1>2, <1>13, SameTable DEF RemoteIsNeverClaimed
<1>19. PinsAreReserved'
  BY <1>1, <1>2, <1>13 DEF PinsAreReserved
<1>20. QED
  BY <1>11, <1>12, <1>15, <1>16, <1>17, <1>18, <1>19 DEF BInv

\* Every step keeps the invariant.
LEMMA NextBInv == BInv /\ [Next]_vars => BInv'
<1> SUFFICES ASSUME BInv, [Next]_vars PROVE BInv'
  OBVIOUS
<1>1. ASSUME NEW reading \in Reading, ReadUplink(reading) PROVE BInv'
  BY <1>1, ReadUplinkKeeps
<1>2. ASSUME NEW learned \in Tables \cup {noAddresses}, ReadFDB(learned) PROVE BInv'
  BY <1>2, ReadFDBKeeps
<1>3. ASSUME NEW readings \in [Eligible -> Reading], ReadMembers(readings) PROVE BInv'
  BY <1>3, ReadMembersKeeps
<1>4. ASSUME NEW m \in Member, SkipMember(m) PROVE BInv'
  BY <1>4, SkipMemberKeeps
<1>5. ASSUME NEW m \in Member, MapUplink(m) PROVE BInv'
  BY <1>5, MapUplinkKeeps
<1>6. ASSUME NEW m \in Member, NEW p \in Port, MapMember(m, p) PROVE BInv'
  BY <1>6, MapMemberKeeps
<1>7. CASE Finish
  BY <1>7, FinishKeeps
<1>8. CASE UNCHANGED vars
  <2>1. UNCHANGED <<cfg, phase, uplink, fdb, found, ports, queue, access, used>>
    BY <1>8 DEF vars
  <2>2. remoteMACs' = remoteMACs /\ Present' = Present
    BY <2>1, SameTable
  <2>3. TypeOK'
    BY <2>1 DEF BInv, TypeOK
  <2>4. Untouched' /\ AccessIsFree' /\ OwnInterface' /\ UsedIsObserved' /\ UplinkRead'
    BY <2>1 DEF BInv, Untouched, AccessIsFree, OwnInterface, UsedIsObserved, UplinkRead
  <2>5. RemoteIsNeverClaimed' /\ PinsAreReserved' /\ OneInterfacePerPort'
        /\ NothingSyntheticOnceLearned'
    BY <2>1, <2>2 DEF BInv, RemoteIsNeverClaimed, PinsAreReserved, OneInterfacePerPort,
                      NothingSyntheticOnceLearned
  <2>6. QED
    BY <2>3, <2>4, <2>5 DEF BInv
<1>9. QED
  BY <1>1, <1>2, <1>3, <1>4, <1>5, <1>6, <1>7, <1>8 DEF Next

\* BInv is an invariant of the heartbeat's observation.
THEOREM BridgeInvariance == Spec => []BInv
  BY InitBInv, NextBInv, PTL DEF Spec

\* For any number of ports and members, however they are ordered, pinned or
\* ignored: an address behind the uplink is never shown as a client of a port
\* (RemoteMACsByBridgeMember, filterRemoteMACEntries).
THEOREM RemoteStaysUnclaimed == Spec => []RemoteIsNeverClaimed
<1>1. BInv => RemoteIsNeverClaimed
  BY DEF BInv
<1>2. QED
  BY <1>1, BridgeInvariance, PTL

\* A pinned port never shows a member that is not pinned to it
\* (validPinnedPortSet).
THEOREM PinsStayReserved == Spec => []PinsAreReserved
<1>1. BInv => PinsAreReserved
  BY DEF BInv
<1>2. QED
  BY <1>1, BridgeInvariance, PTL

\* At the end of a heartbeat carrier, speed and counters of a port are those of
\* the one interface it names, also with more members than ports
\* (applyMemberPortObservation, markObservedUplinkSource).
THEOREM PortsAreOfOneInterface == Spec => []OneInterfacePerPort
<1>1. BInv => OneInterfacePerPort
  BY DEF BInv
<1>2. QED
  BY <1>1, BridgeInvariance, PTL

\* Once the bridge has learned an address no port shows the profile's synthetic
\* link (applyDeviceMACs).
THEOREM NoSyntheticLinks == Spec => []NothingSyntheticOnceLearned
<1>1. BInv => NothingSyntheticOnceLearned
  BY DEF BInv
<1>2. QED
  BY <1>1, BridgeInvariance, PTL

(***************************************************************************)
(* Every member that fits is shown.                                        *)
(***************************************************************************)

\* Port p shows member m, and nobody will take it away.
ShownAt(m, p) ==
  /\ p # cfg.uplinkPort /\ p \in used /\ p \notin access
  /\ Pinned(m) => p = cfg.pin[m]
  /\ ~Pinned(m) => p \notin validPinnedPortSet
  /\ ports[p].interface = m /\ ports[p].name = m
  /\ ports[p].macs = filterRemoteMACEntries(m)
  /\ ports[p].link = (IF found[m] = "up" THEN m ELSE Down)

\* Members that still need an access port.
Waiting == {m \in Local : m \in queue /\ ~Pinned(m)}

\* The uplink port shows the uplink only.
UplinkAlone ==
  /\ ports[cfg.uplinkPort].macs = {}
  /\ \A m \in Member : ports[cfg.uplinkPort].link = m => isUplink(m)

\* While members that fit are mapped, there are ports enough for those that
\* wait, and all others are shown.
MappedSoFar ==
  (phase = "apply" /\ Fits) =>
    /\ Cardinality(Waiting) <= Cardinality(access)
    /\ \A m \in Local : m \in queue \/ \E p \in Port : ShownAt(m, p)
    /\ UplinkAlone

EInv == MappedSoFar /\ EveryMemberIsShown

\* The configuration and the forwarding table decide who is who.
LEMMA SameMembers ==
  ASSUME cfg' = cfg, fdb' = fdb
  PROVE  /\ Local' = Local /\ Eligible' = Eligible /\ Fits' = Fits
         /\ validPinnedPortSet' = validPinnedPortSet
         /\ \A m : /\ isUplink(m)' = isUplink(m) /\ Pinned(m)' = Pinned(m)
                   /\ filterRemoteMACEntries(m)' = filterRemoteMACEntries(m)
                   /\ Skipped(m)' = Skipped(m)
<1>1. Present' = Present /\ remoteMACs' = remoteMACs
  BY SameTable
<1>2. \A m : ClassifyMember(m)' = ClassifyMember(m)
  BY DEF ClassifyMember
<1>3. physicalCandidates' = physicalCandidates
  BY <1>1, <1>2 DEF physicalCandidates
<1>4. \A m : memberRole(m)' = memberRole(m)
  BY <1>2, <1>3 DEF memberRole
<1>5. \A m : /\ isUplink(m)' = isUplink(m) /\ Pinned(m)' = Pinned(m)
             /\ filterRemoteMACEntries(m)' = filterRemoteMACEntries(m)
             /\ Skipped(m)' = Skipped(m)
  BY <1>1, <1>4 DEF isUplink, Pinned, filterRemoteMACEntries, Skipped
<1>6. validPinnedPortSet' = validPinnedPortSet
  BY DEF validPinnedPortSet
<1>7. Eligible' = Eligible
  BY <1>1, <1>5 DEF Eligible
<1>8. Local' = Local
  BY <1>5, <1>7 DEF Local
<1>9. Fits' = Fits
  BY <1>5, <1>6, <1>8 DEF Fits
<1>10. QED BY <1>5, <1>6, <1>7, <1>8, <1>9

\* Members and ports are finite.
LEMMA Finite ==
  ASSUME TypeOK
  PROVE  /\ IsFiniteSet(Waiting) /\ IsFiniteSet(access)
         /\ Cardinality(Waiting) \in Nat /\ Cardinality(access) \in Nat
<1>1. Waiting \in SUBSET Member
  BY DEF Waiting, Local, Eligible, Present
<1>2. IsFiniteSet(Waiting)
  BY <1>1, FS_Subset, BridgeAssumption
<1>3. IsFiniteSet(Port)
  BY FS_Interval, BridgeAssumption DEF Port
<1>4. IsFiniteSet(access)
  BY <1>3, FS_Subset DEF TypeOK
<1>5. QED BY <1>2, <1>4, FS_CardinalityType

\* When the mapping starts everybody waits, and fits.
LEMMA ReadMembersShows ==
  ASSUME BInv, EInv, NEW readings, ReadMembers(readings)
  PROVE  EInv'
<1>1. /\ phase = "members" /\ phase' = "apply" /\ cfg' = cfg /\ fdb' = fdb
      /\ queue' = Present /\ access' = Port \ ({cfg.uplinkPort} \cup validPinnedPortSet)
      /\ ports' = [ports EXCEPT ![cfg.uplinkPort].link =
                                  IF uplink = "up" THEN cfg.uplinkInterface ELSE Down,
                                ![cfg.uplinkPort].counters =
                                  IF uplink = "silent" THEN NoMember ELSE cfg.uplinkInterface]
  BY DEF ReadMembers
<1>2. /\ TypeOK /\ cfg.uplinkPort \in Port /\ ports \in [Port -> PortRecord]
      /\ \A p \in Port : ports[p] = profilePort
  BY <1>1, ConfigFields DEF BInv, TypeOK, Untouched
<1>3. /\ Local' = Local /\ Fits' = Fits
      /\ \A m : isUplink(m)' = isUplink(m) /\ Pinned(m)' = Pinned(m)
  BY <1>1, SameMembers
<1>4. Local \subseteq Present
  BY DEF Local, Eligible
<1>5. Waiting' = {m \in Local : ~Pinned(m)}
  BY <1>1, <1>3, <1>4 DEF Waiting
<1>6. Fits' => Cardinality(Waiting') <= Cardinality(access')
  BY <1>1, <1>3, <1>5 DEF Fits
<1>7. UplinkAlone'
  <2>1. /\ ports'[cfg.uplinkPort].macs = {}
        /\ ports'[cfg.uplinkPort].link = IF uplink = "up" THEN cfg.uplinkInterface ELSE Down
    BY <1>1, <1>2, ProfilePort DEF PortRecord
  <2>2. \A m : m = cfg.uplinkInterface => isUplink(m)
    BY DEF isUplink
  <2>3. \A m \in Member : m # Down
    BY BridgeAssumption
  <2>4. QED BY <1>1, <1>3, <2>1, <2>2, <2>3 DEF UplinkAlone
<1>8. QED
  BY <1>1, <1>3, <1>4, <1>6, <1>7 DEF EInv, MappedSoFar, EveryMemberIsShown

\* A member that has nothing local to show leaves the others alone.
LEMMA NotLocalShows ==
  ASSUME BInv, EInv, phase = "apply", phase' = "apply", NEW m \in Member, m \notin Local,
         cfg' = cfg, fdb' = fdb, found' = found, access' = access, used' = used,
         queue' = queue \ {m},
         \A p \in Port : p # cfg.uplinkPort => ports'[p] = ports[p],
         UplinkAlone => UplinkAlone'
  PROVE  EInv'
<1>1. /\ Local' = Local /\ Fits' = Fits /\ validPinnedPortSet' = validPinnedPortSet
      /\ \A n : /\ Pinned(n)' = Pinned(n)
                /\ filterRemoteMACEntries(n)' = filterRemoteMACEntries(n)
  BY SameMembers
<1>2. Waiting' = Waiting
  BY <1>1 DEF Waiting
<1>3. ASSUME NEW n \in Local, NEW p \in Port, ShownAt(n, p) PROVE ShownAt(n, p)'
  BY <1>1, <1>3 DEF ShownAt
<1>4. MappedSoFar'
  BY <1>1, <1>2, <1>3 DEF EInv, MappedSoFar
<1>5. QED BY <1>4 DEF EInv, EveryMemberIsShown

\* A local member takes a port that nobody else shows.
LEMMA MapMemberShows ==
  ASSUME BInv, EInv, NEW m \in Member, NEW p \in Port, MapMember(m, p)
  PROVE  EInv'
<1>1. /\ phase = "apply" /\ phase' = "apply" /\ PortFor(m, p) /\ m \in queue
      /\ ~Skipped(m) /\ ~isUplink(m) /\ filterRemoteMACEntries(m) # {}
      /\ ports' = [ports EXCEPT ![p] = [applyMemberPortObservation(ports[p], m) EXCEPT
                     !.macs = filterRemoteMACEntries(m),
                     !.name = IF p = cfg.uplinkPort THEN ports[p].name ELSE m]]
      /\ access' = IF Pinned(m) THEN access ELSE access \ {p}
      /\ used' = used \cup {p} /\ queue' = queue \ {m}
      /\ cfg' = cfg /\ fdb' = fdb /\ found' = found
  BY DEF MapMember, First
<1>2. /\ Local' = Local /\ Fits' = Fits /\ validPinnedPortSet' = validPinnedPortSet
      /\ \A n : /\ Pinned(n)' = Pinned(n) /\ isUplink(n)' = isUplink(n)
                /\ filterRemoteMACEntries(n)' = filterRemoteMACEntries(n)
  BY <1>1, SameMembers
<1>3. /\ TypeOK /\ AccessIsFree /\ ports \in [Port -> PortRecord] /\ cfg.uplinkPort \in Port
      /\ access \in SUBSET Port /\ cfg.pin \in [Member -> Nat]
  BY ConfigFields DEF BInv, TypeOK
<1>4. EveryMemberIsShown'
  BY <1>1 DEF EveryMemberIsShown
<1>5. SUFFICES ASSUME Fits
               PROVE  /\ Cardinality(Waiting') <= Cardinality(access')
                      /\ \A n \in Local : n \in queue' \/ \E q \in Port : ShownAt(n, q)'
                      /\ UplinkAlone'
  BY <1>2, <1>4 DEF EInv, MappedSoFar
<1>6. /\ Cardinality(Waiting) <= Cardinality(access)
      /\ \A n \in Local : n \in queue \/ \E q \in Port : ShownAt(n, q)
      /\ UplinkAlone
  BY <1>1, <1>5 DEF EInv, MappedSoFar
<1>7. m \in Local
  <2>1. m \in Present
    BY <1>1 DEF filterRemoteMACEntries, Present
  <2>2. QED BY <1>1, <2>1 DEF Local, Eligible
<1>8. ~Pinned(m) => m \in Waiting /\ access # {} /\ p \in access
  <2>1. SUFFICES ASSUME ~Pinned(m) PROVE m \in Waiting /\ access # {} /\ p \in access
    OBVIOUS
  <2>2. m \in Waiting
    BY <1>1, <1>7, <2>1 DEF Waiting
  <2>3. Cardinality(Waiting) # 0
    BY <1>3, <2>2, Finite, FS_EmptySet
  <2>4. access # {}
    BY <1>3, <1>6, <2>3, Finite, FS_EmptySet
  <2>5. QED BY <1>1, <2>1, <2>2, <2>4 DEF PortFor
<1>9. Pinned(m) => p = cfg.pin[m] /\ p \in validPinnedPortSet /\ p \notin access
  BY <1>1, <1>3 DEF PortFor, Pinned, validPinnedPortSet, AccessIsFree
<1>10. ~Pinned(m) => p \notin validPinnedPortSet
  BY <1>3, <1>8 DEF AccessIsFree, validPinnedPortSet
<1>11. p # cfg.uplinkPort
  BY <1>3, <1>5, <1>7, <1>8, <1>9 DEF Fits, AccessIsFree
<1>12. Cardinality(Waiting') <= Cardinality(access')
  <2>1. CASE Pinned(m)
    <3>1. Waiting' = Waiting
      BY <1>1, <1>2, <2>1 DEF Waiting
    <3>2. QED BY <1>1, <1>6, <2>1, <3>1
  <2>2. CASE ~Pinned(m)
    <3>1. Waiting' = Waiting \ {m} /\ access' = access \ {p}
      BY <1>1, <1>2, <2>2 DEF Waiting
    <3>2. /\ Cardinality(Waiting') = Cardinality(Waiting) - 1
          /\ Cardinality(access') = Cardinality(access) - 1
      BY <1>3, <1>8, <2>2, <3>1, Finite, FS_RemoveElement
    <3>3. Cardinality(Waiting) \in Nat /\ Cardinality(access) \in Nat
      BY <1>3, Finite
    <3>4. QED BY <1>6, <3>2, <3>3
  <2>3. QED BY <2>1, <2>2
<1> DEFINE new == [applyMemberPortObservation(ports[p], m) EXCEPT
                     !.macs = filterRemoteMACEntries(m), !.name = m]
<1>13. ports' = [ports EXCEPT ![p] = new]
  BY <1>1, <1>11
<1>14. /\ new.interface = m /\ new.name = m /\ new.macs = filterRemoteMACEntries(m)
       /\ new.link = IF found[m] = "up" THEN m ELSE Down
  <2>1. ports[p] \in PortRecord
    BY <1>3
  <2>2. QED BY <2>1 DEF applyMemberPortObservation, clearObservedPortState, PortRecord
<1> HIDE DEF new
<1>15. \A q \in Port : ports'[q] = IF q = p THEN new ELSE ports[q]
  BY <1>3, <1>13
<1>16. UplinkAlone'
  BY <1>1, <1>2, <1>3, <1>6, <1>11, <1>15 DEF UplinkAlone
<1>17. ShownAt(m, p)'
  <2>1. p # cfg'.uplinkPort /\ p \in used' /\ p \notin access'
    BY <1>1, <1>8, <1>9, <1>11
  <2>2. (Pinned(m)' => p = cfg'.pin[m]) /\ (~Pinned(m)' => p \notin validPinnedPortSet')
    BY <1>1, <1>2, <1>9, <1>10
  <2>3. /\ ports'[p].interface = m /\ ports'[p].name = m
        /\ ports'[p].macs = filterRemoteMACEntries(m)'
        /\ ports'[p].link = (IF found'[m] = "up" THEN m ELSE Down)
    BY <1>1, <1>2, <1>14, <1>15
  <2>4. QED BY <2>1, <2>2, <2>3 DEF ShownAt
<1>18. ASSUME NEW n \in Local, n # m, NEW q \in Port, ShownAt(n, q)
       PROVE  ShownAt(n, q)'
  <2>1. q # p
    <3>1. CASE Pinned(m)
      <4>1. Pinned(n) => cfg.pin[n] # cfg.pin[m]
        BY <1>5, <1>7, <1>18 DEF Fits
      <4>2. QED BY <1>9, <1>18, <3>1, <4>1 DEF ShownAt
    <3>2. CASE ~Pinned(m)
      BY <1>8, <1>18, <3>2 DEF ShownAt
    <3>3. QED BY <3>1, <3>2
  <2>2. ports'[q] = ports[q]
    BY <1>15, <2>1
  <2>3. q \in used' /\ q \notin access'
    BY <1>1, <1>18 DEF ShownAt
  <2>4. QED BY <1>1, <1>2, <1>18, <2>2, <2>3 DEF ShownAt
<1>19. \A n \in Local : n \in queue' \/ \E q \in Port : ShownAt(n, q)'
  BY <1>1, <1>6, <1>17, <1>18
<1>20. QED BY <1>12, <1>16, <1>19

\* The last pass leaves the ports of members alone.
LEMMA FinishShows ==
  ASSUME BInv, EInv, Finish
  PROVE  EInv'
<1> DEFINE up == cfg.uplinkPort
<1>1. /\ phase = "apply" /\ phase' = "done" /\ ports' = markObservedUplinkSource(unusedCleared)
      /\ cfg' = cfg /\ fdb' = fdb /\ found' = found /\ queue = {}
  BY DEF Finish
<1>2. /\ Local' = Local /\ Fits' = Fits
      /\ \A n : /\ Pinned(n)' = Pinned(n) /\ isUplink(n)' = isUplink(n)
                /\ filterRemoteMACEntries(n)' = filterRemoteMACEntries(n)
  BY <1>1, SameMembers
<1>3. up \in Port /\ ports \in [Port -> PortRecord] /\ up \in used
  BY <1>1, ConfigFields DEF BInv, TypeOK, UsedIsObserved
<1>4. \A p \in Port : p \in used => unusedCleared[p] = ports[p]
  BY DEF unusedCleared
<1>5. unusedCleared[up] = ports[up] /\ ports[up] \in PortRecord /\ DOMAIN unusedCleared = Port
  BY <1>3, <1>4 DEF unusedCleared
<1>6. /\ \A p \in Port : p # up => ports'[p] = unusedCleared[p]
      /\ ports'[up].macs = ports[up].macs /\ ports'[up].link = ports[up].link
  <2>1. CASE ports' = unusedCleared
    BY <1>5, <2>1
  <2>2. CASE ports' = [unusedCleared EXCEPT ![up].interface = cfg.uplinkInterface]
    BY <1>3, <1>5, <2>2 DEF PortRecord
  <2>3. QED BY <1>1, <2>1, <2>2 DEF markObservedUplinkSource
<1>7. MappedSoFar'
  BY <1>1 DEF MappedSoFar
<1>8. EveryMemberIsShown'
  <2>1. SUFFICES ASSUME Fits
                 PROVE  /\ \A m \in Local :
                             \E p \in Port \ {up} :
                               /\ Pinned(m) => p = cfg.pin[m]
                               /\ ports'[p].interface = m /\ ports'[p].name = m
                               /\ ports'[p].macs = filterRemoteMACEntries(m)
                               /\ ports'[p].link = (IF found[m] = "up" THEN m ELSE Down)
                        /\ ports'[up].macs = {}
                        /\ \A m \in Member : ports'[up].link = m => isUplink(m)
    BY <1>1, <1>2 DEF EveryMemberIsShown
  <2>2. UplinkAlone /\ \A m \in Local : \E p \in Port : ShownAt(m, p)
    BY <1>1, <2>1 DEF EInv, MappedSoFar
  <2>3. ASSUME NEW m \in Local, NEW p \in Port, ShownAt(m, p)
        PROVE  p # up /\ ports'[p] = ports[p]
    BY <1>4, <1>6, <2>3 DEF ShownAt
  <2>4. QED BY <1>6, <2>2, <2>3 DEF UplinkAlone, ShownAt
<1>9. QED BY <1>7, <1>8 DEF EInv

\* Every step keeps it.
LEMMA NextEInv == BInv /\ EInv /\ [Next]_vars => EInv'
<1> SUFFICES ASSUME BInv, EInv, [Next]_vars PROVE EInv'
  OBVIOUS
<1>1. CASE phase' \notin {"apply", "done"}
  BY <1>1 DEF EInv, MappedSoFar, EveryMemberIsShown
<1>2. ASSUME NEW reading \in Reading, ReadUplink(reading) PROVE EInv'
  BY <1>1, <1>2 DEF ReadUplink
<1>3. ASSUME NEW learned \in Tables \cup {noAddresses}, ReadFDB(learned) PROVE EInv'
  BY <1>1, <1>3 DEF ReadFDB
<1>4. ASSUME NEW readings \in [Eligible -> Reading], ReadMembers(readings) PROVE EInv'
  BY <1>4, ReadMembersShows
<1>5. ASSUME NEW m \in Member, SkipMember(m) PROVE EInv'
  <2>1. m \notin Local
    BY <1>5 DEF SkipMember, Local, Eligible
  <2>2. /\ phase = "apply" /\ phase' = "apply" /\ queue' = queue \ {m}
        /\ UNCHANGED <<cfg, fdb, found, ports, access, used>>
    BY <1>5 DEF SkipMember
  <2>3. UplinkAlone => UplinkAlone'
    BY <2>2, SameMembers DEF UplinkAlone
  <2>4. QED BY <2>1, <2>2, <2>3, NotLocalShows
<1>6. ASSUME NEW m \in Member, MapUplink(m) PROVE EInv'
  <2>1. /\ m \notin Local /\ isUplink(m)
    BY <1>6 DEF MapUplink, Local
  <2>2. /\ phase = "apply" /\ phase' = "apply" /\ queue' = queue \ {m}
        /\ UNCHANGED <<cfg, fdb, found, access, used>>
        /\ ports' = [ports EXCEPT ![cfg.uplinkPort] =
                       [applyMemberPortObservation(ports[cfg.uplinkPort], m) EXCEPT !.name = m]]
    BY <1>6 DEF MapUplink
  <2>3. cfg.uplinkPort \in Port /\ ports \in [Port -> PortRecord] /\ found \in [Member -> Reading]
    BY ConfigFields DEF BInv, TypeOK
  <2>4. \A p \in Port : p # cfg.uplinkPort => ports'[p] = ports[p]
    BY <2>2, <2>3
  <2>5. /\ ports'[cfg.uplinkPort].macs = {} /\ ports'[cfg.uplinkPort].link \in {Down, m}
    <3>1. ports[cfg.uplinkPort] \in PortRecord
      BY <2>3
    <3>2. /\ applyMemberPortObservation(ports[cfg.uplinkPort], m) \in PortRecord
          /\ applyMemberPortObservation(ports[cfg.uplinkPort], m).macs = {}
          /\ applyMemberPortObservation(ports[cfg.uplinkPort], m).link \in {Down, m}
      BY <2>3, <3>1, Overlay
    <3>3. QED BY <2>2, <2>3, <3>2 DEF PortRecord
  <2>6. UplinkAlone'
    BY <2>1, <2>2, <2>5, SameMembers, BridgeAssumption DEF UplinkAlone
  <2>7. QED BY <2>1, <2>2, <2>4, <2>6, NotLocalShows
<1>7. ASSUME NEW m \in Member, NEW p \in Port, MapMember(m, p) PROVE EInv'
  BY <1>7, MapMemberShows
<1>8. CASE Finish
  BY <1>8, FinishShows
<1>9. CASE UNCHANGED vars
  <2>1. UNCHANGED <<cfg, phase, uplink, fdb, found, ports, queue, access, used>>
    BY <1>9 DEF vars
  <2>2. /\ Local' = Local /\ Fits' = Fits /\ validPinnedPortSet' = validPinnedPortSet
        /\ \A n : /\ Pinned(n)' = Pinned(n) /\ isUplink(n)' = isUplink(n)
                  /\ filterRemoteMACEntries(n)' = filterRemoteMACEntries(n)
    BY <2>1, SameMembers
  <2>3. Waiting' = Waiting /\ UplinkAlone' = UplinkAlone
    BY <2>1, <2>2 DEF Waiting, UplinkAlone
  <2>4. \A m, p : ShownAt(m, p)' = ShownAt(m, p)
    BY <2>1, <2>2 DEF ShownAt
  <2>5. MappedSoFar'
    BY <2>1, <2>2, <2>3, <2>4 DEF EInv, MappedSoFar
  <2>6. EveryMemberIsShown'
    BY <2>1, <2>2 DEF EInv, EveryMemberIsShown
  <2>7. QED BY <2>5, <2>6 DEF EInv
<1>10. QED
  BY <1>2, <1>3, <1>4, <1>5, <1>6, <1>7, <1>8, <1>9 DEF Next

\* For any number of ports and members: whenever the members fit, each has a port
\* to itself with its own state and all of its addresses, and the uplink port
\* shows nobody else (applyDeviceMACs).
THEOREM MembersThatFitAreShown == Spec => []EveryMemberIsShown
<1>1. Init => EInv
  BY DEF Init, EInv, MappedSoFar, EveryMemberIsShown
<1>2. EInv => EveryMemberIsShown
  BY DEF EInv
<1>3. QED BY <1>1, <1>2, NextEInv, BridgeInvariance, PTL DEF Spec
=============================================================================

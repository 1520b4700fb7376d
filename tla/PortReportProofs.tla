-------------------------- MODULE PortReportProofs --------------------------
(***************************************************************************)
(* What a heartbeat tells of the ports, for any number of ports, interfaces*)
(* and neighbours.  The tables are built by loops over lists (ListFold);   *)
(* each loop is followed turn by turn.  The invariant PInv says that the   *)
(* configuration is one startup accepts and that the report on the wire    *)
(* was built by one heartbeat from a table with a single uplink, so the    *)
(* theorems are about what the loops build.                                *)
(***************************************************************************)
EXTENDS PortReport, FiniteSetTheorems, SequenceTheorems, WellFoundedInduction, TLAPS

----------------------------------------------------------------------------
(* The ports of a report.                                                  *)

portFields ==
  {"name", "interface", "ip", "ipv6", "role", "group", "conf", "vlan", "wan", "media", "uplink", "disabled", "up",
   "speed", "set", "rx", "tx", "macs", "neighbors", "rates"}

configSources == {"config-uplink", "config-port"}

\* What lldpd hears has an address; what the operator writes may have none.
isNeighbor(n) ==
  /\ DOMAIN n = {"mac", "source", "remote"}
  /\ n.source \in configSources \cup {"lldp"}
  /\ n.source = "lldp" => n.mac # ""

areNeighbors(list) == \E S : list \in Seq(S) /\ \A n \in S : isNeighbor(n)

IsTable(all) ==
  /\ DOMAIN all = Port
  /\ \A p \in Port : DOMAIN all[p] = portFields /\ areNeighbors(all[p].neighbors)

\* One port has the marker.
OneUplink(all) == \E u \in Port : \A p \in Port : all[p].uplink = (p = u)

\* Nothing that is laid over the ports moves the marker.
SameUplink(before, all) == \A p \in Port : all[p].uplink = before[p].uplink

\* Nor what the operator configured on a port.
SameConfigured(before, all) == \A p \in Port : configuredOf(all[p]) = configuredOf(before[p])

\* No port has a neighbour that was heard.
NoneHeard(all) ==
  \A p \in Port : \A k \in DOMAIN all[p].neighbors : all[p].neighbors[k].source \in configSources

\* No neighbours are a list of neighbours.
LEMMA NoneAreNeighbors == areNeighbors(<<>>)
<1> DEFINE none == <<>>
           S == {}
<1>1. none \in Seq(S)
  BY EmptySeq
<1>2. \A n \in S : isNeighbor(n)
  OBVIOUS
<1> HIDE DEF none, S
<1>3. areNeighbors(none)
  BY <1>1, <1>2 DEF areNeighbors
<1>4. QED BY <1>3 DEF none

\* With one more they still are.
LEMMA OneMoreNeighbor ==
  ASSUME NEW list, areNeighbors(list), NEW n, isNeighbor(n)
  PROVE  areNeighbors(Append(list, n))
<1>1. PICK S : list \in Seq(S) /\ \A m \in S : isNeighbor(m)
  BY DEF areNeighbors
<1> DEFINE R == S \cup {n}
<1>2. S \subseteq R /\ n \in R /\ \A m \in R : isNeighbor(m)
  BY <1>1
<1> HIDE DEF R
<1>3. list \in Seq(R)
  BY <1>1, <1>2, SeqMonotonic
<1>4. Append(list, n) \in Seq(R)
  BY <1>2, <1>3, AppendProperties
<1>5. QED BY <1>2, <1>4 DEF areNeighbors

\* The ports of the groups before a group are counted turn by turn, so the
\* count grows with every group that has a port.
LEMMA GroupsGrow ==
  ASSUME NEW groups, isList(groups), NEW count,
         \A g \in DOMAIN groups : groups[g].count \in Int /\ groups[g].count >= 1,
         portsBefore(groups, Len(groups) + 1) = count,
         NEW g \in DOMAIN groups
  PROVE  portsBefore(groups, g) + 1 \in 1 .. count
<1> DEFINE n == Len(groups)
           f == Counted!folded(0, groups)
           K == {k \in 0 .. n : \A j \in 0 .. k : f[j] \in Nat /\ f[j] <= f[k]}
<1>1. n \in Nat /\ DOMAIN groups = 1 .. n
  BY DEF isList
<1>2. f[0] = 0 /\ \A k \in 1 .. n : f[k] = f[k - 1] + groups[k].count
  BY <1>1, Counted!FoldedSteps DEF countGroup
<1> HIDE DEF f
<1>3. 0 \in K
  BY <1>1, <1>2
<1>4. ASSUME NEW k \in 1 .. n, k - 1 \in K PROVE k \in K
  <2>1. f[k] = f[k - 1] + groups[k].count /\ groups[k].count \in Int /\ groups[k].count >= 1
    BY <1>1, <1>2
  <2>2. \A j \in 0 .. k - 1 : f[j] \in Nat /\ f[j] <= f[k - 1]
    BY <1>4
  <2>3. f[k - 1] \in Nat /\ f[k] \in Nat /\ f[k - 1] <= f[k]
    BY <2>1, <2>2
  <2>4. ASSUME NEW j \in 0 .. k PROVE f[j] \in Nat /\ f[j] <= f[k]
    BY <2>2, <2>3
  <2>5. QED BY <2>4
<1>5. \A k \in 0 .. n : k \in K
  <2> HIDE DEF K
  <2>1. QED BY <1>1, <1>3, <1>4, Counted!TurnByTurn
<1>6. g - 1 \in K /\ g \in K /\ n \in K /\ g \in 1 .. n
  BY <1>1, <1>5
<1>7. f[g] = f[g - 1] + groups[g].count /\ groups[g].count >= 1 /\ groups[g].count \in Int
  BY <1>1, <1>2
<1>8. f[g] <= f[n] /\ f[g] \in Nat /\ f[n] \in Nat /\ f[g - 1] \in Nat
  BY <1>6
<1>9. portsBefore(groups, g) = f[g - 1] /\ f[n] = count
  BY <1>1 DEF portsBefore, f
<1>10. QED BY <1>7, <1>8, <1>9

\* The marker of the profile is on one of its ports (profileUplink): the first
\* port of the first uplink group, or port 1.
LEMMA ProfileUplinkExists ==
  ASSUME NEW layout, NEW count \in Nat \ {0}, isList(layout.groups),
         \A g \in DOMAIN layout.groups : layout.groups[g].count \in Int
  PROVE  profileUplink(layout, count) \in 1 .. count
<1> DEFINE uplinks == {g \in DOMAIN layout.groups : layout.groups[g].uplink}
<1>1. CASE grouped(layout, count) /\ uplinks # {}
  <2>1. uplinks \in SUBSET Nat
    BY DEF isList
  <2>2. \E g \in uplinks : \A h \in uplinks : g <= h
    <3> HIDE DEF uplinks
    <3>1. QED BY <1>1, <2>1, Counted!LeastNatural
  <2> DEFINE g == CHOOSE g \in uplinks : \A h \in uplinks : g <= h
  <2>3. g \in DOMAIN layout.groups
    BY <2>2
  <2>4. profileUplink(layout, count) = portsBefore(layout.groups, g) + 1
    BY <1>1 DEF profileUplink
  <2>5. /\ \A h \in DOMAIN layout.groups : layout.groups[h].count >= 1
        /\ portsBefore(layout.groups, Len(layout.groups) + 1) = count
    BY <1>1 DEF grouped
  <2> HIDE DEF g
  <2>6. QED BY <2>3, <2>4, <2>5, GroupsGrow
<1>2. CASE ~ (grouped(layout, count) /\ uplinks # {})
  <2>1. profileUplink(layout, count) = 1
    BY <1>2 DEF profileUplink
  <2>2. QED BY <2>1
<1>3. QED BY <1>1, <1>2

\* BuildPorts: a table with one uplink.
LEMMA BuiltPorts ==
  ASSUME NEW pl, PlanType(pl)
  PROVE  IsTable(builtPorts(pl)) /\ OneUplink(builtPorts(pl)) /\ NoneHeard(builtPorts(pl))
<1> DEFINE options == portBuildOptions(pl)
           layout == normalizePortLayout(profilePortLayout(pl.profile, options))
           u == uplinkPortOf(layout, PortCount, options.uplinkPort)
           none == <<>>
<1>1. PortCount \in Nat \ {0} /\ Port = 1 .. PortCount
  <2>1. PortCount \in Nat /\ Port # {}
    BY BridgeAssumption, ReportAssumption
  <2>2. QED BY <2>1 DEF Port
<1>2. profilePortCount(pl.profile, options) = PortCount
  BY <1>1 DEF profilePortCount, portBuildOptions
<1>3. layout.groups = IF options.linkSpeed > 0 THEN <<>> ELSE pl.profile.groups
  BY DEF normalizePortLayout, withMedia, profilePortLayout
<1>4. isList(layout.groups) /\ \A g \in DOMAIN layout.groups : layout.groups[g].count \in Int
  BY <1>3 DEF PlanType, isList
<1> HIDE DEF layout
<1>5. u \in Port
  BY <1>1, <1>4, ProfileUplinkExists DEF uplinkPortOf
<1> HIDE DEF u
<1>6. builtPorts(pl) = portsOf(layout, PortCount, pl.profile.roles, options.uplinkPort)
  BY <1>2 DEF builtPorts, BuildPorts, layout
<1>7. /\ DOMAIN builtPorts(pl) = Port
      /\ \A p \in Port : DOMAIN builtPorts(pl)[p] = portFields /\ builtPorts(pl)[p].neighbors = none
      /\ \A p \in Port : builtPorts(pl)[p].uplink = (p = u)
  <2>1. DOMAIN builtPorts(pl) = Port
    BY <1>1, <1>6 DEF portsOf
  <2>2. ASSUME NEW p \in Port
        PROVE  \E link, role : builtPorts(pl)[p] = generatedPort(p, link, role, p = u)
    BY <1>1, <1>6 DEF portsOf, u
  <2>3. ASSUME NEW p \in Port, NEW link, NEW role
        PROVE  /\ DOMAIN generatedPort(p, link, role, p = u) = portFields
               /\ generatedPort(p, link, role, p = u).uplink = (p = u)
               /\ generatedPort(p, link, role, p = u).neighbors = none
    BY DEF generatedPort, portFields
  <2> HIDE DEF none
  <2>4. QED BY <2>1, <2>2, <2>3
<1>8. areNeighbors(none) /\ DOMAIN none = {}
  BY NoneAreNeighbors
<1> HIDE DEF none
<1>9. QED BY <1>5, <1>7, <1>8 DEF IsTable, OneUplink, NoneHeard

\* The configured neighbours are a function of the neighbours.
LEMMA SameNeighborsConfigured ==
  ASSUME NEW a, NEW b, a.neighbors = b.neighbors
  PROVE  configuredOf(a) = configuredOf(b)
BY DEF configuredOf, heardPlaces

\* The setters of an override leave the marker and the neighbours alone.
LEMMA SettersKeep ==
  ASSUME NEW port, DOMAIN port = portFields, NEW o
  PROVE  LET new == portOverrideSetters(port, o) IN
         DOMAIN new = portFields /\ new.uplink = port.uplink /\ new.neighbors = port.neighbors
<1> DEFINE Keeps(r, new) == DOMAIN new = portFields /\ new.uplink = r.uplink /\ new.neighbors = r.neighbors
<1>1. ASSUME NEW r, DOMAIN r = portFields
      PROVE  /\ Keeps(r, setPortOverrideStrings(r, o)) /\ Keeps(r, setPortOverrideAssignment(r, o))
             /\ Keeps(r, setPortOverrideSpeed(r, o))
  BY <1>1 DEF portFields, setPortOverrideStrings, setPortOverrideAssignment, setPortOverrideSpeed
<1>2. ASSUME NEW r, DOMAIN r = portFields
      PROVE  /\ Keeps(r, setPortOverrideWANHealth(r, o)) /\ Keeps(r, setPortOverrideCounters(r, o))
             /\ Keeps(r, setPortOverrideMedia(r, o))
  BY <1>2 DEF portFields, setPortOverrideWANHealth, setPortOverrideCounters, setPortOverrideMedia
<1>3. ASSUME NEW r, DOMAIN r = portFields
      PROVE  Keeps(r, setPortOverrideLinkState(r, o)) /\ Keeps(r, setPortOverrideDisabled(r, o))
  BY <1>3 DEF portFields, setPortOverrideLinkState, setPortOverrideDisabled
<1>4. QED BY <1>1, <1>2, <1>3 DEF portOverrideSetters

\* Overrides, however many, leave the marker alone (ApplyPortOverrides).
LEMMA OverridesKeep ==
  ASSUME NEW all, IsTable(all), NEW list, Len(list) \in Nat
  PROVE  LET new == ApplyPortOverrides(all, list) IN
         IsTable(new) /\ SameUplink(all, new) /\ SameConfigured(all, new)
<1> DEFINE n == Len(list)
           f == Overridden!folded(all, list)
           K == {k \in 0 .. n : IsTable(f[k]) /\ SameUplink(all, f[k]) /\ SameConfigured(all, f[k])}
<1>1. f[0] = all /\ \A k \in 1 .. n : f[k] = applyOverride(f[k - 1], list[k])
  BY Overridden!FoldedSteps
<1>2. ApplyPortOverrides(all, list) = f[n]
  BY DEF ApplyPortOverrides, Overridden!Fold
<1> HIDE DEF f
<1>3. 0 \in K
  BY <1>1 DEF SameUplink, SameConfigured
<1>4. ASSUME NEW k \in 1 .. n, k - 1 \in K PROVE k \in K
  <2> DEFINE b == f[k - 1]
             o == list[k]
  <2>1. f[k] = applyOverride(b, o) /\ IsTable(b) /\ SameUplink(all, b) /\ SameConfigured(all, b)
    BY <1>1, <1>4
  <2> HIDE DEF b, o
  <2>2. CASE o.port \in Port
    <3>1. f[k] = [b EXCEPT ![o.port] = portOverrideSetters(b[o.port], o)]
      BY <2>1, <2>2 DEF applyOverride, IsTable
    <3>2. /\ DOMAIN portOverrideSetters(b[o.port], o) = portFields
          /\ portOverrideSetters(b[o.port], o).uplink = b[o.port].uplink
          /\ portOverrideSetters(b[o.port], o).neighbors = b[o.port].neighbors
      BY <2>1, <2>2, SettersKeep DEF IsTable
    <3>3. IsTable(f[k]) /\ SameUplink(all, f[k])
      BY <2>1, <3>1, <3>2 DEF IsTable, SameUplink
    <3>4. \A p \in Port : f[k][p].neighbors = b[p].neighbors
      BY <2>1, <3>1, <3>2 DEF IsTable
    <3>5. \A p \in Port : configuredOf(f[k][p]) = configuredOf(b[p])
      BY <3>4, SameNeighborsConfigured
    <3>6. QED BY <2>1, <3>3, <3>5 DEF SameConfigured
  <2>3. CASE o.port \notin Port
    BY <2>1, <2>3 DEF applyOverride, IsTable
  <2>4. QED BY <2>2, <2>3
<1>5. n \in K
  <2> HIDE DEF K
  <2>1. \A k \in 0 .. n : k \in K
    BY <1>3, <1>4, Overridden!TurnByTurn
  <2>2. QED BY <2>1
<1>6. QED BY <1>2, <1>5

\* The elements at the places of a set are a list of them.
LEMMA PickedIsList ==
  ASSUME NEW list, isList(list), NEW T
  PROVE  picked(list, T) \in Seq({list[k] : k \in T \cap DOMAIN list})
<1> DEFINE n == Len(list)
           parts == [k \in DOMAIN list |-> IF k \in T THEN <<list[k]>> ELSE <<>>]
           S == {list[k] : k \in T \cap DOMAIN list}
           none == <<>>
           f == Joined!folded(none, parts)
           K == {k \in 0 .. n : f[k] \in Seq(S)}
<1>1. n \in Nat /\ DOMAIN list = 1 .. n
  BY DEF isList
<1>2. Len(parts) = n
  BY <1>1
<1>3. \A k \in 1 .. n : parts[k] \in Seq(S)
  <2>1. ASSUME NEW k \in 1 .. n, k \in T PROVE parts[k] \in Seq(S)
    <3>1. parts[k] = <<list[k]>> /\ list[k] \in S
      BY <1>1, <2>1
    <3> HIDE DEF S, parts
    <3>2. QED BY <3>1
  <2>2. ASSUME NEW k \in 1 .. n, k \notin T PROVE parts[k] \in Seq(S)
    <3>1. parts[k] = <<>>
      BY <1>1, <2>2
    <3> HIDE DEF S, parts
    <3>2. QED BY <3>1, EmptySeq
  <2>3. QED BY <2>1, <2>2
<1>4. picked(list, T) = f[n]
  BY <1>2 DEF picked, Joined!Fold
<1>5. none \in Seq(S)
  BY EmptySeq
<1> HIDE DEF parts, S, none
<1>6. f[0] = none /\ \A k \in 1 .. n : f[k] = join(f[k - 1], parts[k])
  BY <1>1, <1>2, Joined!FoldedSteps
<1> HIDE DEF f
<1>7. 0 \in K
  BY <1>1, <1>5, <1>6
<1>8. ASSUME NEW k \in 1 .. n, k - 1 \in K PROVE k \in K
  <2>1. f[k - 1] \in Seq(S)
    BY <1>8
  <2>2. f[k] \in Seq(S)
    BY <1>3, <1>6, <2>1, ConcatProperties DEF join
  <2>3. QED BY <2>2
<1>9. n \in K
  <2> HIDE DEF K
  <2>1. \A k \in 0 .. n : k \in K
    BY <1>1, <1>7, <1>8, Joined!TurnByTurn
  <2>2. QED BY <1>1, <2>1
<1>10. QED BY <1>4, <1>9 DEF S

----------------------------------------------------------------------------
(* The neighbour of a port (resolvePortNeighbor).                         *)

\* Nobody has no address.
LEMMA NobodyHasNoAddress == noNeighbor.mac = "" /\ noNeighbor.source = ""
BY DEF noNeighbor

\* A list of neighbours is a list.
LEMMA NeighborsAreList ==
  ASSUME NEW list, areNeighbors(list)
  PROVE  isList(list) /\ \A k \in DOMAIN list : isNeighbor(list[k])
<1>1. PICK S : list \in Seq(S) /\ \A n \in S : isNeighbor(n)
  BY DEF areNeighbors
<1>2. DOMAIN list = 1 .. Len(list) /\ Len(list) \in Nat /\ \A k \in 1 .. Len(list) : list[k] \in S
  BY <1>1, LenProperties, ElementOfSeq
<1>3. QED BY <1>1, <1>2 DEF isList

\* Some of the neighbours of a list are a list of neighbours, each at one of the
\* places, and nobody only if there is no place.
LEMMA PickedNeighbors ==
  ASSUME NEW list, areNeighbors(list), NEW T
  PROVE  /\ areNeighbors(picked(list, T))
         /\ \A j \in DOMAIN picked(list, T) : \E k \in T \cap DOMAIN list : picked(list, T)[j] = list[k]
<1> DEFINE S == {list[k] : k \in T \cap DOMAIN list}
           some == picked(list, T)
<1>1. isList(list) /\ \A k \in DOMAIN list : isNeighbor(list[k])
  BY NeighborsAreList
<1>2. some \in Seq(S)
  BY <1>1, PickedIsList
<1>3. \A n \in S : isNeighbor(n)
  BY <1>1
<1>4. ASSUME NEW j \in DOMAIN some PROVE some[j] \in S
  <2> HIDE DEF some, S
  <2>1. j \in 1 .. Len(some)
    BY <1>2, LenProperties
  <2>2. QED BY <1>2, <2>1, ElementOfSeq
<1>5. areNeighbors(some)
  <2> HIDE DEF some, S
  <2>1. QED BY <1>2, <1>3 DEF areNeighbors
<1> HIDE DEF some
<1>6. \A j \in DOMAIN some : \E k \in T \cap DOMAIN list : some[j] = list[k]
  BY <1>4
<1>7. QED BY <1>5, <1>6 DEF some

\* What the neighbours of one address are merged to: the last of them, with the
\* remote port of an earlier one if it has none (mergeTopologyNeighbor).
LEMMA MergedNeighbor ==
  ASSUME NEW list, areNeighbors(list)
  PROVE  LET n == Merged!Fold(noNeighbor, list) IN
         /\ Len(list) = 0 => n = noNeighbor
         /\ Len(list) # 0 => /\ isNeighbor(n) /\ Len(list) \in DOMAIN list
                             /\ n.mac = list[Len(list)].mac /\ n.source = list[Len(list)].source
<1> DEFINE k == Len(list)
           f == Merged!folded(noNeighbor, list)
<1>1. isList(list) /\ \A j \in DOMAIN list : isNeighbor(list[j])
  BY NeighborsAreList
<1>2. k \in Nat /\ DOMAIN list = 1 .. k
  BY <1>1 DEF isList
<1>3. f[0] = noNeighbor /\ \A j \in 1 .. k : f[j] = mergeNext(f[j - 1], list[j])
  BY <1>2, Merged!FoldedSteps
<1>4. Merged!Fold(noNeighbor, list) = f[k]
  BY DEF Merged!Fold
<1> HIDE DEF f
<1>5. CASE k = 0
  BY <1>3, <1>4, <1>5
<1>6. CASE k # 0
  <2>1. k \in 1 .. k /\ k \in DOMAIN list /\ f[k] = mergeNext(f[k - 1], list[k]) /\ isNeighbor(list[k])
    BY <1>1, <1>2, <1>3, <1>6
  <2> DEFINE n == list[k]
             m == f[k - 1]
             r == f[k]
  <2> HIDE DEF n, m, r, k
  <2>2. r = mergeNext(m, n) /\ isNeighbor(n)
    BY <2>1 DEF n, m, r
  <2>3. isNeighbor(r) /\ r.mac = n.mac /\ r.source = n.source
    <3>1. CASE m = noNeighbor
      BY <2>2, <3>1 DEF mergeNext
    <3>2. CASE m # noNeighbor
      BY <2>2, <3>2 DEF mergeNext, mergeTopologyNeighbor, isNeighbor
    <3>3. QED BY <3>1, <3>2
  <2>4. QED BY <1>4, <1>6, <2>1, <2>3 DEF n, r, k
<1>7. QED BY <1>5, <1>6

\* The first of the places that are picked is picked.
LEMMA PickedAny ==
  ASSUME NEW list, isList(list), NEW T, NEW t \in T \cap DOMAIN list
  PROVE  Len(picked(list, T)) # 0
<1> DEFINE n == Len(list)
           parts == [k \in DOMAIN list |-> IF k \in T THEN <<list[k]>> ELSE <<>>]
           S == {list[k] : k \in DOMAIN list}
           none == <<>>
           f == Joined!folded(none, parts)
           count(k) == Len(f[k])
           K == {k \in 0 .. n : f[k] \in Seq(S) /\ (t <= k => count(k) # 0)}
<1>1. n \in Nat /\ DOMAIN list = 1 .. n /\ t \in 1 .. n
  BY DEF isList
<1>2. Len(parts) = n
  BY <1>1
<1>3. \A k \in 1 .. n : parts[k] \in Seq(S) /\ (k = t => Len(parts[k]) # 0)
  <2>1. ASSUME NEW k \in 1 .. n, k \in T PROVE parts[k] \in Seq(S) /\ Len(parts[k]) # 0
    <3>1. parts[k] = <<list[k]>> /\ list[k] \in S
      BY <1>1, <2>1
    <3> HIDE DEF S, parts
    <3>2. QED BY <3>1
  <2>2. ASSUME NEW k \in 1 .. n, k \notin T PROVE parts[k] \in Seq(S) /\ k # t
    <3>1. parts[k] = <<>> /\ k # t
      BY <1>1, <2>2
    <3> HIDE DEF S, parts
    <3>2. QED BY <3>1, EmptySeq
  <2>3. QED BY <2>1, <2>2
<1>4. picked(list, T) = f[n]
  BY <1>2 DEF picked, Joined!Fold
<1>5. none \in Seq(S)
  BY EmptySeq
<1> HIDE DEF parts, S, none
<1>6. f[0] = none /\ \A k \in 1 .. n : f[k] = join(f[k - 1], parts[k])
  BY <1>1, <1>2, Joined!FoldedSteps
<1> HIDE DEF f
<1>7. 0 \in K
  BY <1>1, <1>5, <1>6
<1>8. ASSUME NEW k \in 1 .. n, k - 1 \in K PROVE k \in K
  <2> DEFINE more == Len(parts[k])
  <2>1. f[k - 1] \in Seq(S) /\ (t <= k - 1 => count(k - 1) # 0)
    BY <1>8
  <2>2. f[k] = f[k - 1] \o parts[k] /\ parts[k] \in Seq(S)
    BY <1>3, <1>6 DEF join
  <2>3. f[k] \in Seq(S) /\ count(k) = count(k - 1) + more
    BY <2>1, <2>2, ConcatProperties
  <2>4. count(k - 1) \in Nat /\ more \in Nat
    BY <2>1, <2>2, LenProperties
  <2>5. t = k => more # 0
    BY <1>3
  <2>6. t <= k => (t <= k - 1 \/ t = k)
    BY <1>1
  <2> HIDE DEF count, more
  <2>7. t <= k => count(k) # 0
    BY <2>1, <2>3, <2>4, <2>5, <2>6
  <2>8. QED BY <2>3, <2>7
<1>9. n \in K
  <2> HIDE DEF K
  <2>1. \A k \in 0 .. n : k \in K
    BY <1>1, <1>7, <1>8, Joined!TurnByTurn
  <2>2. QED BY <1>1, <2>1
<1>10. count(n) # 0
  <2> HIDE DEF count
  <2>1. QED BY <1>1, <1>9
<1>11. QED BY <1>4, <1>10

\* The configured neighbours of a port, and those that were heard.
LEMMA TwoKinds ==
  ASSUME NEW port, areNeighbors(port.neighbors)
  PROVE  /\ areNeighbors(configuredOf(port)) /\ areNeighbors(lldpOf(port))
         /\ \A j \in DOMAIN configuredOf(port) : configuredOf(port)[j].source \in configSources
         /\ \A j \in DOMAIN lldpOf(port) : lldpOf(port)[j].source = "lldp"
<1> DEFINE list == port.neighbors
           T == DOMAIN list \ heardPlaces(port)
<1>1. isList(list) /\ \A k \in DOMAIN list : isNeighbor(list[k])
  BY NeighborsAreList
<1>2. \A k \in T \cap DOMAIN list : list[k].source \in configSources
  BY <1>1 DEF isNeighbor, heardPlaces
<1>3. \A k \in heardPlaces(port) \cap DOMAIN list : list[k].source = "lldp"
  BY DEF heardPlaces
<1>4. configuredOf(port) = picked(list, T) /\ lldpOf(port) = picked(list, heardPlaces(port))
  BY DEF configuredOf, lldpOf
<1> HIDE DEF T, list
<1>5. areNeighbors(list)
  BY DEF list
<1>6. /\ areNeighbors(picked(list, T)) /\ areNeighbors(picked(list, heardPlaces(port)))
      /\ \A j \in DOMAIN picked(list, T) : \E k \in T \cap DOMAIN list : picked(list, T)[j] = list[k]
      /\ \A j \in DOMAIN picked(list, heardPlaces(port)) :
           \E k \in heardPlaces(port) \cap DOMAIN list : picked(list, heardPlaces(port))[j] = list[k]
  BY <1>5, PickedNeighbors
<1>7. QED BY <1>2, <1>3, <1>4, <1>6

\* The neighbours of one address that some list has.
LEMMA MergedOfAddress ==
  ASSUME NEW list, areNeighbors(list), NEW t \in DOMAIN list
  PROVE  LET n == mergedOf(list, list[t].mac) IN
         isNeighbor(n) /\ n.mac = list[t].mac /\ \E k \in DOMAIN list : n.source = list[k].source
<1> DEFINE mac == list[t].mac
           T == {k \in DOMAIN list : list[k].mac = mac}
           some == picked(list, T)
           n == mergedOf(list, mac)
<1>1. isList(list) /\ t \in T \cap DOMAIN list
  BY NeighborsAreList
<1>2. n = Merged!Fold(noNeighbor, some)
  BY DEF mergedOf
<1>3. \A k \in T : k \in DOMAIN list /\ list[k].mac = mac
  OBVIOUS
<1> HIDE DEF T, n
<1>4. /\ areNeighbors(some)
      /\ \A j \in DOMAIN some : \E k \in T \cap DOMAIN list : some[j] = list[k]
  BY PickedNeighbors
<1>5. Len(some) # 0
  BY <1>1, PickedAny
<1> HIDE DEF some, mac
<1>6. /\ isNeighbor(n) /\ Len(some) \in DOMAIN some
      /\ n.mac = some[Len(some)].mac /\ n.source = some[Len(some)].source
  BY <1>2, <1>4, <1>5, MergedNeighbor
<1>7. PICK k \in T \cap DOMAIN list : some[Len(some)] = list[k]
  BY <1>4, <1>6
<1>8. QED BY <1>3, <1>6, <1>7 DEF n, mac

\* resolvePortNeighbor: nobody, or a neighbour of the port; the configured
\* device if there is one.
LEMMA ResolvedNeighbor ==
  ASSUME NEW port, areNeighbors(port.neighbors)
  PROVE  LET n == resolvePortNeighbor(port)
             configured == configuredOf(port) IN
         /\ n = noNeighbor \/ isNeighbor(n)
         /\ n.source = "lldp" => Len(lldpOf(port)) # 0
         /\ Len(configured) = 0 => n.source \notin configSources
         /\ Len(configured) # 0 => n.mac = configured[1].mac /\ n.source \in configSources
<1> DEFINE configured == configuredOf(port)
           lldp == lldpOf(port)
           n == resolvePortNeighbor(port)
           none == <<>>
<1>1. /\ areNeighbors(configured) /\ areNeighbors(lldp)
      /\ \A j \in DOMAIN configured : configured[j].source \in configSources
      /\ \A j \in DOMAIN lldp : lldp[j].source = "lldp"
  BY TwoKinds
<1>2. /\ Len(configured) \in Nat /\ DOMAIN configured = 1 .. Len(configured)
      /\ Len(lldp) \in Nat /\ DOMAIN lldp = 1 .. Len(lldp)
  BY <1>1, NeighborsAreList DEF isList
<1>3. configured # none <=> Len(configured) # 0
  <2>1. PICK S : configured \in Seq(S)
    BY <1>1 DEF areNeighbors
  <2> HIDE DEF configured
  <2>2. QED BY <2>1, EmptySeq
<1> DEFINE m == mergedOf(configured, configured[1].mac)
           l == mergedOf(lldp, lldp[1].mac)
<1>4. n = IF configured # none
            THEN IF m.mac \in addressesOf(lldp) THEN mergeTopologyNeighbor(mergedOf(lldp, m.mac), m) ELSE m
          ELSE IF Cardinality(addressesOf(lldp)) = 1 THEN l ELSE noNeighbor
  BY DEF resolvePortNeighbor
<1> HIDE DEF configured, lldp, n, none
<1>5. CASE Len(configured) # 0
  <2>1. 1 \in DOMAIN configured
    BY <1>2, <1>5
  <2>2. isNeighbor(m) /\ m.mac = configured[1].mac /\ m.source \in configSources
    BY <1>1, <2>1, MergedOfAddress
  <2> HIDE DEF m, l
  <2>3. n = m \/ n = mergeTopologyNeighbor(mergedOf(lldp, m.mac), m)
    BY <1>3, <1>4, <1>5
  <2>4. isNeighbor(n) /\ n.mac = m.mac /\ n.source = m.source
    BY <2>2, <2>3 DEF mergeTopologyNeighbor, isNeighbor
  <2>5. n.source # "lldp"
    BY <2>2, <2>4 DEF configSources
  <2>6. QED BY <1>5, <2>2, <2>4, <2>5 DEF configured, n
<1>6. CASE Len(configured) = 0 /\ Cardinality(addressesOf(lldp)) = 1
  <2>1. 1 \in DOMAIN lldp
    <3>1. CASE Len(lldp) = 0
      <4>1. addressesOf(lldp) = {}
        BY <1>2, <3>1 DEF addressesOf
      <4>2. QED BY <1>6, <4>1, FS_EmptySet
    <3>2. QED BY <1>2, <3>1
  <2>2. isNeighbor(l) /\ l.source = "lldp"
    BY <1>1, <2>1, MergedOfAddress
  <2> HIDE DEF m, l
  <2>3. n = l
    BY <1>3, <1>4, <1>6
  <2>4. Len(lldp) # 0
    BY <1>2, <2>1
  <2>5. QED BY <1>6, <2>2, <2>3, <2>4 DEF configured, n, configSources, lldp
<1>7. CASE Len(configured) = 0 /\ Cardinality(addressesOf(lldp)) # 1
  <2>1. n = noNeighbor
    BY <1>3, <1>4, <1>7
  <2>2. QED BY <1>7, <2>1, NobodyHasNoAddress DEF configured, n, configSources
<1>8. QED BY <1>5, <1>6, <1>7

----------------------------------------------------------------------------
(* The directions (resolveDirectionConflicts).                             *)

stateFields == {"ports", "edges", "failed", "first", "kept"}

AreEdges(edges) == DOMAIN edges = Port /\ \A p \in Port : edges[p] = noNeighbor \/ isNeighbor(edges[p])

macsOf(edges) == {edges[p].mac : p \in Port}

\* One of two edges is upstream, and both have the address.
Opposed(all, edges, p, q) ==
  edges[p].mac # "" /\ edges[p].mac = edges[q].mac /\ all[p].uplink # all[q].uplink

bothConfigured(edges, p, q) == edges[p].source \in configSources /\ edges[q].source \in configSources

\* The loop after k ports.
IsState(all, edges, st) ==
  /\ DOMAIN st = stateFields /\ st.ports = all /\ st.edges = edges
  /\ DOMAIN st.first = macsOf(edges)

\* The edge that is remembered for an address is one of those that were seen.
Remembers(edges, k, st) ==
  \A m \in macsOf(edges) \ {""} :
    /\ st.first[m] = 0 => \A p \in 1 .. k : edges[p].mac # m
    /\ st.first[m] # 0 => st.first[m] \in 1 .. k /\ edges[st.first[m]].mac = m

\* A configured edge is never dropped.
KeepsConfigured(edges, st) == \A p \in Port : edges[p].source \in configSources => p \in st.kept

\* If lldpd hears a device on the uplink and that edge is still kept, the device
\* is remembered there and every other port where it was heard has lost it.
KeepsOneWay(edges, u, k, st) ==
  (u \in 1 .. k /\ u \in st.kept /\ edges[u].source = "lldp") =>
    /\ st.first[edges[u].mac] = u
    /\ \A p \in 1 .. k : (p # u /\ edges[p].mac = edges[u].mac /\ edges[p].source = "lldp") => p \notin st.kept

\* The loop fails only for two configured edges, and without LLDP for any two.
FailsRightly(all, edges, k, st) ==
  IF st.failed THEN \E p, q \in Port : Opposed(all, edges, p, q) /\ bothConfigured(edges, p, q)
  ELSE (\A p \in Port : edges[p].source # "lldp") => \A p, q \in 1 .. k : ~ Opposed(all, edges, p, q)

DirectionInv(all, edges, u, k, st) ==
  /\ IsState(all, edges, st)
  /\ FailsRightly(all, edges, k, st)
  /\ ~ st.failed => Remembers(edges, k, st) /\ KeepsConfigured(edges, st) /\ KeepsOneWay(edges, u, k, st)

\* What a configured and a heard neighbour count.
LEMMA Priorities ==
  ASSUME NEW edges, AreEdges(edges), NEW p \in Port, edges[p].mac # ""
  PROVE  \/ edges[p].source \in configSources /\ topologySourcePriority(edges[p].source) = 2
         \/ edges[p].source = "lldp" /\ topologySourcePriority(edges[p].source) = 1
<1>1. isNeighbor(edges[p])
  BY NobodyHasNoAddress DEF AreEdges
<1>2. edges[p].source \in configSources \cup {"lldp"}
  BY <1>1 DEF isNeighbor
<1>3. ASSUME NEW s \in configSources PROVE topologySourcePriority(s) = 2
  BY DEF configSources, topologySourcePriority
<1>4. topologySourcePriority("lldp") = 1
  BY DEF topologySourcePriority
<1>5. QED BY <1>2, <1>3, <1>4

\* What a turn without an error leaves alone.
Becomes(st, new, first, kept) ==
  /\ DOMAIN new = stateFields /\ new.ports = st.ports /\ new.edges = st.edges /\ ~ new.failed
  /\ new.first = first /\ new.kept = kept

Fails(st, new) ==
  DOMAIN new = stateFields /\ new.ports = st.ports /\ new.edges = st.edges /\ new.failed /\ new.first = st.first

\* The ways a turn can go.
LEMMA TurnSkips ==
  ASSUME NEW st, NEW p, st.failed \/ st.edges[p].mac = ""
  PROVE  directionStep(st, p) = st
BY DEF directionStep

\* An address that was not seen before.
LEMMA TurnRemembers ==
  ASSUME NEW all, NEW edges, NEW st, IsState(all, edges, st), NEW p, ~ st.failed, edges[p].mac # "",
         st.first[edges[p].mac] = 0
  PROVE  Becomes(st, directionStep(st, p), [st.first EXCEPT ![edges[p].mac] = p], st.kept)
<1> DEFINE mac == edges[p].mac
           new == directionStep(st, p)
<1>1. new = [st EXCEPT !.first[mac] = p]
  BY DEF directionStep, IsState
<1> HIDE DEF mac, new
<1>2. Becomes(st, new, [st.first EXCEPT ![mac] = p], st.kept)
  BY <1>1 DEF Becomes, IsState, stateFields
<1>3. QED BY <1>2 DEF mac, new

\* An address that was seen in the same direction.
LEMMA TurnAgrees ==
  ASSUME NEW all, NEW edges, NEW st, IsState(all, edges, st), NEW p, ~ st.failed, edges[p].mac # "",
         NEW q, q = st.first[edges[p].mac], q # 0, sameDirection(all, p, q)
  PROVE  Becomes(st, directionStep(st, p), st.first, st.kept)
<1> DEFINE new == directionStep(st, p)
<1>1. new = st
  BY DEF directionStep, IsState
<1> HIDE DEF new
<1>2. Becomes(st, new, st.first, st.kept)
  BY <1>1 DEF Becomes, IsState
<1>3. QED BY <1>2 DEF new

\* Which of two edges goes.
LEMMA WhoGoes ==
  ASSUME NEW mine \in Int, NEW other \in Int
  PROVE  /\ mine = other => dropped(mine, other) = "both"
         /\ other > mine => mine # other /\ dropped(mine, other) = "mine"
         /\ mine > other => mine # other /\ dropped(mine, other) = "other"
BY DEF dropped

\* An address that was seen in the other direction.
LEMMA TurnDecides ==
  ASSUME NEW all, NEW edges, NEW st, IsState(all, edges, st), NEW p, ~ st.failed, edges[p].mac # "",
         NEW q, q = st.first[edges[p].mac], q # 0, all[p].uplink # all[q].uplink,
         NEW mine \in Int, mine = topologySourcePriority(edges[p].source),
         NEW other \in Int, other = topologySourcePriority(edges[q].source)
  PROVE  LET new == directionStep(st, p) IN
         /\ (mine = other /\ mine > 1) => Fails(st, new)
         /\ (mine = other /\ ~ mine > 1) => Becomes(st, new, st.first, st.kept \ {p, q})
         /\ other > mine => Becomes(st, new, st.first, st.kept \ {p})
         /\ mine > other => Becomes(st, new, [st.first EXCEPT ![edges[p].mac] = p], st.kept \ {q})
<1> DEFINE mac == edges[p].mac
           new == directionStep(st, p)
           way == dropped(mine, other)
<1>1. new = conflictStep(st, p, q, mine, other) /\ st.edges = edges
  <2>1. st.edges = edges /\ st.ports = all
    BY DEF IsState
  <2>2. ~ sameDirection(st.ports, p, q)
    BY <2>1 DEF sameDirection
  <2>3. QED BY <2>1, <2>2 DEF directionStep
<1>2. /\ mine = other => way = "both"
      /\ other > mine => mine # other /\ way = "mine"
      /\ mine > other => mine # other /\ way = "other"
  BY WhoGoes
<1> HIDE DEF mac, new, way
<1>3. ASSUME mine = other, mine > 1 PROVE Fails(st, new)
  <2>1. new = [st EXCEPT !.failed = TRUE]
    BY <1>1, <1>3 DEF conflictStep
  <2>2. QED BY <2>1 DEF Fails, IsState, stateFields
<1>4. ASSUME mine = other, ~ mine > 1 PROVE Becomes(st, new, st.first, st.kept \ {p, q})
  <2>1. new = [st EXCEPT !.kept = @ \ {p, q}]
    BY <1>1, <1>2, <1>4 DEF conflictStep, way
  <2>2. QED BY <2>1 DEF Becomes, IsState, stateFields
<1>5. ASSUME other > mine PROVE Becomes(st, new, st.first, st.kept \ {p})
  <2>1. mine # other /\ way = "mine"
    BY <1>2, <1>5
  <2>2. new = [st EXCEPT !.kept = @ \ {p}]
    BY <1>1, <2>1 DEF conflictStep, way, mac
  <2>3. QED BY <2>2 DEF Becomes, IsState, stateFields
<1>6. ASSUME mine > other PROVE Becomes(st, new, [st.first EXCEPT ![mac] = p], st.kept \ {q})
  <2>1. mine # other /\ way = "other"
    BY <1>2, <1>6
  <2>2. new = [st EXCEPT !.kept = @ \ {q}, !.first[mac] = p]
    BY <1>1, <2>1 DEF conflictStep, way, mac
  <2>3. QED BY <2>2 DEF Becomes, IsState, stateFields
<1>7. QED BY <1>3, <1>4, <1>5, <1>6 DEF mac, new

\* A turn of the loop keeps its invariant.
LEMMA TurnInv ==
  ASSUME NEW all, NEW edges, AreEdges(edges), NEW u \in Port, \A p \in Port : all[p].uplink = (p = u),
         NEW p \in Port, NEW st, DirectionInv(all, edges, u, p - 1, st)
  PROVE  DirectionInv(all, edges, u, p, directionStep(st, p))
<1> DEFINE mac == edges[p].mac
           q == st.first[mac]
           mine == topologySourcePriority(edges[p].source)
           other == topologySourcePriority(edges[q].source)
           new == directionStep(st, p)
<1>1. IsState(all, edges, st) /\ FailsRightly(all, edges, p - 1, st)
  BY DEF DirectionInv
<1>2. /\ p \in Nat /\ p # 0 /\ 1 .. p \subseteq Port /\ 1 .. p - 1 \subseteq Port /\ p \notin 1 .. p - 1
      /\ 1 .. p - 1 \subseteq 1 .. p /\ p \in 1 .. p /\ \A r \in 1 .. p : r \in 1 .. p - 1 \/ r = p
  BY BridgeAssumption DEF Port
<1>3. mac \in macsOf(edges) /\ (mac # "" => mac \in macsOf(edges) \ {""})
  BY DEF macsOf
<1>4. \A r, s \in Port : (all[r].uplink = all[s].uplink) <=> ((r = u) <=> (s = u))
  OBVIOUS
<1>5. "lldp" \notin configSources
  BY DEF configSources
<1>6. \A r \in Port : edges[r].source = "lldp" => edges[r].mac # ""
  BY NobodyHasNoAddress DEF AreEdges, isNeighbor
<1>7. CASE st.failed
  <2>1. new = st
    BY <1>7, TurnSkips
  <2>2. FailsRightly(all, edges, p, st)
    BY <1>1, <1>7 DEF FailsRightly
  <2> HIDE DEF new
  <2>3. QED BY <1>1, <1>7, <2>1, <2>2 DEF DirectionInv, new
<1>8. CASE ~ st.failed /\ mac = ""
  <2>1. new = st
    <3>1. st.edges[p].mac = ""
      BY <1>1, <1>8 DEF IsState
    <3>2. QED BY <3>1, TurnSkips
  <2>2. Remembers(edges, p - 1, st) /\ KeepsConfigured(edges, st) /\ KeepsOneWay(edges, u, p - 1, st)
    BY <1>8 DEF DirectionInv
  <2>3. FailsRightly(all, edges, p, st)
    BY <1>1, <1>2, <1>8 DEF FailsRightly, Opposed
  <2>4. Remembers(edges, p, st)
    BY <1>2, <1>8, <2>2 DEF Remembers
  <2>5. KeepsOneWay(edges, u, p, st)
    BY <1>2, <1>6, <1>8, <2>2 DEF KeepsOneWay
  <2> HIDE DEF new
  <2>6. QED BY <1>1, <2>1, <2>2, <2>3, <2>4, <2>5 DEF DirectionInv, new
<1>9. CASE ~ st.failed /\ mac # ""
  <2>1. Remembers(edges, p - 1, st) /\ KeepsConfigured(edges, st) /\ KeepsOneWay(edges, u, p - 1, st)
    BY <1>9 DEF DirectionInv
  <2>2. /\ q = 0 => \A r \in 1 .. p - 1 : edges[r].mac # mac
        /\ q # 0 => q \in 1 .. p - 1 /\ edges[q].mac = mac /\ q \in Port /\ q # p
    <3>1. /\ q = 0 => \A r \in 1 .. p - 1 : edges[r].mac # mac
          /\ q # 0 => q \in 1 .. p - 1 /\ edges[q].mac = mac
      <4> HIDE DEF mac
      <4>1. QED BY <1>3, <1>9, <2>1 DEF Remembers
    <3> HIDE DEF q
    <3>2. QED BY <1>2, <3>1
  <2>3. (\A r \in Port : edges[r].source # "lldp") => \A r, s \in 1 .. p - 1 : ~ Opposed(all, edges, r, s)
    BY <1>1, <1>9 DEF FailsRightly
  <2>4. \/ edges[p].source \in configSources /\ mine = 2
        \/ edges[p].source = "lldp" /\ mine = 1
    BY <1>9, Priorities
  <2>5. q # 0 => \/ edges[q].source \in configSources /\ other = 2
                 \/ edges[q].source = "lldp" /\ other = 1
    BY <1>9, <2>2, Priorities
  <2>6. DOMAIN st.first = macsOf(edges)
    BY <1>1 DEF IsState
  <2> DEFINE noLLDP == \A r \in Port : edges[r].source # "lldp"
             agree == \A r, s \in 1 .. p : ~ Opposed(all, edges, r, s)
  <2> HIDE DEF mac, q, mine, other, new
  <2>7. ASSUME NEW now, now.first = [st.first EXCEPT ![mac] = p] PROVE Remembers(edges, p, now)
    <3> SUFFICES ASSUME NEW m \in macsOf(edges) \ {""}
                 PROVE  /\ now.first[m] = 0 => \A r \in 1 .. p : edges[r].mac # m
                        /\ now.first[m] # 0 => now.first[m] \in 1 .. p /\ edges[now.first[m]].mac = m
      BY DEF Remembers
    <3>1. CASE m = mac
      <4>1. now.first[m] = p
        BY <1>3, <2>6, <2>7, <3>1
      <4>2. QED BY <1>2, <3>1, <4>1 DEF mac
    <3>2. CASE m # mac
      <4>1. now.first[m] = st.first[m]
        BY <2>6, <2>7, <3>2
      <4>2. edges[p].mac # m
        BY <3>2 DEF mac
      <4>3. /\ st.first[m] = 0 => \A r \in 1 .. p - 1 : edges[r].mac # m
            /\ st.first[m] # 0 => st.first[m] \in 1 .. p - 1 /\ edges[st.first[m]].mac = m
        BY <2>1 DEF Remembers
      <4>4. QED BY <1>2, <4>1, <4>2, <4>3
    <3>3. QED BY <3>1, <3>2
  <2>8. ASSUME NEW now, now.first = st.first, q # 0 PROVE Remembers(edges, p, now)
    BY <1>2, <1>3, <2>1, <2>2, <2>8 DEF Remembers, mac, q
  <2>9. ASSUME q = 0 \/ all[p].uplink = all[q].uplink, noLLDP PROVE agree
    BY <1>2, <2>2, <2>3, <2>9 DEF Opposed, mac
  <2>10. ASSUME NEW now, NEW first, NEW kept, Becomes(st, now, first, kept), DOMAIN first = macsOf(edges),
                noLLDP => agree, Remembers(edges, p, now), KeepsConfigured(edges, now), KeepsOneWay(edges, u, p, now)
         PROVE  DirectionInv(all, edges, u, p, now)
    <3>1. IsState(all, edges, now)
      BY <1>1, <2>10 DEF IsState, Becomes
    <3>2. FailsRightly(all, edges, p, now)
      BY <2>10 DEF FailsRightly, Becomes
    <3>3. QED BY <2>10, <3>1, <3>2 DEF DirectionInv
  <2> DEFINE taken == [st.first EXCEPT ![mac] = p]
  <2>11. DOMAIN taken = macsOf(edges)
    BY <2>6
  <2>12. CASE q = 0
    <3>1. Becomes(st, new, taken, st.kept)
      BY <1>1, <1>9, <2>12, TurnRemembers DEF mac, q, new
    <3>2. new.first = taken /\ new.kept = st.kept
      BY <3>1 DEF Becomes
    <3>3. KeepsConfigured(edges, new)
      BY <2>1, <3>2 DEF KeepsConfigured
    <3>4. KeepsOneWay(edges, u, p, new)
      <4>1. SUFFICES ASSUME u \in 1 .. p, u \in st.kept, edges[u].source = "lldp"
                     PROVE  /\ taken[edges[u].mac] = u
                            /\ \A r \in 1 .. p : (r # u /\ edges[r].mac = edges[u].mac /\ edges[r].source = "lldp")
                                 => r \notin st.kept
        BY <3>2 DEF KeepsOneWay
      <4>2. CASE u = p
        BY <1>2, <1>3, <2>2, <2>6, <2>12, <4>2 DEF mac
      <4>3. CASE u # p
        <5>1. u \in 1 .. p - 1 /\ st.first[edges[u].mac] = u
          BY <1>2, <2>1, <4>1, <4>3 DEF KeepsOneWay
        <5>2. edges[u].mac # mac
          BY <2>2, <2>12, <5>1
        <5>3. taken[edges[u].mac] = u
          BY <2>6, <5>1, <5>2 DEF macsOf
        <5>4. QED BY <1>2, <2>1, <4>1, <5>1, <5>2, <5>3 DEF KeepsOneWay, mac
      <4>4. QED BY <4>2, <4>3
    <3> HIDE DEF taken
    <3>5. QED BY <2>7, <2>9, <2>10, <2>11, <2>12, <3>1, <3>2, <3>3, <3>4 DEF taken, new
  <2>13. CASE q # 0 /\ all[p].uplink = all[q].uplink
    <3>1. Becomes(st, new, st.first, st.kept)
      <4>1. ~ st.failed /\ edges[p].mac # "" /\ q = st.first[edges[p].mac]
        BY <1>9 DEF mac, q
      <4>2. q # 0 /\ sameDirection(all, p, q)
        BY <2>13 DEF sameDirection
      <4>3. QED BY <1>1, <4>1, <4>2, TurnAgrees DEF new
    <3>2. new.first = st.first /\ new.kept = st.kept
      BY <3>1 DEF Becomes
    <3>3. KeepsConfigured(edges, new)
      BY <2>1, <3>2 DEF KeepsConfigured
    <3>4. KeepsOneWay(edges, u, p, new)
      <4>1. p # u /\ q # u
        BY <1>4, <2>2, <2>13
      <4>2. SUFFICES ASSUME u \in 1 .. p, u \in st.kept, edges[u].source = "lldp"
                     PROVE  /\ st.first[edges[u].mac] = u
                            /\ \A r \in 1 .. p : (r # u /\ edges[r].mac = edges[u].mac /\ edges[r].source = "lldp")
                                 => r \notin st.kept
        BY <3>2 DEF KeepsOneWay
      <4>3. u \in 1 .. p - 1 /\ st.first[edges[u].mac] = u
        BY <1>2, <2>1, <4>1, <4>2 DEF KeepsOneWay
      <4>4. edges[u].mac # mac
        BY <4>1, <4>3 DEF q
      <4>5. QED BY <1>2, <2>1, <4>2, <4>3, <4>4 DEF KeepsOneWay, mac
    <3>5. QED BY <2>6, <2>8, <2>9, <2>10, <2>13, <3>1, <3>2, <3>3, <3>4 DEF new
  <2>14. CASE q # 0 /\ all[p].uplink # all[q].uplink
    <3>1. p \in Port /\ q \in Port /\ p # q /\ (p = u \/ q = u)
      BY <1>4, <2>2, <2>14
    <3>2. mine \in Int /\ other \in Int
      BY <2>4, <2>5, <2>14
    <3>3. /\ (mine = other /\ mine > 1) => Fails(st, new)
          /\ (mine = other /\ ~ mine > 1) => Becomes(st, new, st.first, st.kept \ {p, q})
          /\ other > mine => Becomes(st, new, st.first, st.kept \ {p})
          /\ mine > other => Becomes(st, new, taken, st.kept \ {q})
      BY <1>1, <1>9, <2>14, <3>2, TurnDecides DEF mac, q, mine, other, new
    <3>4. CASE edges[p].source \in configSources /\ edges[q].source \in configSources
      <4>1. Fails(st, new)
        BY <1>5, <2>4, <2>5, <2>14, <3>3, <3>4
      <4>2. IsState(all, edges, new) /\ new.failed
        BY <1>1, <4>1 DEF IsState, Fails
      <4>3. Opposed(all, edges, p, q) /\ bothConfigured(edges, p, q)
        BY <1>9, <2>2, <2>14, <3>4 DEF Opposed, bothConfigured, mac
      <4>4. FailsRightly(all, edges, p, new)
        BY <3>1, <4>2, <4>3 DEF FailsRightly
      <4>5. QED BY <4>2, <4>4 DEF DirectionInv, new
    <3>5. CASE edges[p].source = "lldp" /\ edges[q].source = "lldp"
      <4>1. Becomes(st, new, st.first, st.kept \ {p, q})
        BY <1>5, <2>4, <2>5, <2>14, <3>3, <3>5
      <4>2. new.first = st.first /\ new.kept = st.kept \ {p, q}
        BY <4>1 DEF Becomes
      <4>3. KeepsConfigured(edges, new)
        BY <1>5, <2>1, <3>5, <4>2 DEF KeepsConfigured
      <4>4. KeepsOneWay(edges, u, p, new)
        BY <3>1, <4>2 DEF KeepsOneWay
      <4>5. QED BY <2>6, <2>8, <2>10, <2>14, <3>1, <3>5, <4>1, <4>2, <4>3, <4>4 DEF new
    <3>6. CASE edges[p].source = "lldp" /\ edges[q].source \in configSources
      <4>1. Becomes(st, new, st.first, st.kept \ {p})
        BY <1>5, <2>4, <2>5, <2>14, <3>3, <3>6
      <4>2. new.first = st.first /\ new.kept = st.kept \ {p}
        BY <4>1 DEF Becomes
      <4>3. KeepsConfigured(edges, new)
        BY <1>5, <2>1, <3>6, <4>2 DEF KeepsConfigured
      <4>4. KeepsOneWay(edges, u, p, new)
        <5>1. u = q => edges[u].source # "lldp"
          BY <1>5, <3>6
        <5>2. QED BY <3>1, <4>2, <5>1 DEF KeepsOneWay
      <4>5. QED BY <2>6, <2>8, <2>10, <2>14, <3>1, <3>6, <4>1, <4>2, <4>3, <4>4 DEF new
    <3>7. CASE edges[p].source \in configSources /\ edges[q].source = "lldp"
      <4>1. Becomes(st, new, taken, st.kept \ {q})
        BY <1>5, <2>4, <2>5, <2>14, <3>3, <3>7
      <4>2. new.first = taken /\ new.kept = st.kept \ {q}
        BY <4>1 DEF Becomes
      <4>3. KeepsConfigured(edges, new)
        BY <1>5, <2>1, <3>7, <4>2 DEF KeepsConfigured
      <4>4. KeepsOneWay(edges, u, p, new)
        <5>1. u = p => edges[u].source # "lldp"
          BY <1>5, <3>7
        <5>2. QED BY <3>1, <4>2, <5>1 DEF KeepsOneWay
      <4> HIDE DEF taken
      <4>5. QED BY <2>7, <2>10, <2>11, <3>1, <3>7, <4>1, <4>2, <4>3, <4>4 DEF taken, new
    <3>8. QED BY <2>4, <2>5, <2>14, <3>4, <3>5, <3>6, <3>7
  <2>15. QED BY <2>12, <2>13, <2>14
<1>10. QED BY <1>7, <1>8, <1>9

\* What the ports are resolved to before the directions are compared.
edgesOf(all) == [p \in DOMAIN all |-> resolvePortNeighbor(all[p])]

\* The resolution of a table with one uplink.
LEMMA Directions ==
  ASSUME NEW all, IsTable(all), NEW u \in Port, \A p \in Port : all[p].uplink = (p = u)
  PROVE  /\ AreEdges(edgesOf(all))
         /\ DirectionInv(all, edgesOf(all), u, PortCount, resolveDirectionConflicts(all, edgesOf(all)))
<1> DEFINE edges == edgesOf(all)
           start == [ports |-> all, edges |-> edges, failed |-> FALSE,
                     first |-> [mac \in {edges[p].mac : p \in DOMAIN edges} |-> 0],
                     kept |-> {p \in DOMAIN edges : edges[p] # noNeighbor}]
           list == [p \in DOMAIN all |-> p]
           f == Directed!folded(start, list)
           K == {k \in 0 .. PortCount : DirectionInv(all, edges, u, k, f[k])}
<1>1. DOMAIN all = Port /\ Port = 1 .. PortCount /\ PortCount \in Nat
  BY BridgeAssumption DEF IsTable, Port
<1>2. DOMAIN edges = Port /\ \A p \in Port : edges[p] = resolvePortNeighbor(all[p])
  BY <1>1 DEF edgesOf
<1> HIDE DEF edges
<1>3. AreEdges(edges)
  <2>1. ASSUME NEW p \in Port PROVE edges[p] = noNeighbor \/ isNeighbor(edges[p])
    BY <1>2, ResolvedNeighbor DEF IsTable
  <2>2. QED BY <1>2, <2>1 DEF AreEdges
<1>4. Len(list) = PortCount /\ \A k \in 1 .. PortCount : list[k] = k
  BY <1>1
<1>5. resolveDirectionConflicts(all, edges) = f[PortCount]
  BY <1>4 DEF resolveDirectionConflicts, Directed!Fold
<1>6. DirectionInv(all, edges, u, 0, start)
  <2>1. IsState(all, edges, start)
    BY <1>2 DEF IsState, stateFields, macsOf
  <2>2. ~ start.failed
    OBVIOUS
  <2>3. FailsRightly(all, edges, 0, start)
    BY <2>2 DEF FailsRightly
  <2>4. Remembers(edges, 0, start)
    <3>1. \A m \in macsOf(edges) : start.first[m] = 0
      BY <1>2 DEF macsOf
    <3> HIDE DEF start
    <3>2. 1 .. 0 = {}
      OBVIOUS
    <3>3. SUFFICES ASSUME NEW m \in macsOf(edges) \ {""}
                   PROVE  /\ start.first[m] = 0 => \A p \in 1 .. 0 : edges[p].mac # m
                          /\ start.first[m] # 0 => start.first[m] \in 1 .. 0 /\ edges[start.first[m]].mac = m
      BY DEF Remembers
    <3>4. start.first[m] = 0
      BY <3>1
    <3>5. QED BY <3>2, <3>4
  <2>5. KeepsConfigured(edges, start)
    BY <1>2, NobodyHasNoAddress DEF KeepsConfigured, configSources
  <2>6. KeepsOneWay(edges, u, 0, start)
    BY DEF KeepsOneWay
  <2> HIDE DEF start
  <2>7. QED BY <2>1, <2>2, <2>3, <2>4, <2>5, <2>6 DEF DirectionInv
<1> HIDE DEF list, start
<1>7. f[0] = start /\ \A k \in 1 .. PortCount : f[k] = directionStep(f[k - 1], list[k])
  BY <1>1, <1>4, Directed!FoldedSteps
<1> HIDE DEF f
<1>8. 0 \in K
  BY <1>1, <1>6, <1>7
<1>9. ASSUME NEW k \in 1 .. PortCount, k - 1 \in K PROVE k \in K
  <2>1. DirectionInv(all, edges, u, k - 1, f[k - 1]) /\ f[k] = directionStep(f[k - 1], k) /\ k \in Port
    BY <1>1, <1>4, <1>7, <1>9
  <2>2. DirectionInv(all, edges, u, k, f[k])
    BY <1>3, <2>1, TurnInv
  <2>3. QED BY <1>1, <2>2
<1>10. PortCount \in K
  <2> HIDE DEF K
  <2>1. \A k \in 0 .. PortCount : k \in K
    BY <1>1, <1>8, <1>9, Directed!TurnByTurn
  <2>2. QED BY <1>1, <2>1
<1>11. QED BY <1>3, <1>5, <1>10 DEF edges

----------------------------------------------------------------------------
(* What LLDP adds.                                                         *)

\* One more element: it is picked last, or not at all.
LEMMA PickedAppend ==
  ASSUME NEW S, NEW list \in Seq(S), NEW x \in S, NEW T, T \subseteq DOMAIN list
  PROVE  /\ picked(Append(list, x), T) = picked(list, T)
         /\ picked(Append(list, x), T \cup {Len(list) + 1}) = Append(picked(list, T), x)
<1> DEFINE n == Len(list)
           longer == Append(list, x)
           part(l, places, k) == IF k \in places THEN <<l[k]>> ELSE <<>>
           parts(l, places) == [k \in DOMAIN l |-> part(l, places, k)]
           none == <<>>
           f(l, places) == Joined!folded(none, parts(l, places))
<1>1. /\ n \in Nat /\ DOMAIN list = 1 .. n /\ DOMAIN longer = 1 .. n + 1 /\ Len(longer) = n + 1
      /\ longer[n + 1] = x /\ \A k \in 1 .. n : longer[k] = list[k]
  BY LenProperties, AppendProperties
<1>2. ASSUME NEW l, NEW m \in Nat, DOMAIN l = 1 .. m, Len(l) = m, NEW places
      PROVE  /\ picked(l, places) = f(l, places)[m]
             /\ f(l, places)[0] = none
             /\ \A k \in 1 .. m : f(l, places)[k] = f(l, places)[k - 1] \o part(l, places, k)
  <2>1. Len(parts(l, places)) = m /\ \A k \in 1 .. m : parts(l, places)[k] = part(l, places, k)
    BY <1>2
  <2>2. picked(l, places) = f(l, places)[m]
    BY <2>1 DEF picked, Joined!Fold
  <2> HIDE DEF parts, part, none
  <2>3. /\ f(l, places)[0] = none
        /\ \A k \in 1 .. m : f(l, places)[k] = join(f(l, places)[k - 1], parts(l, places)[k])
    BY <2>1, Joined!FoldedSteps
  <2> HIDE DEF f
  <2>4. QED BY <2>1, <2>2, <2>3 DEF join
<1>3. /\ picked(list, T) = f(list, T)[n] /\ f(list, T)[0] = none
      /\ \A k \in 1 .. n : f(list, T)[k] = f(list, T)[k - 1] \o part(list, T, k)
  <2> HIDE DEF f, none, part
  <2>1. QED BY <1>1, <1>2
<1>4. ASSUME NEW more, more \in {T, T \cup {n + 1}}
      PROVE  picked(longer, more) = picked(list, T) \o part(longer, more, n + 1)
  <2> DEFINE K == {k \in 0 .. n : f(longer, more)[k] = f(list, T)[k]}
  <2>1. /\ picked(longer, more) = f(longer, more)[n + 1] /\ f(longer, more)[0] = none
        /\ \A k \in 1 .. n + 1 : f(longer, more)[k] = f(longer, more)[k - 1] \o part(longer, more, k)
    <3> DEFINE m == n + 1
    <3>1. m \in Nat /\ DOMAIN longer = 1 .. m /\ Len(longer) = m
      BY <1>1
    <3> HIDE DEF f, none, part, longer, m
    <3>2. /\ picked(longer, more) = f(longer, more)[m] /\ f(longer, more)[0] = none
          /\ \A k \in 1 .. m : f(longer, more)[k] = f(longer, more)[k - 1] \o part(longer, more, k)
      BY <1>2, <3>1
    <3>3. QED BY <3>2 DEF m
  <2>2. \A k \in 1 .. n : part(longer, more, k) = part(list, T, k)
    <3>1. \A k \in 1 .. n : (k \in more <=> k \in T) /\ longer[k] = list[k]
      BY <1>1, <1>4
    <3> HIDE DEF longer
    <3>2. QED BY <3>1
  <2> HIDE DEF f, none, part, longer
  <2>3. 0 \in K
    BY <1>1, <1>3, <2>1
  <2>4. ASSUME NEW k \in 1 .. n, k - 1 \in K PROVE k \in K
    <3>1. k \in 1 .. n + 1 /\ k \in 0 .. n
      BY <1>1
    <3>2. QED BY <1>3, <2>1, <2>2, <2>4, <3>1
  <2>5. n \in K
    <3> HIDE DEF K
    <3>1. \A k \in 0 .. n : k \in K
      BY <1>1, <2>3, <2>4, Joined!TurnByTurn
    <3>2. QED BY <1>1, <3>1
  <2>6. n + 1 \in 1 .. n + 1 /\ (n + 1) - 1 = n
    BY <1>1
  <2>7. QED BY <1>3, <2>1, <2>5, <2>6
<1>5. picked(list, T) \in Seq(S)
  <2> DEFINE R == {list[k] : k \in T \cap DOMAIN list}
  <2>1. picked(list, T) \in Seq(R)
    BY <1>1, PickedIsList DEF isList
  <2>2. R \subseteq S
    BY <1>1, ElementOfSeq
  <2> HIDE DEF R
  <2>3. QED BY <2>1, <2>2, SeqMonotonic
<1>6. part(longer, T, n + 1) = <<>> /\ part(longer, T \cup {n + 1}, n + 1) = <<x>>
  <2>1. n + 1 \notin T
    BY <1>1
  <2> HIDE DEF longer, n
  <2>2. QED BY <1>1, <2>1
<1> DEFINE before == picked(list, T)
<1>7. before \o <<>> = before /\ before \o <<x>> = Append(before, x)
  <2> HIDE DEF before
  <2>1. before \in Seq(S)
    BY <1>5 DEF before
  <2>2. QED BY <2>1
<1> HIDE DEF part, before, longer, n
<1>8. picked(longer, T) = before /\ picked(longer, T \cup {n + 1}) = Append(before, x)
  BY <1>4, <1>6, <1>7 DEF before
<1>9. QED BY <1>8 DEF before, longer, n

\* A port with one more neighbour: its configured ones.
LEMMA ConfiguredAppend ==
  ASSUME NEW port, areNeighbors(port.neighbors), NEW n, isNeighbor(n), NEW new,
         new.neighbors = Append(port.neighbors, n)
  PROVE  configuredOf(new) = IF n.source = "lldp" THEN configuredOf(port) ELSE Append(configuredOf(port), n)
<1> DEFINE list == port.neighbors
           T == DOMAIN list \ heardPlaces(port)
           more == DOMAIN new.neighbors \ heardPlaces(new)
<1>1. PICK S : list \in Seq(S)
  BY DEF areNeighbors
<1> DEFINE R == S \cup {n}
<1>2. list \in Seq(R) /\ n \in R
  <2>1. S \subseteq R /\ n \in R
    OBVIOUS
  <2> HIDE DEF R
  <2>2. QED BY <1>1, <2>1, SeqMonotonic
<1> HIDE DEF R
<1>3. /\ Len(list) \in Nat /\ DOMAIN list = 1 .. Len(list) /\ DOMAIN new.neighbors = 1 .. Len(list) + 1
      /\ new.neighbors[Len(list) + 1] = n /\ \A k \in 1 .. Len(list) : new.neighbors[k] = list[k]
  BY <1>2, LenProperties, AppendProperties
<1>4. more = IF n.source = "lldp" THEN T ELSE T \cup {Len(list) + 1}
  <2> DEFINE m == Len(list)
  <2>1. m \in Nat /\ m + 1 \notin 1 .. m /\ \A k : k \in 1 .. m + 1 <=> (k \in 1 .. m \/ k = m + 1)
    BY <1>3
  <2>2. \A k : k \in T <=> k \in 1 .. m /\ list[k].source # "lldp"
    BY <1>3 DEF heardPlaces
  <2>3. \A k : k \in more <=> k \in 1 .. m + 1 /\ new.neighbors[k].source # "lldp"
    BY <1>3 DEF heardPlaces
  <2> HIDE DEF m, T, more, list
  <2>4. \A k : k \in more <=> (k \in T \/ (k = m + 1 /\ n.source # "lldp"))
    BY <1>3, <2>1, <2>2, <2>3 DEF m
  <2>5. QED BY <2>4 DEF m
<1>5. T \subseteq DOMAIN list
  OBVIOUS
<1>6. configuredOf(port) = picked(list, T) /\ configuredOf(new) = picked(Append(list, n), more)
  BY DEF configuredOf
<1> HIDE DEF T, more, list
<1>7. /\ picked(Append(list, n), T) = picked(list, T)
      /\ picked(Append(list, n), T \cup {Len(list) + 1}) = Append(picked(list, T), n)
  BY <1>2, <1>5, PickedAppend
<1>8. CASE n.source = "lldp"
  BY <1>4, <1>6, <1>7, <1>8
<1>9. CASE n.source # "lldp"
  BY <1>4, <1>6, <1>7, <1>9
<1>10. QED BY <1>8, <1>9

\* A neighbour is added to one port, and only a configured one counts there.
LEMMA AddNeighborConfigured ==
  ASSUME NEW all, IsTable(all), NEW p \in Port, NEW n, isNeighbor(n), NEW r \in Port
  PROVE  LET new == addNeighbor(all, p, n) IN
         /\ new[r].neighbors = IF r = p THEN Append(all[r].neighbors, n) ELSE all[r].neighbors
         /\ configuredOf(new[r]) = IF r = p /\ n.source # "lldp" THEN Append(configuredOf(all[r]), n)
                                   ELSE configuredOf(all[r])
<1> DEFINE new == addNeighbor(all, p, n)
<1>1. new[r].neighbors = IF r = p THEN Append(all[r].neighbors, n) ELSE all[r].neighbors
  BY DEF addNeighbor, IsTable, portFields
<1> HIDE DEF new
<1>2. CASE r = p
  <2>1. areNeighbors(all[r].neighbors) /\ new[r].neighbors = Append(all[r].neighbors, n)
    BY <1>1, <1>2 DEF IsTable
  <2>2. configuredOf(new[r]) = IF n.source = "lldp" THEN configuredOf(all[r]) ELSE Append(configuredOf(all[r]), n)
    BY <2>1, ConfiguredAppend
  <2>3. QED BY <1>1, <1>2, <2>2 DEF new
<1>3. CASE r # p
  <2>1. configuredOf(new[r]) = configuredOf(all[r])
    BY <1>1, <1>3, SameNeighborsConfigured
  <2>2. QED BY <1>1, <1>3, <2>1 DEF new
<1>4. QED BY <1>2, <1>3

\* A configured neighbour is laid over two tables in the same way.
LEMMA OneNeighborAlike ==
  ASSUME NEW a, IsTable(a), NEW b, IsTable(b), SameConfigured(b, a), NEW o
  PROVE  SameConfigured(applyNeighbor(b, o), applyNeighbor(a, o))
<1> DEFINE n == neighborOf(o.mac, "config-port", o.remote)
<1>1. isNeighbor(n) /\ n.source # "lldp"
  BY DEF isNeighbor, neighborOf, configSources
<1>2. DOMAIN a = Port /\ DOMAIN b = Port
  BY DEF IsTable
<1>3. CASE o.port \notin Port
  BY <1>2, <1>3 DEF applyNeighbor
<1>4. CASE o.port \in Port /\ o.client
  <2>1. ASSUME NEW all, IsTable(all), NEW p \in Port
        PROVE  configuredOf(applyNeighbor(all, o)[p]) = configuredOf(all[p])
    <3>1. applyNeighbor(all, o) = [all EXCEPT ![o.port].macs = @ \cup {o.mac}]
      BY <1>4, <2>1 DEF applyNeighbor, IsTable
    <3>2. applyNeighbor(all, o)[p].neighbors = all[p].neighbors
      BY <1>4, <2>1, <3>1 DEF IsTable, portFields
    <3>3. QED BY <3>2, SameNeighborsConfigured
  <2>2. QED BY <2>1 DEF SameConfigured
<1>5. CASE o.port \in Port /\ ~ o.client
  <2>1. applyNeighbor(a, o) = addNeighbor(a, o.port, n) /\ applyNeighbor(b, o) = addNeighbor(b, o.port, n)
    BY <1>2, <1>5 DEF applyNeighbor
  <2> HIDE DEF n
  <2>2. ASSUME NEW p \in Port PROVE configuredOf(applyNeighbor(a, o)[p]) = configuredOf(applyNeighbor(b, o)[p])
    <3>1. /\ configuredOf(addNeighbor(a, o.port, n)[p]) =
               IF p = o.port /\ n.source # "lldp" THEN Append(configuredOf(a[p]), n) ELSE configuredOf(a[p])
          /\ configuredOf(addNeighbor(b, o.port, n)[p]) =
               IF p = o.port /\ n.source # "lldp" THEN Append(configuredOf(b[p]), n) ELSE configuredOf(b[p])
      BY <1>1, <1>5, AddNeighborConfigured
    <3>2. configuredOf(a[p]) = configuredOf(b[p])
      BY DEF SameConfigured
    <3>3. QED BY <2>1, <3>1, <3>2
  <2>3. QED BY <2>2 DEF SameConfigured
<1>6. QED BY <1>3, <1>4, <1>5

\* Nor has it with one more that is configured.
LEMMA AddNeighborNotHeard ==
  ASSUME NEW all, IsTable(all), NoneHeard(all), NEW p \in Port, NEW n, isNeighbor(n), n.source \in configSources
  PROVE  NoneHeard(addNeighbor(all, p, n))
<1> SUFFICES ASSUME NEW r \in Port, NEW k \in DOMAIN addNeighbor(all, p, n)[r].neighbors
             PROVE  addNeighbor(all, p, n)[r].neighbors[k].source \in configSources
  BY DEF NoneHeard
<1>1. addNeighbor(all, p, n)[r].neighbors = IF r = p THEN Append(all[r].neighbors, n) ELSE all[r].neighbors
  BY AddNeighborConfigured
<1> DEFINE list == all[r].neighbors
<1>2. \A j \in DOMAIN list : list[j].source \in configSources
  BY DEF NoneHeard
<1>3. CASE r # p
  BY <1>1, <1>2, <1>3
<1>4. CASE r = p
  <2>1. PICK S : list \in Seq(S)
    BY DEF IsTable, areNeighbors
  <2> DEFINE R == S \cup {n}
  <2>2. S \subseteq R /\ n \in R
    OBVIOUS
  <2> HIDE DEF R, list
  <2>3. list \in Seq(R)
    BY <2>1, <2>2, SeqMonotonic
  <2>4. /\ Len(list) \in Nat /\ DOMAIN list = 1 .. Len(list) /\ DOMAIN Append(list, n) = 1 .. Len(list) + 1
        /\ Append(list, n)[Len(list) + 1] = n /\ \A j \in 1 .. Len(list) : Append(list, n)[j] = list[j]
    BY <2>2, <2>3, LenProperties, AppendProperties
  <2>5. k \in DOMAIN Append(list, n) /\ addNeighbor(all, p, n)[r].neighbors[k] = Append(list, n)[k]
    BY <1>1, <1>4 DEF list
  <2>6. CASE k = Len(list) + 1
    BY <2>4, <2>5, <2>6
  <2>7. CASE k # Len(list) + 1
    <3>1. k \in 1 .. Len(list)
      BY <2>4, <2>5, <2>7
    <3>2. QED BY <1>2, <2>4, <2>5, <3>1
  <2>8. QED BY <2>6, <2>7
<1>5. QED BY <1>3, <1>4

\* Without LLDP no edge is a heard one.
LEMMA NoneHeardEdges ==
  ASSUME NEW all, IsTable(all), NoneHeard(all), NEW p \in Port
  PROVE  resolvePortNeighbor(all[p]).source # "lldp"
<1> DEFINE list == all[p].neighbors
           heard == lldpOf(all[p])
<1>1. areNeighbors(list) /\ \A k \in DOMAIN list : list[k].source \in configSources
  BY DEF IsTable, NoneHeard
<1>2. heard = picked(list, heardPlaces(all[p])) /\ heardPlaces(all[p]) \cap DOMAIN list = {}
  BY <1>1 DEF lldpOf, heardPlaces, configSources
<1>3. areNeighbors(heard) /\ \A j \in DOMAIN heard : \E k \in heardPlaces(all[p]) \cap DOMAIN list : heard[j] = list[k]
  <2> HIDE DEF list
  <2>1. QED BY <1>1, <1>2, PickedNeighbors
<1> HIDE DEF heard, list
<1>4. DOMAIN heard = {}
  BY <1>2, <1>3
<1>5. DOMAIN heard = 1 .. Len(heard) /\ Len(heard) \in Nat
  BY <1>3, NeighborsAreList DEF isList
<1>6. Len(heard) = 0
  BY <1>4, <1>5
<1>7. QED BY <1>1, <1>6, ResolvedNeighbor DEF heard, list

\* A resolution that fails with what LLDP adds failed without it.
LEMMA FailsWithout ==
  ASSUME NEW a, IsTable(a), NEW b, IsTable(b), SameUplink(b, a), SameConfigured(b, a), NoneHeard(b), OneUplink(b),
         ~ ResolveTopology(b).failed
  PROVE  ~ ResolveTopology(a).failed
<1>1. PICK u \in Port : \A p \in Port : b[p].uplink = (p = u)
  BY DEF OneUplink
<1>2. \A p \in Port : a[p].uplink = (p = u)
  BY <1>1 DEF SameUplink
<1> DEFINE ea == edgesOf(a)
           eb == edgesOf(b)
           ra == resolveDirectionConflicts(a, ea)
           rb == resolveDirectionConflicts(b, eb)
           conflict(all) == \E p \in Port : portConflict(all[p])
<1>3. DOMAIN a = Port /\ DOMAIN b = Port
  BY DEF IsTable
<1>4. /\ ResolveTopology(a).failed = (conflict(a) \/ ra.failed)
      /\ ResolveTopology(b).failed = (conflict(b) \/ rb.failed)
  <2> HIDE DEF ra, rb
  <2>1. ResolveTopology(a) = topologyOf(a, ea, ra) /\ ResolveTopology(b) = topologyOf(b, eb, rb)
    BY DEF ResolveTopology, resolveEdges, edgesOf, ra, rb
  <2> HIDE DEF ea, eb
  <2>2. topologyOf(a, ea, ra).failed = (conflict(a) \/ ra.failed)
    BY <1>3 DEF topologyOf
  <2>3. topologyOf(b, eb, rb).failed = (conflict(b) \/ rb.failed)
    BY <1>3 DEF topologyOf
  <2> HIDE DEF conflict
  <2>4. QED BY <2>1, <2>2, <2>3
<1>5. conflict(a) <=> conflict(b)
  BY DEF SameConfigured, portConflict
<1>6. /\ DirectionInv(a, ea, u, PortCount, ra) /\ AreEdges(ea)
      /\ DirectionInv(b, eb, u, PortCount, rb) /\ AreEdges(eb)
  BY <1>1, <1>2, Directions
<1>7. /\ \A p \in Port : ea[p] = resolvePortNeighbor(a[p])
      /\ \A p \in Port : eb[p] = resolvePortNeighbor(b[p])
  BY <1>3 DEF edgesOf
<1> HIDE DEF conflict, ra, rb, ea, eb
<1>8. ~ rb.failed /\ ~ conflict(a)
  BY <1>4, <1>5
<1>9. \A p, q \in Port : ~ Opposed(b, eb, p, q)
  <2>1. \A p \in Port : eb[p].source # "lldp"
    BY <1>7, NoneHeardEdges
  <2>2. QED BY <1>6, <1>8, <2>1 DEF DirectionInv, FailsRightly, Port
<1>10. ASSUME NEW p \in Port, ea[p].source \in configSources
       PROVE  ea[p].mac = eb[p].mac
  <2>1. areNeighbors(a[p].neighbors) /\ areNeighbors(b[p].neighbors)
    BY DEF IsTable
  <2>2. Len(configuredOf(a[p])) # 0 /\ ea[p].mac = configuredOf(a[p])[1].mac
    BY <1>7, <1>10, <2>1, ResolvedNeighbor
  <2>3. configuredOf(b[p]) = configuredOf(a[p])
    BY DEF SameConfigured
  <2>4. eb[p].mac = configuredOf(b[p])[1].mac
    BY <1>7, <2>1, <2>2, <2>3, ResolvedNeighbor
  <2>5. QED BY <2>2, <2>3, <2>4
<1>11. ~ ra.failed
  <2>1. SUFFICES ASSUME ra.failed PROVE FALSE
    OBVIOUS
  <2>2. PICK p, q \in Port : Opposed(a, ea, p, q) /\ bothConfigured(ea, p, q)
    BY <1>6, <2>1 DEF DirectionInv, FailsRightly
  <2>3. ea[p].mac = eb[p].mac /\ ea[q].mac = eb[q].mac
    BY <1>10, <2>2 DEF bothConfigured
  <2>4. a[p].uplink = b[p].uplink /\ a[q].uplink = b[q].uplink
    BY DEF SameUplink
  <2>5. Opposed(b, eb, p, q)
    BY <2>2, <2>3, <2>4 DEF Opposed
  <2>6. QED BY <1>9, <2>5
<1>12. QED BY <1>4, <1>8, <1>11

----------------------------------------------------------------------------
(* What is laid over the ports.                                            *)

\* A neighbour is added to a port and leaves the marker alone.
LEMMA AddNeighborKeeps ==
  ASSUME NEW all, IsTable(all), NEW p \in Port, NEW n, isNeighbor(n)
  PROVE  IsTable(addNeighbor(all, p, n)) /\ SameUplink(all, addNeighbor(all, p, n))
<1>1. areNeighbors(Append(all[p].neighbors, n))
  BY OneMoreNeighbor DEF IsTable
<1>2. QED BY <1>1 DEF IsTable, SameUplink, addNeighbor, portFields

\* A configured neighbour leaves the marker alone.
LEMMA OneNeighborKeeps ==
  ASSUME NEW b, IsTable(b), NEW o, NEW new, new = applyNeighbor(b, o)
  PROVE  IsTable(new) /\ SameUplink(b, new) /\ (NoneHeard(b) => NoneHeard(new))
<1>1. CASE o.port \notin Port
  BY <1>1 DEF applyNeighbor, IsTable, SameUplink
<1>2. CASE o.port \in Port /\ o.client
  <2>1. new = [b EXCEPT ![o.port].macs = @ \cup {o.mac}]
    BY <1>2 DEF applyNeighbor, IsTable
  <2>2. IsTable(new) /\ SameUplink(b, new)
    BY <1>2, <2>1 DEF IsTable, SameUplink, portFields
  <2>3. \A p \in Port : new[p].neighbors = b[p].neighbors
    BY <1>2, <2>1 DEF IsTable, portFields
  <2>4. QED BY <2>2, <2>3 DEF NoneHeard
<1>3. CASE o.port \in Port /\ ~ o.client
  <2>1. new = addNeighbor(b, o.port, neighborOf(o.mac, "config-port", o.remote))
    BY <1>3 DEF applyNeighbor, IsTable
  <2> DEFINE n == neighborOf(o.mac, "config-port", o.remote)
  <2>2. isNeighbor(n) /\ n.source \in configSources
    BY DEF isNeighbor, neighborOf, configSources
  <2> HIDE DEF n
  <2>3. IsTable(new) /\ SameUplink(b, new)
    BY <1>3, <2>1, <2>2, AddNeighborKeeps DEF n
  <2>4. NoneHeard(b) => NoneHeard(new)
    BY <1>3, <2>1, <2>2, AddNeighborNotHeard DEF n
  <2>5. QED BY <2>3, <2>4
<1>4. QED BY <1>1, <1>2, <1>3

\* The configured neighbours of the ports leave the marker alone.
LEMMA NeighborsKeep ==
  ASSUME NEW all, IsTable(all), NEW list, Len(list) \in Nat
  PROVE  LET new == ApplyPortNeighbors(all, list) IN
         IsTable(new) /\ SameUplink(all, new) /\ (NoneHeard(all) => NoneHeard(new))
<1> DEFINE n == Len(list)
           f == Neighbored!folded(all, list)
           K == {k \in 0 .. n : IsTable(f[k]) /\ SameUplink(all, f[k]) /\ (NoneHeard(all) => NoneHeard(f[k]))}
<1>1. f[0] = all /\ \A k \in 1 .. n : f[k] = applyNeighbor(f[k - 1], list[k])
  BY Neighbored!FoldedSteps
<1>2. ApplyPortNeighbors(all, list) = f[n]
  BY DEF ApplyPortNeighbors, Neighbored!Fold
<1> HIDE DEF f
<1>3. 0 \in K
  BY <1>1 DEF SameUplink
<1>4. ASSUME NEW k \in 1 .. n, k - 1 \in K PROVE k \in K
  <2> DEFINE b == f[k - 1]
             o == list[k]
  <2>1. f[k] = applyNeighbor(b, o) /\ IsTable(b) /\ SameUplink(all, b) /\ (NoneHeard(all) => NoneHeard(b))
    BY <1>1, <1>4
  <2> HIDE DEF b, o
  <2>2. IsTable(f[k]) /\ SameUplink(b, f[k]) /\ (NoneHeard(b) => NoneHeard(f[k]))
    BY <2>1, OneNeighborKeeps
  <2>3. QED BY <2>1, <2>2 DEF SameUplink
<1>5. n \in K
  <2> HIDE DEF K
  <2>1. \A k \in 0 .. n : k \in K
    BY <1>3, <1>4, Neighbored!TurnByTurn
  <2>2. QED BY <2>1
<1>6. QED BY <1>2, <1>5

\* They are laid over two tables in the same way.
LEMMA NeighborsAlike ==
  ASSUME NEW a, IsTable(a), NEW b, IsTable(b), SameConfigured(b, a), NEW list, Len(list) \in Nat
  PROVE  SameConfigured(ApplyPortNeighbors(b, list), ApplyPortNeighbors(a, list))
<1> DEFINE n == Len(list)
           f == Neighbored!folded(a, list)
           g == Neighbored!folded(b, list)
           K == {k \in 0 .. n : IsTable(f[k]) /\ IsTable(g[k]) /\ SameConfigured(g[k], f[k])}
<1>1. /\ f[0] = a /\ \A k \in 1 .. n : f[k] = applyNeighbor(f[k - 1], list[k])
      /\ g[0] = b /\ \A k \in 1 .. n : g[k] = applyNeighbor(g[k - 1], list[k])
  BY Neighbored!FoldedSteps
<1>2. ApplyPortNeighbors(a, list) = f[n] /\ ApplyPortNeighbors(b, list) = g[n]
  BY DEF ApplyPortNeighbors, Neighbored!Fold
<1> HIDE DEF f, g
<1>3. 0 \in K
  BY <1>1
<1>4. ASSUME NEW k \in 1 .. n, k - 1 \in K PROVE k \in K
  <2>1. /\ f[k] = applyNeighbor(f[k - 1], list[k]) /\ IsTable(f[k - 1])
        /\ g[k] = applyNeighbor(g[k - 1], list[k]) /\ IsTable(g[k - 1]) /\ SameConfigured(g[k - 1], f[k - 1])
    BY <1>1, <1>4
  <2>2. IsTable(f[k]) /\ IsTable(g[k])
    BY <2>1, OneNeighborKeeps
  <2>3. SameConfigured(g[k], f[k])
    BY <2>1, OneNeighborAlike
  <2>4. QED BY <2>2, <2>3
<1>5. n \in K
  <2> HIDE DEF K
  <2>1. \A k \in 0 .. n : k \in K
    BY <1>3, <1>4, Neighbored!TurnByTurn
  <2>2. QED BY <2>1
<1>6. QED BY <1>2, <1>5

\* A neighbour that was heard is no configured one.
LEMMA HeardKeepsConfigured ==
  ASSUME NEW all, IsTable(all), NEW q \in Port, NEW n, isNeighbor(n), n.source = "lldp"
  PROVE  SameConfigured(all, addNeighbor(all, q, n))
<1>1. ASSUME NEW p \in Port PROVE configuredOf(addNeighbor(all, q, n)[p]) = configuredOf(all[p])
  <2>1. configuredOf(addNeighbor(all, q, n)[p]) =
          IF p = q /\ n.source # "lldp" THEN Append(configuredOf(all[p]), n) ELSE configuredOf(all[p])
    BY AddNeighborConfigured
  <2>2. QED BY <2>1
<1>2. QED BY <1>1 DEF SameConfigured

\* What LLDP hears leaves the marker alone.
LEMMA HeardKeeps ==
  ASSUME NEW all, IsTable(all), NEW bindings, NEW heard, isList(heard)
  PROVE  LET new == applyLLDPNeighbors(all, bindings, heard) IN
         IsTable(new) /\ SameUplink(all, new) /\ SameConfigured(all, new)
<1> DEFINE list == [k \in DOMAIN heard |-> [port |-> lldpInterfacePortMap(bindings, heard[k].interface),
                                            mac |-> heard[k].mac, remote |-> heard[k].remote]]
           n == Len(list)
           f == Listened!folded(all, list)
           K == {k \in 0 .. n : IsTable(f[k]) /\ SameUplink(all, f[k]) /\ SameConfigured(all, f[k])}
<1>0. n \in Nat
  BY DEF isList
<1>1. applyLLDPNeighbors(all, bindings, heard) = f[n]
  BY DEF applyLLDPNeighbors, Listened!Fold
<1> HIDE DEF list
<1>2. f[0] = all /\ \A k \in 1 .. n : f[k] = applyHeard(f[k - 1], list[k])
  BY <1>0, Listened!FoldedSteps
<1> HIDE DEF f
<1>3. 0 \in K
  BY <1>0, <1>2 DEF SameUplink, SameConfigured
<1>4. ASSUME NEW k \in 1 .. n, k - 1 \in K PROVE k \in K
  <2> DEFINE b == f[k - 1]
             o == list[k]
  <2>1. f[k] = applyHeard(b, o) /\ IsTable(b) /\ SameUplink(all, b) /\ SameConfigured(all, b)
    BY <1>2, <1>4
  <2> HIDE DEF b, o
  <2>2. IsTable(f[k]) /\ SameUplink(b, f[k]) /\ SameConfigured(b, f[k])
    <3>1. CASE o.port \notin Port \/ o.mac = ""
      BY <2>1, <3>1 DEF applyHeard, IsTable, SameUplink, SameConfigured
    <3>2. CASE o.port \in Port /\ o.mac # ""
      <4>1. f[k] = addNeighbor(b, o.port, neighborOf(o.mac, "lldp", o.remote))
        BY <2>1, <3>2 DEF applyHeard, IsTable
      <4> DEFINE new == neighborOf(o.mac, "lldp", o.remote)
      <4>2. isNeighbor(new) /\ new.source = "lldp"
        BY <3>2 DEF isNeighbor, neighborOf, configSources
      <4> HIDE DEF new
      <4>3. IsTable(f[k]) /\ SameUplink(b, f[k])
        BY <2>1, <3>2, <4>1, <4>2, AddNeighborKeeps DEF new
      <4>4. SameConfigured(b, f[k])
        BY <2>1, <3>2, <4>1, <4>2, HeardKeepsConfigured DEF new
      <4>5. QED BY <4>3, <4>4
    <3>3. QED BY <3>1, <3>2
  <2>3. QED BY <2>1, <2>2 DEF SameUplink, SameConfigured
<1>5. n \in K
  <2> HIDE DEF K
  <2>1. \A k \in 0 .. n : k \in K
    BY <1>0, <1>3, <1>4, Listened!TurnByTurn
  <2>2. QED BY <2>1
<1>6. QED BY <1>1, <1>5

\* A list made of the elements of another has its length.
LEMMA MappedList ==
  ASSUME NEW list, NEW S, list \in Seq(S)
  PROVE  DOMAIN list = 1 .. Len(list) /\ Len(list) \in Nat
BY LenProperties

\* The uplink's neighbour leaves the marker alone.
LEMMA UplinkNeighborKeeps ==
  ASSUME NEW all, IsTable(all), NEW mac, NEW remote
  PROVE  /\ IsTable(ApplyUplinkNeighbor(all, mac, remote))
         /\ SameUplink(all, ApplyUplinkNeighbor(all, mac, remote))
         /\ NoneHeard(all) => NoneHeard(ApplyUplinkNeighbor(all, mac, remote))
<1> DEFINE u == CHOOSE p \in DOMAIN all : all[p].uplink
<1>1. CASE mac = "" \/ ~ \E p \in DOMAIN all : all[p].uplink
  BY <1>1 DEF ApplyUplinkNeighbor, SameUplink
<1>2. CASE mac # "" /\ \E p \in DOMAIN all : all[p].uplink
  <2>1. u \in Port
    BY <1>2 DEF IsTable
  <2>2. ApplyUplinkNeighbor(all, mac, remote) = addNeighbor(all, u, neighborOf(mac, "config-uplink", remote))
    BY <1>2 DEF ApplyUplinkNeighbor
  <2> DEFINE n == neighborOf(mac, "config-uplink", remote)
  <2>3. isNeighbor(n) /\ n.source \in configSources
    BY DEF isNeighbor, neighborOf, configSources
  <2> HIDE DEF u, n
  <2>4. QED BY <2>1, <2>2, <2>3, AddNeighborKeeps, AddNeighborNotHeard DEF n
<1>3. QED BY <1>1, <1>2

\* It is added to two tables in the same way.
LEMMA UplinkNeighborAlike ==
  ASSUME NEW a, IsTable(a), NEW b, IsTable(b), SameUplink(b, a), SameConfigured(b, a), OneUplink(b),
         NEW mac, NEW remote
  PROVE  SameConfigured(ApplyUplinkNeighbor(b, mac, remote), ApplyUplinkNeighbor(a, mac, remote))
<1> DEFINE n == neighborOf(mac, "config-uplink", remote)
<1>1. isNeighbor(n) /\ n.source # "lldp"
  BY DEF isNeighbor, neighborOf, configSources
<1>2. PICK u \in Port : \A p \in Port : b[p].uplink = (p = u)
  BY DEF OneUplink
<1>3. \A p \in Port : a[p].uplink = (p = u)
  BY <1>2 DEF SameUplink
<1>4. ASSUME NEW all, IsTable(all), \A p \in Port : all[p].uplink = (p = u)
      PROVE  ApplyUplinkNeighbor(all, mac, remote) = IF mac = "" THEN all ELSE addNeighbor(all, u, n)
  <2>1. (\E p \in DOMAIN all : all[p].uplink) /\ (CHOOSE p \in DOMAIN all : all[p].uplink) = u
    BY <1>4 DEF IsTable
  <2>2. QED BY <2>1 DEF ApplyUplinkNeighbor
<1> HIDE DEF n
<1>5. CASE mac = ""
  <2>1. ApplyUplinkNeighbor(a, mac, remote) = a /\ ApplyUplinkNeighbor(b, mac, remote) = b
    BY <1>2, <1>3, <1>4, <1>5
  <2>2. QED BY <2>1
<1>6. CASE mac # ""
  <2>1. /\ ApplyUplinkNeighbor(a, mac, remote) = addNeighbor(a, u, n)
        /\ ApplyUplinkNeighbor(b, mac, remote) = addNeighbor(b, u, n)
    BY <1>2, <1>3, <1>4, <1>6
  <2>2. ASSUME NEW p \in Port PROVE configuredOf(addNeighbor(a, u, n)[p]) = configuredOf(addNeighbor(b, u, n)[p])
    <3>1. /\ configuredOf(addNeighbor(a, u, n)[p]) =
               IF p = u /\ n.source # "lldp" THEN Append(configuredOf(a[p]), n) ELSE configuredOf(a[p])
          /\ configuredOf(addNeighbor(b, u, n)[p]) =
               IF p = u /\ n.source # "lldp" THEN Append(configuredOf(b[p]), n) ELSE configuredOf(b[p])
      BY <1>1, AddNeighborConfigured
    <3>2. configuredOf(a[p]) = configuredOf(b[p])
      BY DEF SameConfigured
    <3>3. QED BY <3>1, <3>2
  <2>3. QED BY <2>1, <2>2 DEF SameConfigured
<1>7. QED BY <1>5, <1>6

\* The host's part leaves the marker alone.
LEMMA ObservedKeeps ==
  ASSUME PlanType(plan), NEW mapped, NEW built, IsTable(built)
  PROVE  LET new == observed(built, mapped) IN
         IsTable(new) /\ SameUplink(built, new) /\ SameConfigured(built, new)
<1>1. CASE plan.mode = "port-map"
  <2> DEFINE T == {p \in DOMAIN plan.mapping : plan.mapping[p] # "unmapped"}
             numbers == [p \in DOMAIN plan.mapping |-> p]
             list == OverridesFromObservation(plan.mapping,
                       [p \in Port |-> ObserveInterface(plan.mapping[p], mapped[p])])
  <2>1. isList(numbers)
    BY DEF PlanType, isList
  <2>2. DOMAIN picked(numbers, T) = 1 .. Len(picked(numbers, T)) /\ Len(picked(numbers, T)) \in Nat
    <3> HIDE DEF numbers, T
    <3>1. QED BY <2>1, PickedIsList, MappedList
  <2>3. DOMAIN list = DOMAIN picked(numbers, T) /\ list = [k \in DOMAIN list |-> list[k]]
    BY DEF OverridesFromObservation
  <2> HIDE DEF numbers, T, list
  <2>4. Len(list) \in Nat
    BY <2>2, <2>3
  <2>5. observed(built, mapped) = ApplyPortOverrides(built, list)
    BY <1>1 DEF observed, list, bridgeModes
  <2>6. QED BY <2>4, <2>5, OverridesKeep
<1>2. CASE plan.mode \in bridgeModes
  <2>1. observed(built, mapped) = [p \in Port |-> observedPort(built[p], ports[p])]
    BY <1>2 DEF observed, bridgeModes
  <2>2. ASSUME NEW port, DOMAIN port = portFields, NEW seen
        PROVE  /\ DOMAIN observedPort(port, seen) = portFields /\ observedPort(port, seen).uplink = port.uplink
               /\ observedPort(port, seen).neighbors = port.neighbors
    BY <2>2 DEF observedPort, portFields
  <2>3. IsTable(observed(built, mapped)) /\ SameUplink(built, observed(built, mapped))
    BY <2>1, <2>2 DEF IsTable, SameUplink
  <2>4. \A p \in Port : observed(built, mapped)[p].neighbors = built[p].neighbors
    BY <2>1, <2>2 DEF IsTable
  <2>5. QED BY <2>3, <2>4, SameNeighborsConfigured DEF SameConfigured
<1>3. CASE plan.mode # "port-map" /\ plan.mode \notin bridgeModes
  <2>1. observed(built, mapped) = built
    BY <1>3 DEF observed
  <2>2. QED BY <2>1 DEF SameUplink, SameConfigured
<1>4. QED BY <1>1, <1>2, <1>3

\* The results of the probes leave the marker alone.
LEMMA ProbesKeep ==
  ASSUME PlanType(plan), NEW all, IsTable(all), NEW enriched, NEW alive
  PROVE  LET new == applyWANHealth(all, plan, enriched, alive) IN
         IsTable(new) /\ SameUplink(all, new) /\ SameConfigured(all, new)
<1> DEFINE targets == probeTargets(plan.targets, all, enriched)
           list == WANHealthOverrides(targets, alive)
<1>1. isList(plan.targets)
  BY DEF PlanType
<1>2. DOMAIN targets = 1 .. Len(targets) /\ Len(targets) \in Nat
  BY <1>1, PickedIsList, MappedList DEF probeTargets
<1>3. DOMAIN list = DOMAIN targets /\ list = [k \in DOMAIN list |-> list[k]]
  BY DEF WANHealthOverrides
<1>4. applyWANHealth(all, plan, enriched, alive) \in {all, ApplyPortOverrides(all, list)}
  BY DEF applyWANHealth
<1> HIDE DEF targets, list
<1>5. Len(list) \in Nat
  BY <1>2, <1>3
<1>6. SameUplink(all, all) /\ SameConfigured(all, all)
  BY DEF SameUplink, SameConfigured
<1>7. QED BY <1>4, <1>5, <1>6, OverridesKeep

\* What validateTopologyNeighbors accepts.
Resolvable(pl) == validateTopologyNeighbors(builtPorts(pl), pl.neighbors, pl.uplinkNeighbor)

\* The ports of every heartbeat are a table with one uplink, and the topology of
\* a configuration that was accepted at startup can be resolved
\* (portsForRuntime).
LEMMA RuntimePorts ==
  ASSUME PlanType(plan), Resolvable(plan), NEW enriched, Len(enriched) \in Nat, NEW mapped,
         NEW heard, isList(heard), NEW alive, NEW rated,
         rated = withRates(portsForRuntime(enriched, mapped, heard, alive))
  PROVE  IsTable(rated) /\ OneUplink(rated) /\ ~ ResolveTopology(rated).failed
<1> DEFINE built == builtPorts(plan)
           seen == observed(built, mapped)
           set == withOverrides(seen, enriched)
           probed == applyWANHealth(set, plan, enriched, alive)
           listened == withLLDP(probed, heard)
           told == ApplyPortNeighbors(listened, plan.neighbors)
           all == ApplyUplinkNeighbor(told, plan.uplinkNeighbor, 0)
           tried == ApplyPortNeighbors(built, plan.neighbors)
           accepted == ApplyUplinkNeighbor(tried, plan.uplinkNeighbor, 0)
<1>1. rated = withRates(all)
  BY DEF portsForRuntime, withNeighbors
<1>2. IsTable(built) /\ OneUplink(built) /\ NoneHeard(built)
  BY BuiltPorts
<1>3. IsTable(seen) /\ SameUplink(built, seen) /\ SameConfigured(built, seen)
  BY <1>2, ObservedKeeps
<1>4. IsTable(set) /\ SameUplink(seen, set) /\ SameConfigured(seen, set)
  BY <1>3, OverridesKeep DEF withOverrides
<1>5. IsTable(probed) /\ SameUplink(set, probed) /\ SameConfigured(set, probed)
  BY <1>4, ProbesKeep
<1>6. IsTable(listened) /\ SameUplink(probed, listened) /\ SameConfigured(probed, listened)
  BY <1>5, HeardKeeps DEF withLLDP, SameUplink, SameConfigured
<1>7. Len(plan.neighbors) \in Nat
  BY DEF PlanType, isList
<1>8. IsTable(told) /\ SameUplink(listened, told) /\ IsTable(tried) /\ SameUplink(built, tried) /\ NoneHeard(tried)
  BY <1>2, <1>6, <1>7, NeighborsKeep
<1>9. IsTable(all) /\ SameUplink(told, all) /\ IsTable(accepted) /\ SameUplink(tried, accepted) /\ NoneHeard(accepted)
  BY <1>8, UplinkNeighborKeeps
<1>10. ~ ResolveTopology(accepted).failed
  BY DEF Resolvable, validateTopologyNeighbors
<1> HIDE DEF built, seen, set, probed
<1>11. SameConfigured(built, listened) /\ SameUplink(built, listened)
  BY <1>3, <1>4, <1>5, <1>6 DEF SameConfigured, SameUplink
<1> HIDE DEF listened
<1>12. SameConfigured(tried, told)
  BY <1>2, <1>6, <1>7, <1>11, NeighborsAlike
<1> HIDE DEF told, tried
<1>13. SameUplink(tried, told) /\ OneUplink(tried)
  BY <1>2, <1>8, <1>11 DEF SameUplink, OneUplink
<1>14. SameConfigured(accepted, all)
  BY <1>8, <1>12, <1>13, UplinkNeighborAlike
<1> HIDE DEF accepted, all
<1>15. SameUplink(accepted, all) /\ OneUplink(accepted)
  BY <1>9, <1>13 DEF SameUplink, OneUplink
<1>16. IsTable(rated) /\ SameUplink(all, rated) /\ \A p \in Port : rated[p].neighbors = all[p].neighbors
  BY <1>1, <1>9 DEF IsTable, SameUplink, withRates, portFields
<1>17. SameUplink(accepted, rated) /\ OneUplink(rated)
  BY <1>15, <1>16 DEF SameUplink, OneUplink
<1>18. SameConfigured(accepted, rated)
  BY <1>14, <1>16, SameNeighborsConfigured DEF SameConfigured
<1>19. ~ ResolveTopology(rated).failed
  BY <1>9, <1>10, <1>15, <1>16, <1>17, <1>18, FailsWithout
<1>20. QED BY <1>16, <1>17, <1>19

----------------------------------------------------------------------------
(* The importer (MergeOverrides): what it makes of the overrides.          *)

\* The fields of an override.
overrideFields ==
  {"port", "name", "interface", "ip", "ipv6", "role", "group", "conf", "vlan", "wan", "media", "disabled", "up",
   "speed", "set", "rx", "tx"}

\* An override of a file has them.
LEMMA OverrideDomain ==
  ASSUME NEW o, isConfigured(o)
  PROVE  DOMAIN o = overrideFields
BY DEF isConfigured, emptyOverride, overrideFields

\* Some places of a list have a last one.
LEMMA LastPlace ==
  ASSUME NEW n \in Nat, NEW S, S \subseteq 0 .. n, S # {}
  PROVE  lastOf(S) \in S /\ \A j \in S : j <= lastOf(S)
<1> DEFINE T == {n - k : k \in S}
<1>1. T \in SUBSET Nat /\ T # {}
  <2>1. \A k \in S : k \in 0 .. n
    OBVIOUS
  <2>2. \A k \in S : n - k \in Nat
    BY <2>1
  <2>3. QED BY <2>2
<1>2. PICK t \in T : \A j \in T : t <= j
  <2> HIDE DEF T
  <2>1. QED BY <1>1, Joined!LeastNatural
<1>3. PICK k \in S : t = n - k
  OBVIOUS
<1>4. ASSUME NEW j \in S PROVE j <= k
  <2>1. n - j \in T /\ t <= n - j /\ j \in 0 .. n /\ k \in 0 .. n
    BY <1>2
  <2>2. QED BY <1>3, <2>1
<1>5. \E m \in S : \A j \in S : j <= m
  BY <1>4
<1>6. QED BY <1>5 DEF lastOf

\* The elements of two parts are those of the whole.
LEMMA InConcat ==
  ASSUME NEW S, NEW s \in Seq(S), NEW t \in Seq(S)
  PROVE  /\ \A j \in DOMAIN s : j \in DOMAIN (s \o t) /\ (s \o t)[j] = s[j]
         /\ \A j \in DOMAIN t : j + Len(s) \in DOMAIN (s \o t) /\ (s \o t)[j + Len(s)] = t[j]
<1> DEFINE both == s \o t
<1>1. /\ Len(s) \in Nat /\ DOMAIN s = 1 .. Len(s) /\ Len(t) \in Nat /\ DOMAIN t = 1 .. Len(t)
      /\ Len(both) = Len(s) + Len(t) /\ DOMAIN both = 1 .. Len(both)
      /\ \A i \in 1 .. Len(s) + Len(t) : both[i] = IF i <= Len(s) THEN s[i] ELSE t[i - Len(s)]
  BY ConcatProperties, LenProperties
<1> HIDE DEF both
<1>2. ASSUME NEW j \in DOMAIN s PROVE j \in DOMAIN both /\ both[j] = s[j]
  <2>1. j \in 1 .. Len(s) + Len(t) /\ j <= Len(s)
    BY <1>1
  <2>2. QED BY <1>1, <2>1
<1>3. ASSUME NEW j \in DOMAIN t PROVE j + Len(s) \in DOMAIN both /\ both[j + Len(s)] = t[j]
  <2>1. j + Len(s) \in 1 .. Len(s) + Len(t) /\ ~ (j + Len(s) <= Len(s)) /\ (j + Len(s)) - Len(s) = j
    BY <1>1
  <2>2. QED BY <1>1, <2>1
<1>4. QED BY <1>2, <1>3 DEF both

\* Every place of the set is picked.
LEMMA PickedAll ==
  ASSUME NEW list, isList(list), NEW T, NEW t \in T \cap DOMAIN list
  PROVE  \E j \in DOMAIN picked(list, T) : picked(list, T)[j] = list[t]
<1> DEFINE n == Len(list)
           parts == [k \in DOMAIN list |-> IF k \in T THEN <<list[k]>> ELSE <<>>]
           S == {list[k] : k \in DOMAIN list}
           none == <<>>
           f == Joined!folded(none, parts)
           x == list[t]
           K == {k \in 0 .. n : f[k] \in Seq(S) /\ (t <= k => \E j \in DOMAIN f[k] : f[k][j] = x)}
<1>1. n \in Nat /\ DOMAIN list = 1 .. n /\ t \in 1 .. n
  BY DEF isList
<1>2. Len(parts) = n
  BY <1>1
<1>3. \A k \in 1 .. n : parts[k] \in Seq(S) /\ (k = t => \E j \in DOMAIN parts[k] : parts[k][j] = x)
  <2>1. ASSUME NEW k \in 1 .. n, k \in T
        PROVE  parts[k] \in Seq(S) /\ (k = t => \E j \in DOMAIN parts[k] : parts[k][j] = x)
    <3>1. parts[k] = <<list[k]>> /\ list[k] \in S
      BY <1>1, <2>1
    <3> HIDE DEF S, parts
    <3>2. parts[k] \in Seq(S) /\ 1 \in DOMAIN parts[k] /\ parts[k][1] = list[k]
      BY <3>1
    <3>3. QED BY <3>2
  <2>2. ASSUME NEW k \in 1 .. n, k \notin T PROVE parts[k] \in Seq(S) /\ k # t
    <3>1. parts[k] = <<>> /\ k # t
      BY <1>1, <2>2
    <3> HIDE DEF S, parts
    <3>2. QED BY <3>1, EmptySeq
  <2>3. QED BY <2>1, <2>2
<1>4. picked(list, T) = f[n]
  BY <1>2 DEF picked, Joined!Fold
<1>5. none \in Seq(S)
  BY EmptySeq
<1> HIDE DEF parts, S, none, x
<1>6. f[0] = none /\ \A k \in 1 .. n : f[k] = join(f[k - 1], parts[k])
  BY <1>1, <1>2, Joined!FoldedSteps
<1> HIDE DEF f
<1>7. 0 \in K
  BY <1>1, <1>5, <1>6
<1>8. ASSUME NEW k \in 1 .. n, k - 1 \in K PROVE k \in K
  <2>1. f[k - 1] \in Seq(S) /\ (t <= k - 1 => \E j \in DOMAIN f[k - 1] : f[k - 1][j] = x)
    BY <1>8
  <2>2. f[k] = f[k - 1] \o parts[k] /\ parts[k] \in Seq(S) /\ (k = t => \E j \in DOMAIN parts[k] : parts[k][j] = x)
    BY <1>3, <1>6 DEF join
  <2>3. f[k] \in Seq(S)
    BY <2>1, <2>2, ConcatProperties
  <2>4. t <= k => (t <= k - 1 \/ k = t)
    BY <1>1
  <2>5. ASSUME t <= k PROVE \E j \in DOMAIN f[k] : f[k][j] = x
    <3>1. (\E j \in DOMAIN f[k - 1] : f[k - 1][j] = x) \/ (\E j \in DOMAIN parts[k] : parts[k][j] = x)
      BY <2>1, <2>2, <2>4, <2>5
    <3> DEFINE a == f[k - 1]
               b == parts[k]
    <3>2. a \in Seq(S) /\ b \in Seq(S) /\ f[k] = a \o b
      BY <2>1, <2>2
    <3>3. (\E j \in DOMAIN a : a[j] = x) \/ (\E j \in DOMAIN b : b[j] = x)
      BY <3>1
    <3> HIDE DEF a, b
    <3>4. /\ \A j \in DOMAIN a : j \in DOMAIN (a \o b) /\ (a \o b)[j] = a[j]
          /\ \A j \in DOMAIN b : j + Len(a) \in DOMAIN (a \o b) /\ (a \o b)[j + Len(a)] = b[j]
      BY <3>2, InConcat
    <3>5. QED BY <3>2, <3>3, <3>4
  <2>6. QED BY <2>3, <2>5
<1>9. n \in K
  <2> HIDE DEF K
  <2>1. \A k \in 0 .. n : k \in K
    BY <1>1, <1>7, <1>8, Joined!TurnByTurn
  <2>2. QED BY <1>1, <2>1
<1>10. QED BY <1>1, <1>4, <1>9 DEF x

\* Numbers sorted into a list: all of them, and no others.
LEMMA Sorted ==
  ASSUME NEW n \in Nat, NEW S, S \subseteq 1 .. n
  PROVE  /\ isList(inOrder(S)) /\ \A k \in DOMAIN inOrder(S) : inOrder(S)[k] \in S
         /\ \A p \in S : \E k \in DOMAIN inOrder(S) : inOrder(S)[k] = p
<1> DEFINE last == lastOf(S \cup {0})
           list == [p \in 1 .. last |-> p]
           R == {list[k] : k \in S \cap DOMAIN list}
<1>1. last \in S \cup {0} /\ \A j \in S \cup {0} : j <= last
  <2> DEFINE T == S \cup {0}
  <2>1. T \subseteq 0 .. n /\ T # {}
    OBVIOUS
  <2> HIDE DEF T
  <2>2. QED BY <2>1, LastPlace DEF T
<1> HIDE DEF last
<1>2. last \in Nat /\ S \subseteq 1 .. last
  <2>1. last \in 0 .. n
    BY <1>1
  <2>2. ASSUME NEW j \in S PROVE j \in 1 .. last
    <3>1. j \in 1 .. n /\ j <= last
      BY <1>1
    <3>2. QED BY <2>1, <3>1
  <2>3. QED BY <2>1, <2>2
<1>3. DOMAIN list = 1 .. last /\ Len(list) = last /\ \A p \in 1 .. last : list[p] = p
  BY <1>2
<1>4. isList(list)
  BY <1>2, <1>3 DEF isList
<1>5. R = S
  BY <1>2, <1>3
<1>6. inOrder(S) = picked(list, S)
  BY DEF inOrder, last
<1> HIDE DEF list
<1>7. picked(list, S) \in Seq(R)
  BY <1>4, PickedIsList
<1> HIDE DEF R
<1>8. isList(inOrder(S)) /\ \A k \in DOMAIN inOrder(S) : inOrder(S)[k] \in S
  BY <1>5, <1>6, <1>7, LenProperties, ElementOfSeq DEF isList
<1>9. ASSUME NEW p \in S PROVE \E k \in DOMAIN inOrder(S) : inOrder(S)[k] = p
  <2>1. p \in S \cap DOMAIN list /\ list[p] = p
    BY <1>2, <1>3
  <2>2. QED BY <1>4, <1>6, <2>1, PickedAll
<1>10. QED BY <1>8, <1>9

\* What the merge has for a port so far.
entryOf(merged, p) == IF p \in DOMAIN merged THEN merged[p] ELSE emptyOverride(p)

lays(o, p, f) == o.port = p /\ f \in overlaid /\ given(o, f)

isLaidOver(new, old, o, p) == \A f \in overrideFields : new[f] = IF lays(o, p, f) THEN o[f] ELSE old[f]

\* One turn of the merge: the override is laid over what its port has.
LEMMA MergeTurn ==
  ASSUME NEW merged, NEW o, o.port \in Int, NEW p \in Int, p >= 1, DOMAIN entryOf(merged, p) = overrideFields,
         NEW new, new = mergeOverride(merged, o)
  PROVE  /\ (p \in DOMAIN new) = (p \in DOMAIN merged \/ o.port = p)
         /\ DOMAIN entryOf(new, p) = overrideFields /\ isLaidOver(entryOf(new, p), entryOf(merged, p), o, p)
<1> DEFINE old == entryOf(merged, p)
<1>1. CASE o.port < 1
  <2>1. new = merged /\ o.port # p
    BY <1>1 DEF mergeOverride
  <2>2. QED BY <2>1 DEF isLaidOver, lays
<1>2. CASE ~ (o.port < 1)
  <2>1. /\ DOMAIN new = DOMAIN merged \cup {o.port}
        /\ \A q \in DOMAIN new :
             new[q] = IF q # o.port THEN merged[q]
                      ELSE overlayOverride(IF q \in DOMAIN merged THEN merged[q] ELSE emptyOverride(q), o)
    BY <1>2 DEF mergeOverride
  <2>2. CASE o.port # p
    <3>1. entryOf(new, p) = old
      BY <2>1, <2>2 DEF entryOf
    <3>2. QED BY <2>1, <2>2, <3>1 DEF isLaidOver, lays
  <2>3. CASE o.port = p
    <3>1. entryOf(new, p) = overlayOverride(old, o)
      BY <2>1, <2>3 DEF entryOf
    <3>2. DOMAIN old = overrideFields
      OBVIOUS
    <3> HIDE DEF old
    <3>3. /\ DOMAIN entryOf(new, p) = overrideFields
          /\ \A f \in overrideFields :
               entryOf(new, p)[f] = IF f \in overlaid /\ given(o, f) THEN o[f] ELSE old[f]
      BY <3>1, <3>2 DEF overlayOverride
    <3>4. isLaidOver(entryOf(new, p), old, o, p)
      BY <2>3, <3>3 DEF isLaidOver, lays
    <3>5. QED BY <2>1, <2>3, <3>3, <3>4 DEF old
  <2>4. QED BY <2>2, <2>3
<1>3. QED BY <1>1, <1>2

\* The turns of the merge, for one port.
EntryAfter(h, start, base, p) ==
  /\ h[0] = entryOf(start, p) /\ h[Len(base)] = entryOf(Merging!Fold(start, base), p)
  /\ \A k \in 0 .. Len(base) : DOMAIN h[k] = overrideFields
  /\ \A k \in 1 .. Len(base) : isLaidOver(h[k], h[k - 1], base[k], p)

\* The merge, turn by turn.
LEMMA MergeTurns ==
  ASSUME NEW start, NEW base, Len(base) \in Nat, \A k \in 1 .. Len(base) : base[k].port \in Int,
         NEW p \in Int, p >= 1, DOMAIN entryOf(start, p) = overrideFields
  PROVE  /\ \E h : EntryAfter(h, start, base, p)
         /\ (p \in DOMAIN Merging!Fold(start, base)) =
              (p \in DOMAIN start \/ \E k \in 1 .. Len(base) : base[k].port = p)
<1> DEFINE n == Len(base)
           g == Merging!folded(start, base)
           h == [k \in 0 .. n |-> entryOf(g[k], p)]
<1>1. g[0] = start /\ \A k \in 1 .. n : g[k] = mergeOverride(g[k - 1], base[k])
  BY Merging!FoldedSteps
<1>2. Merging!Fold(start, base) = g[n]
  BY DEF Merging!Fold
<1> HIDE DEF g
<1> DEFINE K == {k \in 0 .. n : /\ DOMAIN entryOf(g[k], p) = overrideFields
                                /\ (p \in DOMAIN g[k]) = (p \in DOMAIN start \/ \E j \in 1 .. k : base[j].port = p)}
<1>3. 0 \in K
  BY <1>1
<1>4. ASSUME NEW k \in 1 .. n, k - 1 \in K
      PROVE  k \in K /\ isLaidOver(entryOf(g[k], p), entryOf(g[k - 1], p), base[k], p)
  <2> DEFINE o == base[k]
             m == g[k - 1]
             new == g[k]
  <2>1. /\ DOMAIN entryOf(m, p) = overrideFields
        /\ (p \in DOMAIN m) = (p \in DOMAIN start \/ \E j \in 1 .. k - 1 : base[j].port = p)
    BY <1>4
  <2>2. new = mergeOverride(m, o) /\ o.port \in Int
    BY <1>1
  <2> HIDE DEF m, new, o
  <2>3. /\ (p \in DOMAIN new) = (p \in DOMAIN m \/ o.port = p)
        /\ DOMAIN entryOf(new, p) = overrideFields /\ isLaidOver(entryOf(new, p), entryOf(m, p), o, p)
    BY <2>1, <2>2, MergeTurn
  <2>4. (\E j \in 1 .. k : base[j].port = p) = ((\E j \in 1 .. k - 1 : base[j].port = p) \/ o.port = p)
    <3>1. \A j \in 1 .. k : j = k \/ j \in 1 .. k - 1
      OBVIOUS
    <3>2. \A j \in 1 .. k - 1 : j \in 1 .. k
      OBVIOUS
    <3>3. k \in 1 .. k
      OBVIOUS
    <3>4. QED BY <3>1, <3>2, <3>3 DEF o
  <2>5. (p \in DOMAIN new) = (p \in DOMAIN start \/ \E j \in 1 .. k : base[j].port = p)
    BY <2>1, <2>3, <2>4
  <2>6. QED BY <2>3, <2>5 DEF new, m, o
<1>5. \A k \in 0 .. n : k \in K
  <2> HIDE DEF K
  <2>1. QED BY <1>3, <1>4, Merging!TurnByTurn
<1>6. /\ h[0] = entryOf(start, p) /\ h[n] = entryOf(g[n], p)
      /\ \A k \in 0 .. n : DOMAIN h[k] = overrideFields
  BY <1>1, <1>5
<1>7. ASSUME NEW k \in 1 .. n PROVE isLaidOver(h[k], h[k - 1], base[k], p)
  <2>1. k - 1 \in 0 .. n /\ k \in 0 .. n
    OBVIOUS
  <2>2. isLaidOver(entryOf(g[k], p), entryOf(g[k - 1], p), base[k], p)
    <3> HIDE DEF K
    <3>1. QED BY <1>4, <1>5, <2>1
  <2>3. h[k] = entryOf(g[k], p) /\ h[k - 1] = entryOf(g[k - 1], p)
    BY <2>1
  <2> HIDE DEF h
  <2>4. QED BY <2>2, <2>3
<1>8. (p \in DOMAIN g[n]) = (p \in DOMAIN start \/ \E k \in 1 .. n : base[k].port = p)
  BY <1>5
<1> HIDE DEF h
<1>9. EntryAfter(h, start, base, p)
  BY <1>2, <1>6, <1>7 DEF EntryAfter
<1>10. QED BY <1>2, <1>8, <1>9

\* The places of a list that give a field of a port.
givers(list, p, f) == {k \in DOMAIN list : list[k].port = p /\ given(list[k], f)}

\* What a merge gives for a field: the last value of the base, else the generated one.
LEMMA MergedField ==
  ASSUME NEW start, NEW base, isList(base), \A k \in 1 .. Len(base) : base[k].port \in Int,
         NEW p \in Int, p >= 1, DOMAIN entryOf(start, p) = overrideFields, NEW f \in overlaid
  PROVE  LET G == givers(base, p, f)
             new == entryOf(Merging!Fold(start, base), p) IN
         /\ G = {} => new[f] = entryOf(start, p)[f]
         /\ G # {} => lastOf(G) \in G /\ new[f] = base[lastOf(G)][f]
<1> DEFINE n == Len(base)
           G == givers(base, p, f)
           last == lastOf(G)
           first == entryOf(start, p)
           new == entryOf(Merging!Fold(start, base), p)
<1>1. n \in Nat /\ DOMAIN base = 1 .. n
  BY DEF isList
<1>2. PICK h : EntryAfter(h, start, base, p)
  BY <1>1, MergeTurns
<1>3. h[0] = first /\ h[n] = new
  BY <1>2 DEF EntryAfter
<1>4. ASSUME NEW k \in 1 .. n PROVE h[k][f] = IF k \in G THEN base[k][f] ELSE h[k - 1][f]
  <2>1. isLaidOver(h[k], h[k - 1], base[k], p) /\ f \in overrideFields
    BY <1>2 DEF EntryAfter, overlaid, overrideFields
  <2>2. lays(base[k], p, f) = (k \in G)
    BY <1>1 DEF lays, givers
  <2>3. QED BY <2>1, <2>2 DEF isLaidOver
<1> HIDE DEF G, first, new
<1>5. CASE G = {}
  <2> DEFINE K == {k \in 0 .. n : h[k][f] = first[f]}
  <2>1. 0 \in K /\ \A k \in 1 .. n : k - 1 \in K => k \in K
    BY <1>1, <1>3, <1>4, <1>5
  <2> HIDE DEF K
  <2>2. n \in K
    <3>1. \A k \in 0 .. n : k \in K
      BY <1>1, <2>1, Merging!TurnByTurn
    <3>2. QED BY <1>1, <3>1
  <2>3. QED BY <1>3, <1>5, <2>2 DEF K, G, first, new
<1>6. CASE G # {}
  <2>1. G \subseteq 0 .. n
    BY <1>1 DEF G, givers
  <2>2. last \in G /\ \A j \in G : j <= last
    BY <1>1, <1>6, <2>1, LastPlace
  <2>3. last \in 1 .. n
    BY <1>1, <2>2 DEF G, givers
  <2> HIDE DEF last
  <2> DEFINE v == base[last][f]
             K == {k \in 0 .. n : k >= last => h[k][f] = v}
  <2>4. 0 \in K
    BY <1>1, <2>3
  <2>5. ASSUME NEW k \in 1 .. n, k - 1 \in K PROVE k \in K
    <3>1. k - 1 >= last => h[k - 1][f] = v
      BY <2>5
    <3>2. CASE k = last
      BY <1>4, <2>2, <3>2
    <3>3. CASE k # last /\ k >= last
      <4>1. k - 1 >= last /\ ~ (k <= last)
        BY <2>3, <3>3
      <4>2. k \notin G
        BY <2>2, <4>1
      <4>3. QED BY <1>4, <3>1, <4>1, <4>2
    <3>4. QED BY <3>2, <3>3
  <2>6. n \in K
    <3> HIDE DEF K
    <3>1. \A k \in 0 .. n : k \in K
      BY <1>1, <2>4, <2>5, Merging!TurnByTurn
    <3>2. QED BY <1>1, <3>1
  <2>7. new[f] = v
    BY <1>1, <1>3, <2>3, <2>6
  <2>8. QED BY <1>6, <2>2, <2>7 DEF last, G, first, new
<1>7. QED BY <1>5, <1>6

\* An override of a port, as a file can have it.
isEntry(o, p) == isConfigured(o) /\ o.port = p

\* An override without anything is one that a file can have.
LEMMA EmptyIsEntry ==
  ASSUME NEW p \in Int
  PROVE  isEntry(emptyOverride(p), p)
BY DEF isEntry, isConfigured, emptyOverride

\* An override that is laid over another makes one that a file can have.
LEMMA LaidIsEntry ==
  ASSUME NEW p \in Int, NEW old, isEntry(old, p), NEW o, isConfigured(o), NEW new, DOMAIN new = overrideFields,
         isLaidOver(new, old, o, p)
  PROVE  isEntry(new, p)
<1>1. /\ new.port = old.port /\ new.disabled = old.disabled /\ new.set = old.set /\ new.rx = old.rx /\ new.tx = old.tx
  BY DEF isLaidOver, lays, overlaid, overrideFields
<1>2. new.vlan \in {o.vlan, old.vlan}
  BY DEF isLaidOver, overrideFields
<1>3. new.speed \in {o.speed, old.speed}
  BY DEF isLaidOver, overrideFields
<1>4. new.vlan \in Int /\ new.speed \in Int
  BY <1>2, <1>3 DEF isEntry, isConfigured
<1>5. DOMAIN new = DOMAIN emptyOverride(0)
  BY DEF emptyOverride, overrideFields
<1>6. ~ new.disabled
  BY <1>1 DEF isEntry, isConfigured
<1>7. ~ new.set
  BY <1>1 DEF isEntry, isConfigured
<1>8. QED BY <1>1, <1>4, <1>5, <1>6, <1>7 DEF isEntry, isConfigured

\* What is merged for a port is an override of that port, and every port of the base
\* and of the generated overrides has one.
LEMMA MergedIsEntry ==
  ASSUME NEW start, NEW base, isList(base), \A k \in DOMAIN base : isConfigured(base[k]),
         NEW p \in Int, p >= 1, isEntry(entryOf(start, p), p)
  PROVE  /\ isEntry(entryOf(Merging!Fold(start, base), p), p)
         /\ (p \in DOMAIN Merging!Fold(start, base)) = (p \in DOMAIN start \/ \E k \in DOMAIN base : base[k].port = p)
<1> DEFINE n == Len(base)
<1>1. n \in Nat /\ DOMAIN base = 1 .. n
  BY DEF isList
<1>2. \A k \in 1 .. n : base[k].port \in Int
  BY <1>1 DEF isConfigured
<1>3. DOMAIN entryOf(start, p) = overrideFields
  BY OverrideDomain DEF isEntry
<1>4. /\ \E h : EntryAfter(h, start, base, p)
      /\ (p \in DOMAIN Merging!Fold(start, base)) = (p \in DOMAIN start \/ \E k \in 1 .. n : base[k].port = p)
  BY <1>1, <1>2, <1>3, MergeTurns
<1>5. PICK h : EntryAfter(h, start, base, p)
  BY <1>4
<1> DEFINE K == {k \in 0 .. n : isEntry(h[k], p)}
<1>6. 0 \in K
  BY <1>1, <1>5 DEF EntryAfter
<1>7. ASSUME NEW k \in 1 .. n, k - 1 \in K PROVE k \in K
  <2> DEFINE o == base[k]
             old == h[k - 1]
             new == h[k]
  <2>1. isEntry(old, p) /\ isConfigured(o) /\ DOMAIN new = overrideFields /\ isLaidOver(new, old, o, p)
    BY <1>1, <1>5, <1>7 DEF EntryAfter
  <2> HIDE DEF o, old, new
  <2>2. isEntry(new, p)
    BY <2>1, LaidIsEntry
  <2>3. QED BY <2>2 DEF new
<1>8. n \in K
  <2> HIDE DEF K
  <2>1. \A k \in 0 .. n : k \in K
    BY <1>1, <1>6, <1>7, Merging!TurnByTurn
  <2>2. QED BY <1>1, <2>1
<1>9. isEntry(h[n], p)
  BY <1>8
<1>10. QED BY <1>1, <1>4, <1>5, <1>9 DEF EntryAfter

\* The ports of a merge have a last one.
LEMMA MergedPorts ==
  ASSUME NEW start, NEW base, isList(base), \A k \in DOMAIN base : isConfigured(base[k]),
         NEW m0 \in Nat, DOMAIN start \subseteq 1 .. m0
  PROVE  \E m \in Nat : DOMAIN Merging!Fold(start, base) \subseteq 1 .. m
<1> DEFINE n == Len(base)
           g == Merging!folded(start, base)
<1>1. n \in Nat /\ DOMAIN base = 1 .. n
  BY DEF isList
<1>2. g[0] = start /\ \A k \in 1 .. n : g[k] = mergeOverride(g[k - 1], base[k])
  BY <1>1, Merging!FoldedSteps
<1>3. Merging!Fold(start, base) = g[n]
  BY DEF Merging!Fold
<1> HIDE DEF g
<1> DEFINE K == {k \in 0 .. n : \E m \in Nat : DOMAIN g[k] \subseteq 1 .. m}
<1>4. 0 \in K
  BY <1>1, <1>2
<1>5. ASSUME NEW k \in 1 .. n, k - 1 \in K PROVE k \in K
  <2> DEFINE old == g[k - 1]
             q == base[k].port
  <2>1. PICK m \in Nat : DOMAIN old \subseteq 1 .. m
    BY <1>5
  <2>2. q \in Int
    BY <1>1 DEF isConfigured
  <2>3. CASE q < 1
    <3>1. g[k] = old
      BY <1>2, <2>3 DEF mergeOverride
    <3>2. QED BY <2>1, <3>1
  <2>4. CASE ~ (q < 1)
    <3>1. DOMAIN g[k] = DOMAIN old \cup {q}
      <4> DEFINE o == base[k]
                 new == g[k]
      <4>1. new = mergeOverride(old, o) /\ ~ (o.port < 1) /\ q = o.port
        BY <1>2, <2>4
      <4> HIDE DEF o, new, old, q
      <4>2. DOMAIN new = DOMAIN old \cup {o.port}
        BY <4>1 DEF mergeOverride
      <4>3. QED BY <4>1, <4>2 DEF new
    <3> DEFINE r == IF m < q THEN q ELSE m
    <3>2. r \in Nat /\ m <= r /\ q \in 1 .. r
      BY <2>2, <2>4
    <3> HIDE DEF r, q, old
    <3>3. DOMAIN g[k] \subseteq 1 .. r
      BY <2>1, <3>1, <3>2
    <3>4. QED BY <3>2, <3>3
  <2>5. QED BY <2>3, <2>4
<1>6. n \in K
  <2> HIDE DEF K
  <2>1. \A k \in 0 .. n : k \in K
    BY <1>1, <1>4, <1>5, Merging!TurnByTurn
  <2>2. QED BY <1>1, <2>1
<1>7. QED BY <1>3, <1>6

\* The ports of a list of overrides have a last one.
LEMMA ListedPorts ==
  ASSUME NEW list, isList(list), \A k \in DOMAIN list : isConfigured(list[k])
  PROVE  \E m \in Nat : \A k \in DOMAIN list : list[k].port <= m
<1> DEFINE n == Len(list)
           K == {k \in 0 .. n : \E m \in Nat : \A j \in 1 .. k : list[j].port <= m}
<1>1. n \in Nat /\ DOMAIN list = 1 .. n /\ \A k \in 1 .. n : list[k].port \in Int
  BY DEF isList, isConfigured
<1>2. 0 \in K
  <2>1. \A j \in 1 .. 0 : list[j].port <= 0
    OBVIOUS
  <2>2. QED BY <1>1, <2>1
<1>3. ASSUME NEW k \in 1 .. n, k - 1 \in K PROVE k \in K
  <2> DEFINE q == list[k].port
  <2>1. PICK m \in Nat : \A j \in 1 .. k - 1 : list[j].port <= m
    BY <1>3
  <2> DEFINE r == IF m < q THEN q ELSE m
  <2>2. r \in Nat /\ m <= r /\ q <= r
    BY <1>1
  <2> HIDE DEF r
  <2>3. ASSUME NEW j \in 1 .. k PROVE list[j].port <= r
    <3>1. CASE j = k
      BY <2>2, <3>1
    <3>2. CASE j # k
      <4>1. j \in 1 .. k - 1 /\ list[j].port \in Int
        BY <1>1, <3>2
      <4>2. QED BY <2>1, <2>2, <4>1
    <3>3. QED BY <3>1, <3>2
  <2>4. QED BY <2>2, <2>3
<1>4. n \in K
  <2> HIDE DEF K
  <2>1. \A k \in 0 .. n : k \in K
    BY <1>1, <1>2, <1>3, Joined!TurnByTurn
  <2>2. QED BY <1>1, <2>1
<1>5. QED BY <1>1, <1>4

\* The generated overrides by port.
LEMMA GeneratedEntries ==
  ASSUME NEW generated, isList(generated), \A k \in DOMAIN generated : isConfigured(generated[k])
  PROVE  LET start == generatedByPort(generated) IN
         /\ \E m \in Nat : DOMAIN start \subseteq 1 .. m
         /\ \A p \in Int : p >= 1 =>
              /\ isEntry(entryOf(start, p), p)
              /\ (\E k \in DOMAIN generated : generated[k].port = p) => p \in DOMAIN start
              /\ p \in DOMAIN start => \E k \in DOMAIN generated : generated[k].port = p /\ start[p] = generated[k]
<1> DEFINE start == generatedByPort(generated)
           n == Len(generated)
<1>1. n \in Nat /\ DOMAIN generated = 1 .. n /\ \A k \in 1 .. n : generated[k].port \in Int
  BY DEF isList, isConfigured
<1>2. /\ DOMAIN start = {generated[k].port : k \in {j \in DOMAIN generated : generated[j].port >= 1}}
      /\ \A p \in DOMAIN start : start[p] = generated[lastOf({k \in DOMAIN generated : generated[k].port = p})]
  BY DEF generatedByPort
<1> HIDE DEF start
<1>3. PICK m \in Nat : \A k \in DOMAIN generated : generated[k].port <= m
  BY ListedPorts
<1>4. DOMAIN start \subseteq 1 .. m
  BY <1>1, <1>2, <1>3
<1>5. ASSUME NEW p \in Int, p >= 1
      PROVE  /\ isEntry(entryOf(start, p), p)
             /\ (\E k \in DOMAIN generated : generated[k].port = p) => p \in DOMAIN start
             /\ p \in DOMAIN start => \E k \in DOMAIN generated : generated[k].port = p /\ start[p] = generated[k]
  <2> DEFINE S == {k \in DOMAIN generated : generated[k].port = p}
  <2>1. /\ p \in DOMAIN start => \E k \in DOMAIN generated : generated[k].port = p
        /\ (\E k \in DOMAIN generated : generated[k].port = p) => p \in DOMAIN start
    BY <1>2, <1>5
  <2>2. ASSUME p \in DOMAIN start
        PROVE  \E k \in DOMAIN generated : generated[k].port = p /\ start[p] = generated[k]
    <3>1. S \subseteq 0 .. n /\ S # {}
      BY <1>1, <2>1, <2>2
    <3>2. start[p] = generated[lastOf(S)]
      BY <1>2, <2>2
    <3> HIDE DEF S
    <3>3. lastOf(S) \in S
      BY <1>1, <3>1, LastPlace
    <3>4. QED BY <3>2, <3>3 DEF S
  <2>3. isEntry(entryOf(start, p), p)
    <3>1. CASE p \in DOMAIN start
      BY <2>2, <3>1 DEF entryOf, isEntry
    <3>2. CASE p \notin DOMAIN start
      BY <3>2, EmptyIsEntry DEF entryOf
    <3>3. QED BY <3>1, <3>2
  <2>4. QED BY <2>1, <2>2, <2>3
<1>6. QED BY <1>4, <1>5 DEF start

\* What is merged, as a list: one override for every port that has any.
LEMMA MergedList ==
  ASSUME NEW generated, isList(generated), \A k \in DOMAIN generated : isConfigured(generated[k]),
         NEW base, isList(base), \A k \in DOMAIN base : isConfigured(base[k])
  PROVE  LET merged == mergedByPort(generated, base)
             list == MergeOverrides(generated, base) IN
         /\ isList(list)
         /\ \A k \in DOMAIN list :
              /\ isConfigured(list[k]) /\ list[k].port >= 1
              /\ list[k].port \in DOMAIN merged /\ list[k] = merged[list[k].port]
         /\ \A p \in DOMAIN merged : \E k \in DOMAIN list : list[k].port = p
<1> DEFINE merged == mergedByPort(generated, base)
           list == MergeOverrides(generated, base)
           start == generatedByPort(generated)
           order == inOrder(DOMAIN merged)
<1>1. merged = Merging!Fold(start, base)
  BY DEF mergedByPort
<1>2. /\ \E m \in Nat : DOMAIN start \subseteq 1 .. m
      /\ \A p \in Int : p >= 1 => isEntry(entryOf(start, p), p)
  BY GeneratedEntries
<1> HIDE DEF start
<1>3. \E m \in Nat : DOMAIN merged \subseteq 1 .. m
  BY <1>1, <1>2, MergedPorts
<1>4. ASSUME NEW p \in DOMAIN merged PROVE p \in Int /\ p >= 1 /\ isEntry(merged[p], p)
  <2>1. p \in Int /\ p >= 1
    BY <1>3
  <2>2. isEntry(entryOf(merged, p), p)
    BY <1>1, <1>2, <2>1, MergedIsEntry
  <2>3. QED BY <2>1, <2>2 DEF entryOf
<1>5. list = [k \in DOMAIN order |-> merged[order[k]]]
  BY DEF MergeOverrides
<1> HIDE DEF merged, list
<1>6. /\ isList(order) /\ \A k \in DOMAIN order : order[k] \in DOMAIN merged
      /\ \A p \in DOMAIN merged : \E k \in DOMAIN order : order[k] = p
  BY <1>3, Sorted
<1> HIDE DEF order
<1>7. DOMAIN list = DOMAIN order /\ \A k \in DOMAIN list : list[k] = merged[order[k]]
  BY <1>5
<1>8. isList(list)
  BY <1>5, <1>6 DEF isList
<1>9. ASSUME NEW k \in DOMAIN list
      PROVE  /\ isConfigured(list[k]) /\ list[k].port >= 1 /\ list[k].port = order[k]
             /\ list[k].port \in DOMAIN merged /\ list[k] = merged[list[k].port]
  <2>1. list[k] = merged[order[k]] /\ order[k] \in DOMAIN merged
    BY <1>6, <1>7
  <2>2. isEntry(merged[order[k]], order[k]) /\ order[k] >= 1
    BY <1>4, <2>1
  <2>3. QED BY <2>1, <2>2 DEF isEntry
<1>10. ASSUME NEW p \in DOMAIN merged PROVE \E k \in DOMAIN list : list[k].port = p
  BY <1>6, <1>7, <1>9
<1>11. QED BY <1>8, <1>9, <1>10 DEF merged, list

\* What was found for every mapping is an answer about its interface.
isReading(source, status) ==
  \A k \in DOMAIN source.interfaces :
    \E answer \in Answers : status[k] \in lookupInterfaceStatus(answer, source.interfaces[k].interface)

\* The override that is generated for a mapping.
isGenerated(o, mapping, row) ==
  isEntry(o, mapping.port) /\ o.name = mapping.name /\ o.interface = mapping.interface /\ o.ip = row.ip

\* The number of the file, or the one that was answered.
LEMMA PositiveInt ==
  ASSUME NEW a \in Int, NEW b \in Int
  PROVE  positive(a, b) \in Int
BY DEF positive

\* A generated override has the texts of the mapping and the answered address (overrideFromMapping).
LEMMA MappingOverride ==
  ASSUME NEW m, m.port \in Int, m.vlan \in Int, m.speed \in Int, NEW row, row.speed \in Int, NEW gw
  PROVE  isGenerated(applyGatewayStatus(overrideFromMapping(m, row), gw), m, row)
<1> DEFINE b == overrideFromMapping(m, row)
           o == applyGatewayStatus(b, gw)
           speed == positive(m.speed, row.speed)
<1>1. /\ DOMAIN b = overrideFields /\ b.port = m.port /\ b.name = m.name /\ b.interface = m.interface /\ b.ip = row.ip
      /\ b.vlan = m.vlan /\ b.speed = speed
  BY DEF overrideFromMapping, emptyOverride, overrideFields
<1>2. b.rx = 0 /\ b.tx = 0
  BY DEF overrideFromMapping, emptyOverride
<1>3. b.disabled = FALSE
  BY DEF overrideFromMapping, emptyOverride
<1>4. b.set = FALSE
  BY DEF overrideFromMapping, emptyOverride
<1>5. speed \in Int
  BY PositiveInt
<1> HIDE DEF b, speed
<1>6. /\ DOMAIN o = overrideFields /\ o.port = b.port /\ o.name = b.name /\ o.interface = b.interface /\ o.ip = b.ip
      /\ o.vlan = b.vlan /\ o.speed = b.speed /\ o.rx = b.rx /\ o.tx = b.tx
  BY <1>1 DEF applyGatewayStatus, overrideFields
<1>7. o.disabled = b.disabled
  BY <1>1 DEF applyGatewayStatus, overrideFields
<1>8. o.set = b.set
  BY <1>1 DEF applyGatewayStatus, overrideFields
<1> HIDE DEF o
<1>9. DOMAIN o = DOMAIN emptyOverride(0)
  BY <1>6 DEF emptyOverride, overrideFields
<1>10. ~ o.disabled
  BY <1>3, <1>7
<1>11. ~ o.set
  BY <1>4, <1>8
<1>12. isConfigured(o)
  BY <1>1, <1>2, <1>5, <1>6, <1>9, <1>10, <1>11 DEF isConfigured
<1>13. QED BY <1>1, <1>6, <1>12 DEF isGenerated, isEntry, o, b

\* One override is generated for every mapping (OverridesFromState).
LEMMA GeneratedOverrides ==
  ASSUME NEW source, SourceType(source), NEW status, isReading(source, status), NEW gateway
  PROVE  LET generated == OverridesFromState(source.interfaces, status, gateway) IN
         /\ isList(generated) /\ DOMAIN generated = DOMAIN source.interfaces
         /\ \A k \in DOMAIN generated : isGenerated(generated[k], source.interfaces[k], status[k])
<1> DEFINE generated == OverridesFromState(source.interfaces, status, gateway)
<1>1. generated = [k \in DOMAIN source.interfaces |->
                     applyGatewayStatus(overrideFromMapping(source.interfaces[k], status[k]), gateway[k])]
  BY DEF OverridesFromState
<1> HIDE DEF generated
<1>2. DOMAIN generated = DOMAIN source.interfaces
  BY <1>1
<1>3. isList(source.interfaces)
  BY DEF SourceType
<1>4. isList(generated)
  BY <1>1, <1>3 DEF isList
<1>5. ASSUME NEW k \in DOMAIN generated PROVE isGenerated(generated[k], source.interfaces[k], status[k])
  <2> DEFINE m == source.interfaces[k]
             row == status[k]
             gw == gateway[k]
  <2>1. PICK answer \in Answers : row \in lookupInterfaceStatus(answer, m.interface)
    BY <1>2 DEF isReading
  <2>2. m.port \in Int /\ m.vlan \in Int /\ m.speed \in Int /\ row.speed \in Int
    BY <1>2, <2>1 DEF SourceType
  <2>3. generated[k] = applyGatewayStatus(overrideFromMapping(m, row), gw)
    BY <1>1, <1>2
  <2> HIDE DEF m, row, gw
  <2>4. isGenerated(generated[k], m, row)
    BY <2>2, <2>3, MappingOverride
  <2>5. QED BY <2>4 DEF m, row
<1>6. QED BY <1>2, <1>4, <1>5 DEF generated

----------------------------------------------------------------------------
(* The invariant: a report is built from a table with one uplink that can  *)
(* be resolved.                                                            *)

ShownIsBuilt ==
  reporting => /\ shown = reportOf(shown.ports) /\ IsTable(shown.ports) /\ OneUplink(shown.ports)
               /\ ~ ResolveTopology(shown.ports).failed

\* What else the daemon and the importer refuse to start with.
Accepted(pl) == validatePortMapSources(pl) /\ (pl.source # NoSource => ValidateSourceConfig(pl.source))

PInv == PlanType(plan) /\ Resolvable(plan) /\ Accepted(plan) /\ overrides = plan.overrides /\ ShownIsBuilt

\* A heartbeat reports such a table.
LEMMA ShowIsBuilt ==
  ASSUME PlanType(plan), Resolvable(plan), Accepted(plan), overrides = plan.overrides,
         NEW mapped, NEW refreshed, NEW heard, isList(heard), NEW alive, Report(mapped, refreshed, heard, alive)
  PROVE  PInv'
<1> DEFINE enriched == enrichedOverrides(refreshed)
           all == portsForRuntime(enriched, mapped, heard, alive)
           rated == withRates(all)
<1>1. DOMAIN enriched = DOMAIN overrides /\ enriched = [k \in DOMAIN enriched |-> enriched[k]]
  BY DEF enrichedOverrides, RefreshOverrides
<1>2. Show(enriched, all) /\ UNCHANGED plan
  BY DEF Report
<1> HIDE DEF enriched
<1>3. Len(enriched) \in Nat
  BY <1>1 DEF PlanType, isList
<1>4. IsTable(rated) /\ OneUplink(rated) /\ ~ ResolveTopology(rated).failed
  BY <1>3, RuntimePorts
<1>5. shown' = reportOf(rated) /\ overrides' = overrides /\ plan' = plan
  BY <1>2 DEF Show, flagsAfter
<1> HIDE DEF rated
<1>6. shown'.ports = rated
  BY <1>5 DEF reportOf
<1>7. reportOf(shown.ports)' = reportOf(rated)
  BY <1>5, <1>6 DEF reportOf
<1>8. ~ ResolveTopology(shown.ports)'.failed
  BY <1>4, <1>6
<1>9. ShownIsBuilt'
  BY <1>4, <1>5, <1>6, <1>7, <1>8 DEF ShownIsBuilt, IsTable, OneUplink
<1>10. PlanType(plan)' /\ (overrides = plan.overrides)' /\ Resolvable(plan)' /\ Accepted(plan)'
  BY <1>5 DEF PlanType, SourceType, isList, Resolvable, Accepted
<1>11. QED BY <1>9, <1>10 DEF PInv

\* The elements of a list are finitely many.
LEMMA FiniteImage ==
  ASSUME NEW n \in Nat, NEW g
  PROVE  IsFiniteSet({g[k] : k \in 1 .. n})
<1> DEFINE D == 1 .. n
           T == {g[k] : k \in D}
           h == [k \in D |-> g[k]]
<1>1. h \in Surjection(D, T)
  BY DEF Surjection
<1>2. IsFiniteSet(D)
  BY FS_Interval
<1> HIDE DEF D, T, h
<1>3. IsFiniteSet(T)
  BY <1>1, <1>2, FS_Surjection
<1>4. QED BY <1>3 DEF D, T

\* What the importer generates is a configuration like any other.
LEMMA ImportedPlan ==
  ASSUME NEW pl, PlanType(pl), pl.source # NoSource, NEW status, isReading(pl.source, status), NEW gateway
  PROVE  PlanType(GenerateConfig(pl, pl.source, status, gateway))
<1> DEFINE new == GenerateConfig(pl, pl.source, status, gateway)
           generated == OverridesFromState(pl.source.interfaces, status, gateway)
           merged == MergeOverrides(generated, pl.overrides)
<1>1. SourceType(pl.source) /\ isList(pl.own) /\ \A k \in DOMAIN pl.own : isConfigured(pl.own[k])
  BY DEF PlanType, NoSource
<1>2. isList(pl.overrides) /\ \A k \in DOMAIN pl.overrides : isConfigured(pl.overrides[k])
  BY DEF PlanType
<1>3. isList(generated) /\ \A k \in DOMAIN generated : isConfigured(generated[k])
  BY <1>1, GeneratedOverrides DEF isGenerated, isEntry
<1>4. /\ DOMAIN new = planFields
      /\ new.overrides = merged
      /\ new.targets \in {pl.targets, pl.source.wanHealth.targets}
      /\ new.mapping = pl.mapping /\ new.neighbors = pl.neighbors /\ new.profile = pl.profile
      /\ new.source = pl.source /\ new.own = pl.own
  BY DEF GenerateConfig, PlanType, planFields
<1> HIDE DEF generated
<1>5. isList(merged) /\ \A k \in DOMAIN merged : isConfigured(merged[k])
  BY <1>2, <1>3, MergedList
<1> HIDE DEF new, merged
<1>6. isList(new.targets)
  BY <1>1, <1>4 DEF PlanType, SourceType
<1>7. PlanType(new)
  BY <1>1, <1>4, <1>5, <1>6 DEF PlanType
<1>8. QED BY <1>7 DEF new

\* What the lookups find is an answer.
LEMMA ReadingsAnswer ==
  ASSUME NEW answer \in Answers, NEW status \in readings(answer)
  PROVE  isReading(plan.source, status)
<1> DEFINE D == DOMAIN plan.source.interfaces
           rows == [k \in D |-> lookupInterfaceStatus(answer, plan.source.interfaces[k].interface)]
<1>1. readings(answer) = picks(rows)
  BY DEF readings
<1>2. DOMAIN rows = D /\ \A k \in D : rows[k] = lookupInterfaceStatus(answer, plan.source.interfaces[k].interface)
  OBVIOUS
<1> HIDE DEF rows
<1>3. \A k \in DOMAIN rows : status[k] \in rows[k]
  BY <1>1 DEF picks
<1>4. QED BY <1>2, <1>3 DEF isReading

\* A configuration with neighbours that cannot be resolved is refused.
LEMMA ValidIsResolvable ==
  ASSUME NEW pl, Valid(pl)
  PROVE  Resolvable(pl) /\ Accepted(pl)
BY DEF Valid, validWith, validatePortOverrides, Resolvable, Accepted

\* What the daemon is started with.
LEMMA InitPInv == ReportInit => PInv
<1> SUFFICES ASSUME ReportInit PROVE PInv
  OBVIOUS
<1>1. PlanType(plan) /\ Valid(plan) /\ overrides = plan.overrides /\ shown = NoReport
  BY PlanAssumption DEF ReportInit
<1>2. Resolvable(plan) /\ Accepted(plan)
  BY <1>1, ValidIsResolvable
<1>3. QED BY <1>1, <1>2 DEF PInv, ShownIsBuilt, reporting, PlanType

\* A report and its configuration change only together.
LEMMA SameReport ==
  ASSUME PInv, UNCHANGED <<plan, overrides>>, UNCHANGED shown \/ shown' = NoReport
  PROVE  PInv'
<1>1. PlanType(plan)' /\ (overrides = plan.overrides)' /\ Resolvable(plan)' /\ Accepted(plan)'
  BY DEF PInv, PlanType, SourceType, isList, Resolvable, Accepted
<1>2. CASE UNCHANGED shown
  <2>1. reportOf(shown.ports)' = reportOf(shown.ports)
    BY <1>2 DEF reportOf
  <2>2. ShownIsBuilt'
    BY <1>2, <2>1 DEF PInv, ShownIsBuilt, reporting, IsTable, OneUplink
  <2>3. QED BY <1>1, <2>2 DEF PInv
<1>3. CASE shown' = NoReport
  BY <1>1, <1>3 DEF PInv, ShownIsBuilt, reporting, NoReport
<1>4. QED BY <1>2, <1>3

\* Every step keeps the invariant.
LEMMA NextPInv == PInv /\ [ReportNext]_allVars => PInv'
<1> SUFFICES ASSUME PInv, [ReportNext]_allVars PROVE PInv'
  OBVIOUS
<1>1. CASE \E mapped \in mappedReadings, refreshed \in overrideReadings,
              heard \in (IF plan.lldp THEN Heard ELSE {<<>>}),
              alive \in SUBSET {plan.targets[k] : k \in DOMAIN plan.targets} :
             Report(mapped, refreshed, heard, alive)
  <2> DEFINE lists == IF plan.lldp THEN Heard ELSE {<<>>}
  <2>1. PICK mapped \in mappedReadings, refreshed \in overrideReadings, heard \in lists,
             alive \in SUBSET {plan.targets[k] : k \in DOMAIN plan.targets} :
          Report(mapped, refreshed, heard, alive)
    BY <1>1
  <2>2. isList(heard)
    <3>1. isList(<<>>)
      BY DEF isList
    <3>2. QED BY <3>1, PlanAssumption
  <2>3. QED BY <2>1, <2>2, ShowIsBuilt DEF PInv
<1>2. CASE Sent
  BY <1>2, SameReport DEF Sent
<1>3. CASE ObserveBridge
  BY <1>3, SameReport DEF ObserveBridge
<1>4. CASE HostStep
  BY <1>4, SameReport DEF HostStep
<1>5. CASE OperatorImports
  <2>0. PICK answer \in Answers :
          \E status \in readings(answer), gateway \in gatewayReadings(answer) : Import(status, gateway)
    BY <1>5 DEF OperatorImports
  <2>1. PICK status \in readings(answer), gateway \in gatewayReadings(answer) : Import(status, gateway)
    BY <2>0
  <2>2. plan.source # NoSource /\ shown = NoReport
    BY <1>5 DEF OperatorImports
  <2> DEFINE new == GenerateConfig(plan, plan.source, status, gateway)
  <2>3. PlanType(new)
    <3>1. isReading(plan.source, status)
      BY <2>1, ReadingsAnswer
    <3>2. QED BY <2>2, <3>1, ImportedPlan DEF PInv
  <2>4. plan' = new /\ overrides' = new.overrides /\ shown' = NoReport /\ Valid(new)
    BY <2>1, <2>2 DEF Import, Install
  <2> HIDE DEF new
  <2>5. Resolvable(new) /\ Accepted(new)
    BY <2>4, ValidIsResolvable
  <2>6. PlanType(plan)' /\ (overrides = plan.overrides)' /\ Resolvable(plan)' /\ Accepted(plan)'
    BY <2>3, <2>4, <2>5 DEF PlanType, SourceType, isList, Resolvable, Accepted
  <2>7. QED BY <2>4, <2>6 DEF PInv, ShownIsBuilt, reporting, NoReport
<1>6. CASE UNCHANGED allVars
  BY <1>6, SameReport DEF allVars, reportVars
<1>7. QED BY <1>1, <1>2, <1>3, <1>4, <1>5, <1>6 DEF ReportNext

\* The invariant of the reports.
LEMMA ReportInvariance == ReportSpec => []PInv
<1>1. QED BY InitPInv, NextPInv, PTL DEF ReportSpec

----------------------------------------------------------------------------
(* The tables of a gateway.                                                *)

\* The first of some ports is one of them.
LEMMA FirstOfPorts ==
  ASSUME NEW S, S \subseteq Port, S # {}
  PROVE  firstOf(S) \in S /\ \A q \in S : firstOf(S) <= q
<1>1. S \in SUBSET Nat
  BY BridgeAssumption DEF Port
<1>2. \E p \in S : \A q \in S : p <= q
  BY <1>1, Joined!LeastNatural
<1>3. QED BY <1>2 DEF firstOf

\* There is no port 0.
LEMMA NoPortZero == 0 \notin Port
BY BridgeAssumption DEF Port

\* What the tables are rendered from.
Views == BuildPortViews(shown.ports, ResolveTopology(shown.ports))

\* A view has what its port shows (BuildPortViews).
LEMMA ViewFields ==
  ASSUME PInv, reporting
  PROVE  /\ DOMAIN Views = Port
         /\ \A p \in Port :
              /\ Views[p].port = shown.ports[p] /\ Views[p].role = roleOf(p)
              /\ Views[p].source = shown.ports[p].interface /\ Views[p].uplink = shown.ports[p].uplink
              /\ Views[p].enabled = ~ shown.ports[p].disabled /\ Views[p].up = shown.ports[p].up
              /\ Views[p].neighbor = edgeOf(p) /\ Views[p].upstream = shown.ports[p].uplink
<1>1. DOMAIN shown.ports = Port
  BY DEF PInv, ShownIsBuilt, IsTable
<1>2. shown.edges = ResolveTopology(shown.ports).edges
  BY DEF PInv, ShownIsBuilt, reportOf
<1>3. QED BY <1>1, <1>2 DEF Views, BuildPortViews, roleOf, edgeOf

\* The marker is on one port, and every way to look for it finds that port.
LEMMA UplinkOfReport ==
  ASSUME PInv, reporting
  PROVE  /\ uplinkPortIndex(shown.ports) \in Port
         /\ \A p \in Port : shown.ports[p].uplink = (p = uplinkPortIndex(shown.ports))
         /\ uplinksOf(Views) = {uplinkPortIndex(shown.ports)}
         /\ firstOf(uplinksOf(Views)) = uplinkPortIndex(shown.ports)
<1>1. DOMAIN shown.ports = Port
  BY DEF PInv, ShownIsBuilt, IsTable
<1>2. PICK u \in Port : \A p \in Port : shown.ports[p].uplink = (p = u)
  BY DEF PInv, ShownIsBuilt, OneUplink
<1>3. uplinkPortIndex(shown.ports) = u
  BY <1>1, <1>2 DEF uplinkPortIndex
<1>4. uplinksOf(Views) = {u}
  BY <1>2, ViewFields DEF uplinksOf
<1>5. firstOf({u}) = u
  BY FirstOfPorts
<1>6. QED BY <1>2, <1>3, <1>4, <1>5

\* A payload that is no error is a gateway's or a switch's.
LEMMA PayloadOf ==
  ASSUME PInv, reporting, payload.kind # "error"
  PROVE  payload = IF plan.gateway THEN buildGatewayPayload(Views, 7) ELSE buildSwitchPayload(Views, shown.ports)
<1>1. payload = Build(shown.ports, plan.gateway, 7)
  BY DEF PInv, ShownIsBuilt, reportOf, payload
<1>2. payload = buildFrom(shown.ports, ResolveTopology(shown.ports), plan.gateway, 7)
  BY <1>1 DEF Build
<1>3. ~ ResolveTopology(shown.ports).failed
  BY <1>2 DEF buildFrom
<1>4. QED BY <1>2, <1>3 DEF buildFrom, Views

\* The port of a WAN role: a live one if there is any, and none only if no port
\* has the role.
LEMMA RolePort ==
  ASSUME PInv, reporting, NEW role
  PROVE  LET own == {p \in Port : roleOf(p) = role}
             port == gatewayRolePort(Views, role) IN
         /\ own = {} => port = 0
         /\ own # {} => port \in own
         /\ (\E p \in own : live(p)) => live(port)
<1> DEFINE own == {p \in Port : roleOf(p) = role}
           active == {p \in own : live(p)}
           candidates == gatewayRoleCandidates(Views, role)
           S == {p \in candidates : Views[p].role = role}
<1>1. own = {p \in DOMAIN Views : Views[p].role = role}
  BY ViewFields
<1>2. active = {p \in own : Views[p].up /\ (Views[p].uplink \/ Views[p].source # "")}
  BY ViewFields DEF live
<1>3. candidates = IF active # {} THEN active ELSE IF own # {} THEN own ELSE Port
  BY <1>1, <1>2, ViewFields DEF gatewayRoleCandidates
<1>4. S = IF active # {} THEN active ELSE own
  BY <1>3, ViewFields
<1>5. S \subseteq Port
  BY <1>4
<1>6. gatewayRolePort(Views, role) = firstOf(S)
  BY DEF gatewayRolePort
<1> HIDE DEF S
<1>7. S # {} => firstOf(S) \in S
  BY <1>5, FirstOfPorts
<1>8. S = {} => firstOf(S) = 0
  BY DEF firstOf
<1>9. QED BY <1>4, <1>6, <1>7, <1>8

\* The port of the LAN configuration is a logical one (gatewayLANConfigPort).
LEMMA LANPort ==
  ASSUME PInv, reporting, gatewayLANConfigPort(Views) # 0
  PROVE  gatewayLANConfigPort(Views) \in logicalInterfacePorts(Views)
<1> DEFINE of(role, alive) ==
             {p \in DOMAIN Views : Views[p].role = role /\ (alive => Views[p].up \/ Views[p].source # "")}
           A == of("lan", TRUE)
           B == of("lan2", TRUE)
           C == of("lan", FALSE)
           D == of("lan2", FALSE)
           candidates == <<A, B, C, D>>
           k == CHOOSE i \in 1 .. 4 : candidates[i] # {} /\ \A j \in 1 .. i - 1 : candidates[j] = {}
<1>1. \A i \in 1 .. 4 : candidates[i] \subseteq logicalInterfacePorts(Views)
  <2>1. /\ A \subseteq logicalInterfacePorts(Views) /\ B \subseteq logicalInterfacePorts(Views)
        /\ C \subseteq logicalInterfacePorts(Views) /\ D \subseteq logicalInterfacePorts(Views)
    BY DEF logicalInterfacePorts, gatewayIsLogicalRole
  <2> HIDE DEF A, B, C, D
  <2>2. candidates[1] = A /\ candidates[2] = B /\ candidates[3] = C /\ candidates[4] = D
    OBVIOUS
  <2> HIDE DEF candidates
  <2>3. \A i \in 1 .. 4 : i = 1 \/ i = 2 \/ i = 3 \/ i = 4
    OBVIOUS
  <2>4. QED BY <2>1, <2>2, <2>3
<1>2. /\ ~ \A i \in 1 .. 4 : candidates[i] = {}
      /\ gatewayLANConfigPort(Views) = firstOf(candidates[k])
  BY DEF gatewayLANConfigPort
<1> HIDE DEF candidates
<1>3. k \in 1 .. 4 /\ candidates[k] # {}
  <2> DEFINE T == {i \in 1 .. 4 : candidates[i] # {}}
  <2>1. T # {} /\ T \in SUBSET Nat
    BY <1>2
  <2>2. PICK i \in T : \A j \in T : i <= j
    <3> HIDE DEF T
    <3>1. QED BY <2>1, Joined!LeastNatural
  <2>3. i \in 1 .. 4 /\ candidates[i] # {} /\ \A j \in 1 .. i - 1 : candidates[j] = {}
    BY <2>2
  <2>4. QED BY <2>3
<1> HIDE DEF k
<1>4. logicalInterfacePorts(Views) \subseteq Port
  BY ViewFields DEF logicalInterfacePorts
<1>5. firstOf(candidates[k]) \in candidates[k]
  BY <1>1, <1>3, <1>4, FirstOfPorts
<1>6. QED BY <1>1, <1>2, <1>3, <1>5

\* The tables by role, one port at a time.
LEMMA RoleTables ==
  ASSUME NEW views, NEW role
  PROVE  LET port == gatewayRolePort(views, role) IN
         /\ gatewayConfigNetwork(views, role).port = port
         /\ gatewayConfigNetwork(views, role).ip = IF port = 0 THEN "" ELSE views[port].ip
         /\ (port # 0 /\ role \in {"wan", "wan2"}) =>
              \E row \in gatewayWans(views) : row.port = port /\ row.ip = views[port].ip
<1> DEFINE port == gatewayRolePort(views, role)
<1>1. gatewayConfigNetwork(views, role).port = port
  <2>1. CASE port = 0
    BY <2>1 DEF gatewayConfigNetwork
  <2>2. CASE port # 0
    BY <2>2 DEF gatewayConfigNetwork
  <2>3. QED BY <2>1, <2>2
<1>2. gatewayConfigNetwork(views, role).ip = IF port = 0 THEN "" ELSE views[port].ip
  <2>1. CASE port = 0
    BY <2>1 DEF gatewayConfigNetwork
  <2>2. CASE port # 0
    BY <2>2 DEF gatewayConfigNetwork
  <2>3. QED BY <2>1, <2>2
<1>3. ASSUME port # 0, role \in {"wan", "wan2"}
      PROVE  \E row \in gatewayWans(views) : row.port = port /\ row.ip = views[port].ip
  <2> DEFINE told(p) == [port |-> p, ip |-> views[p].ip, plugged |-> views[p].up, enabled |-> views[p].enabled]
  <2>1. port \in {gatewayRolePort(views, "wan"), gatewayRolePort(views, "wan2")} \ {0}
    BY <1>3
  <2>2. told(port) \in gatewayWans(views)
    BY <2>1 DEF gatewayWans
  <2>3. told(port).port = port /\ told(port).ip = views[port].ip
    OBVIOUS
  <2> HIDE DEF told, port
  <2>4. QED BY <2>2, <2>3
<1>4. QED BY <1>1, <1>2, <1>3

\* The row of a port.
LEMMA PortRow ==
  ASSUME NEW views, NEW p \in DOMAIN views
  PROVE  /\ gatewayPortTable(views)[p].up = views[p].up
         /\ gatewayPortTable(views)[p].rates = explicitPortRateFields(views[p].port)
         /\ gatewayPortTable(views)[p].macTable = downstreamMACTable(views[p])
BY DEF gatewayPortTable

\* The row of the LAN configuration.
LEMMA LANRow ==
  ASSUME NEW views
  PROVE  LET port == gatewayLANConfigPort(views) IN
         /\ port = 0 => gatewayConfigLAN(views).port = 0
         /\ port # 0 => gatewayConfigLAN(views).port = port /\ gatewayConfigLAN(views).ip = views[port].ip
<1> DEFINE port == gatewayLANConfigPort(views)
<1>1. CASE port = 0
  <2>1. gatewayConfigLAN(views).port = 0
    BY <1>1 DEF gatewayConfigLAN
  <2>2. QED BY <1>1, <2>1
<1>2. CASE port # 0
  <2>1. gatewayConfigLAN(views).port = port
    BY <1>2 DEF gatewayConfigLAN
  <2>2. gatewayConfigLAN(views).ip = views[port].ip
    BY <1>2 DEF gatewayConfigLAN
  <2>3. QED BY <1>2, <2>1, <2>2
<1>3. QED BY <1>1, <1>2

\* A gateway's tables are consistent whenever a report is built from a table
\* with one uplink.
LEMMA TablesAgree == PInv => GatewayTablesAgree
<1> SUFFICES ASSUME PInv, reporting, plan.gateway, payload.kind # "error" PROVE GatewayTablesAgree
  BY DEF GatewayTablesAgree
<1> DEFINE u == uplinkPortIndex(shown.ports)
<1>1. payload = buildGatewayPayload(Views, 7)
  BY PayloadOf
<1>2. /\ payload.ifTable = gatewayIfTable(Views, 7) /\ payload.networkTable = gatewayNetworkTable(Views)
      /\ payload.configPortTable = gatewayConfigPortTable(Views)
      /\ payload.ethernetOverrides = gatewayEthernetOverrides(Views)
      /\ payload.portTable = gatewayPortTable(Views) /\ payload.portStats = gatewayPortStatsTable(Views)
      /\ payload.reportedNetworks = gatewayReportedNetworks(Views) /\ payload.wans = gatewayWans(Views)
      /\ payload.lastWANIP = gatewayLastWANIP(Views)
      /\ payload.configWAN = gatewayConfigNetwork(Views, "wan")
      /\ payload.configWAN2 = gatewayConfigNetwork(Views, "wan2")
      /\ payload.configLAN = gatewayConfigLAN(Views)
  BY <1>1 DEF buildGatewayPayload
<1>3. ASSUME NEW role \in {"wan", "wan2"}
      PROVE  LET network == IF role = "wan" THEN payload.configWAN ELSE payload.configWAN2
                 own == {p \in Port : roleOf(p) = role} IN
             /\ network.port # 0 <=> own # {}
             /\ (\E p \in own : live(p)) => live(network.port)
             /\ own # {} => \E row \in payload.wans : row.port = network.port /\ row.ip = network.ip
  <2> DEFINE network == IF role = "wan" THEN payload.configWAN ELSE payload.configWAN2
             own == {p \in Port : roleOf(p) = role}
             port == gatewayRolePort(Views, role)
  <2>1. network = gatewayConfigNetwork(Views, role)
    BY <1>2, <1>3
  <2>2. /\ own = {} => port = 0
        /\ own # {} => port \in own
        /\ (\E p \in own : live(p)) => live(port)
    BY RolePort
  <2>3. network.port = port /\ (port # 0 => network.ip = Views[port].ip)
    BY <2>1, RoleTables
  <2>4. port # 0 <=> own # {}
    BY <2>2, NoPortZero
  <2>5. port # 0 => \E row \in payload.wans : row.port = port /\ row.ip = Views[port].ip
    <3>1. port # 0 => \E row \in gatewayWans(Views) : row.port = port /\ row.ip = Views[port].ip
      BY <1>3, RoleTables
    <3> HIDE DEF port
    <3>2. QED BY <1>2, <3>1
  <2> HIDE DEF network, own, port
  <2>6. /\ network.port # 0 <=> own # {}
        /\ (\E p \in own : live(p)) => live(network.port)
        /\ own # {} => \E row \in payload.wans : row.port = network.port /\ row.ip = network.ip
    BY <2>2, <2>3, <2>4, <2>5
  <2>7. QED BY <2>6 DEF network, own
<1>4. payload.lastWANIP = payload.configWAN.ip
  <2>1. gatewayLastWANIP(Views) =
          IF gatewayRolePort(Views, "wan") = 0 THEN "" ELSE Views[gatewayRolePort(Views, "wan")].ip
    BY DEF gatewayLastWANIP
  <2>2. QED BY <1>2, <2>1, RoleTables
<1>5. DOMAIN payload.ifTable = logicalInterfacePorts(Views) /\ logicalInterfacePorts(Views) \subseteq Port
  BY <1>2, ViewFields DEF gatewayIfTable, logicalInterfacePorts
<1>6. ASSUME NEW p \in DOMAIN payload.ifTable
      PROVE  /\ payload.ifTable[p].up = payload.portTable[p].up
             /\ payload.ifTable[p].counters = payload.portStats[p].counters
             /\ payload.networkTable[p].rates = payload.portTable[p].rates
             /\ payload.networkTable[p].hosts \subseteq payload.portTable[p].macTable
             /\ payload.reportedNetworks[p].ip = payload.ifTable[p].ip
             /\ payload.ifTable[p].vlan # 0 => (p = u \/ u \notin DOMAIN payload.ifTable)
  <2>1. p \in logicalInterfacePorts(Views) /\ p \in Port /\ p \in DOMAIN Views
    BY <1>5, <1>6, ViewFields
  <2>2. /\ payload.ifTable[p].up = Views[p].up /\ payload.ifTable[p].counters = portCounterFields(Views[p].port)
        /\ payload.ifTable[p].ip = Views[p].ip
        /\ payload.ifTable[p].vlan = IF p = managementRow(Views) THEN 7 ELSE 0
    BY <1>2, <2>1 DEF gatewayIfTable
  <2>3. /\ payload.portTable[p].up = Views[p].up /\ payload.portTable[p].rates = explicitPortRateFields(Views[p].port)
        /\ payload.portTable[p].macTable = downstreamMACTable(Views[p])
    BY <2>1, PortRow, <1>2
  <2>4. payload.portStats[p].counters = portCounterFields(Views[p].port)
    BY <1>2, <2>1 DEF gatewayPortStatsTable
  <2>5. /\ payload.networkTable[p].rates = explicitPortRateFields(Views[p].port)
        /\ payload.networkTable[p].hosts = Views[p].port.macs
    BY <1>2, <2>1 DEF gatewayNetworkTable
  <2>6. payload.reportedNetworks[p].ip = Views[p].ip
    BY <1>2, <2>1 DEF gatewayReportedNetworks
  <2>7. Views[p].port.macs \subseteq downstreamMACTable(Views[p])
    BY DEF downstreamMACTable
  <2>8. (p = managementRow(Views)) => (p = u \/ u \notin logicalInterfacePorts(Views))
    <3> DEFINE marked == {q \in logicalInterfacePorts(Views) : Views[q].uplink}
    <3>1. CASE u \in logicalInterfacePorts(Views)
      <4>1. marked = {u} /\ u \in Port
        BY <1>5, <3>1, UplinkOfReport, ViewFields
      <4>2. managementRow(Views) = firstOf(marked)
        BY <4>1 DEF managementRow
      <4>3. firstOf({u}) = u
        BY <4>1, FirstOfPorts
      <4>4. QED BY <4>1, <4>2, <4>3
    <3>2. QED BY <3>1
  <2>9. QED BY <1>5, <2>2, <2>3, <2>4, <2>5, <2>6, <2>7, <2>8
<1>7. payload.configLAN.port # 0 => payload.configLAN.ip = payload.networkTable[payload.configLAN.port].ip
  <2>1. SUFFICES ASSUME payload.configLAN.port # 0
                 PROVE  payload.configLAN.ip = payload.networkTable[payload.configLAN.port].ip
    OBVIOUS
  <2>2. gatewayLANConfigPort(Views) # 0
    BY <1>2, <2>1, LANRow
  <2>3. /\ payload.configLAN.port = gatewayLANConfigPort(Views)
        /\ payload.configLAN.ip = Views[gatewayLANConfigPort(Views)].ip
    BY <1>2, <2>2, LANRow
  <2>4. gatewayLANConfigPort(Views) \in logicalInterfacePorts(Views)
    BY <2>2, LANPort
  <2>5. payload.networkTable[gatewayLANConfigPort(Views)].ip = Views[gatewayLANConfigPort(Views)].ip
    BY <1>2, <2>4 DEF gatewayNetworkTable
  <2>6. QED BY <2>3, <2>5
<1>8. (\E p \in Port : payload.configPortTable[p].assignment.conf # "") =>
        DOMAIN payload.ifTable \subseteq DOMAIN payload.ethernetOverrides
  <2>1. SUFFICES ASSUME NEW q \in Port, payload.configPortTable[q].assignment.conf # ""
                 PROVE  DOMAIN payload.ifTable \subseteq DOMAIN payload.ethernetOverrides
    OBVIOUS
  <2>2. q \in DOMAIN Views
    BY ViewFields
  <2>3. payload.configPortTable[q].assignment.conf = Views[q].port.conf
    BY <1>2, <2>2 DEF gatewayConfigPortTable, assignmentFields
  <2>4. needsAllEthernetOverrides(Views)
    BY <2>1, <2>2, <2>3 DEF needsAllEthernetOverrides
  <2>5. logicalInterfacePorts(Views) \subseteq overriddenPorts(Views)
    BY <2>4 DEF logicalInterfacePorts, overriddenPorts
  <2>6. DOMAIN payload.ethernetOverrides = overriddenPorts(Views)
    BY <1>2 DEF gatewayEthernetOverrides
  <2>7. QED BY <1>5, <2>5, <2>6
<1>9. QED BY <1>3, <1>4, <1>6, <1>7, <1>8 DEF GatewayTablesAgree

\* All tables of a gateway tell one story, for any number of ports and every
\* configuration, through bridges, port maps, probes, LLDP and imports.
THEOREM GatewayTellsOneStory == ReportSpec => []GatewayTablesAgree
BY ReportInvariance, TablesAgree, PTL

----------------------------------------------------------------------------
(* The devices that were resolved.                                         *)

\* What the address table of a port adds to its clients (downstreamMACTable).
LEMMA ToldOfPort ==
  ASSUME PInv, reporting, NEW p \in Port
  PROVE  downstreamMACTable(Views[p]) \ shown.ports[p].macs =
           IF edgeOf(p) # noNeighbor /\ ~ shown.ports[p].uplink THEN {edgeOf(p).mac} \ shown.ports[p].macs ELSE {}
<1>1. /\ Views[p].port.macs = shown.ports[p].macs /\ Views[p].neighbor = edgeOf(p)
      /\ Views[p].upstream = shown.ports[p].uplink
  BY ViewFields
<1>2. CASE edgeOf(p) # noNeighbor /\ ~ shown.ports[p].uplink
  BY <1>1, <1>2 DEF downstreamMACTable
<1>3. CASE ~ (edgeOf(p) # noNeighbor /\ ~ shown.ports[p].uplink)
  BY <1>1, <1>3 DEF downstreamMACTable
<1>4. QED BY <1>2, <1>3

\* An LLDP row names the device that was selected for its port (lldpTable).
LEMMA RowsNameTheSelected ==
  ASSUME PInv, reporting, NEW row \in lldpTable(Views)
  PROVE  edgeOf(row.port).mac = row.mac
<1> DEFINE heardAt(p) == {lldpOf(Views[p].port)[k] : k \in DOMAIN lldpOf(Views[p].port)}
           chosen(p) == {n \in heardAt(p) : n.mac = Views[p].neighbor.mac}
           rows(p) == {[port |-> p, mac |-> n.mac, remote |-> n.remote] : n \in chosen(p)}
<1>1. lldpTable(Views) = UNION {rows(p) : p \in DOMAIN Views}
  BY DEF lldpTable
<1>2. PICK p \in DOMAIN Views : row \in rows(p)
  <2> HIDE DEF rows
  <2>1. QED BY <1>1
<1>3. PICK n \in chosen(p) : row = [port |-> p, mac |-> n.mac, remote |-> n.remote]
  <2> HIDE DEF chosen
  <2>1. QED BY <1>2
<1>4. n.mac = Views[p].neighbor.mac
  <2> HIDE DEF heardAt
  <2>1. QED OBVIOUS
<1>5. Views[p].neighbor = edgeOf(p)
  BY ViewFields
<1>6. row.port = p
  BY <1>3
<1>7. row.mac = n.mac
  BY <1>3
<1>8. QED BY <1>4, <1>5, <1>6, <1>7

\* The last uplink of a switch is the device on the uplink port
\* (switchLastUplinkRowFor).
LEMMA LastUplinkIsSelected ==
  ASSUME PInv, reporting
  PROVE  switchLastUplinkRowFor(Views).mac = edgeOf(uplinkPortIndex(shown.ports)).mac
<1> DEFINE u == uplinkPortIndex(shown.ports)
           told == {p \in DOMAIN Views : Views[p].neighbor # noNeighbor /\ Views[p].upstream}
<1>1. u \in Port /\ \A p \in Port : shown.ports[p].uplink = (p = u)
  BY UplinkOfReport
<1>2. DOMAIN Views = Port /\ \A p \in Port : Views[p].neighbor = edgeOf(p) /\ Views[p].upstream = (p = u)
  BY <1>1, ViewFields
<1>3. CASE edgeOf(u) = noNeighbor
  <2>1. told = {}
    BY <1>1, <1>2, <1>3
  <2>2. switchLastUplinkRowFor(Views).mac = ""
    BY <2>1 DEF switchLastUplinkRowFor
  <2>3. QED BY <1>3, <2>2, NobodyHasNoAddress
<1>4. CASE edgeOf(u) # noNeighbor
  <2>1. told = {u}
    BY <1>1, <1>2, <1>4
  <2>2. firstOf({u}) = u
    BY <1>1, FirstOfPorts
  <2>3. switchLastUplinkRowFor(Views).mac = Views[firstOf(told)].neighbor.mac
    BY <2>1 DEF switchLastUplinkRowFor
  <2> HIDE DEF told, u
  <2>4. QED BY <1>1, <1>2, <2>1, <2>2, <2>3 DEF u
<1>5. QED BY <1>3, <1>4

\* The uplink of a gateway names the device on the uplink port while the link
\* is up (gatewayUplinkTable).
LEMMA ConnectionIsSelected ==
  ASSUME PInv, reporting
  PROVE  gatewayUplinkTable(Views, 7).connection =
           IF shown.ports[uplinkPortIndex(shown.ports)].up THEN edgeOf(uplinkPortIndex(shown.ports)).mac ELSE ""
<1> DEFINE u == uplinkPortIndex(shown.ports)
<1>1. u \in Port /\ shown.ports[u].uplink
  BY UplinkOfReport
<1>2. uplinksOf(Views) # {} /\ firstOf(uplinksOf(Views)) = u
  BY UplinkOfReport
<1>3. gatewayUplinkTable(Views, 7).connection = gatewayConnectionFields(Views[u])
  BY <1>2 DEF gatewayUplinkTable
<1>4. /\ Views[u].up = shown.ports[u].up /\ Views[u].uplink /\ Views[u].upstream
      /\ Views[u].neighbor = edgeOf(u)
  BY <1>1, ViewFields
<1> HIDE DEF u
<1>5. CASE shown.ports[u].up /\ edgeOf(u) # noNeighbor
  <2>1. gatewayConnectionFields(Views[u]) = edgeOf(u).mac
    BY <1>4, <1>5 DEF gatewayConnectionFields
  <2>2. QED BY <1>3, <1>5, <2>1 DEF u
<1>6. CASE shown.ports[u].up /\ edgeOf(u) = noNeighbor
  <2>1. gatewayConnectionFields(Views[u]) = ""
    BY <1>4, <1>6 DEF gatewayConnectionFields
  <2>2. edgeOf(u).mac = ""
    BY <1>6, NobodyHasNoAddress
  <2>3. QED BY <1>3, <1>6, <2>1, <2>2 DEF u
<1>7. CASE ~ shown.ports[u].up
  <2>1. gatewayConnectionFields(Views[u]) = ""
    BY <1>4, <1>7 DEF gatewayConnectionFields
  <2>2. QED BY <1>3, <1>7, <2>1 DEF u
<1>8. QED BY <1>5, <1>6, <1>7

\* With one uplink, every selected device has one place in the payload.
LEMMA ToldOnce == PInv => EdgesAreToldOnce
<1> SUFFICES ASSUME PInv, reporting, payload.kind # "error" PROVE EdgesAreToldOnce
  BY DEF EdgesAreToldOnce
<1>1. payload = IF plan.gateway THEN buildGatewayPayload(Views, 7) ELSE buildSwitchPayload(Views, shown.ports)
  BY PayloadOf
<1>2. payload.lldpTable = lldpTable(Views)
  BY <1>1 DEF buildGatewayPayload, buildSwitchPayload
<1>3. ASSUME NEW p \in Port PROVE payload.portTable[p].macTable = downstreamMACTable(Views[p])
  <2>1. p \in DOMAIN Views
    BY ViewFields
  <2>2. CASE plan.gateway
    <3>1. payload.portTable = gatewayPortTable(Views)
      BY <1>1, <2>2 DEF buildGatewayPayload
    <3>2. QED BY <2>1, <3>1, PortRow
  <2>3. CASE ~ plan.gateway
    <3>1. payload.portTable = portTable(Views)
      BY <1>1, <2>3 DEF buildSwitchPayload
    <3>2. portTable(Views)[p].macTable = downstreamMACTable(Views[p])
      BY <2>1 DEF portTable
    <3>3. QED BY <3>1, <3>2
  <2>4. QED BY <2>2, <2>3
<1>4. ~ plan.gateway => payload.lastUplink = switchLastUplinkRowFor(Views)
  BY <1>1 DEF buildSwitchPayload
<1>5. plan.gateway => payload.uplinkTable = gatewayUplinkTable(Views, 7)
  BY <1>1 DEF buildGatewayPayload
<1>6. ASSUME NEW p \in Port
      PROVE  payload.portTable[p].macTable \ shown.ports[p].macs =
               IF edgeOf(p) # noNeighbor /\ ~ shown.ports[p].uplink THEN {edgeOf(p).mac} \ shown.ports[p].macs ELSE {}
  BY <1>3, ToldOfPort
<1>7. \A row \in payload.lldpTable : edgeOf(row.port).mac = row.mac
  BY <1>2, RowsNameTheSelected
<1>8. ~ plan.gateway => payload.lastUplink.mac = edgeOf(uplinkPortIndex(shown.ports)).mac
  BY <1>4, LastUplinkIsSelected
<1>9. plan.gateway =>
        payload.uplinkTable.connection =
          IF shown.ports[uplinkPortIndex(shown.ports)].up THEN edgeOf(uplinkPortIndex(shown.ports)).mac ELSE ""
  BY <1>5, ConnectionIsSelected
<1>10. QED BY <1>6, <1>7, <1>8, <1>9 DEF EdgesAreToldOnce

\* Every device the resolution selected is told once, for any number of ports
\* and every configuration, whatever lldpd hears.
THEOREM DevicesAreToldOnce == ReportSpec => []EdgesAreToldOnce
<1>1. QED BY ReportInvariance, ToldOnce, PTL

\* The edges of a payload that is no error.
LEMMA ShownEdges ==
  ASSUME PInv, reporting, payload.kind # "error"
  PROVE  LET all == shown.ports
             resolved == resolveDirectionConflicts(all, edgesOf(all)) IN
         /\ ~ resolved.failed /\ KeepsConfigured(edgesOf(all), resolved)
         /\ KeepsOneWay(edgesOf(all), uplinkPortIndex(all), PortCount, resolved)
         /\ \A p \in Port : edgeOf(p) = IF p \in resolved.kept THEN resolvePortNeighbor(all[p]) ELSE noNeighbor
<1> DEFINE all == shown.ports
           edges == edgesOf(all)
           resolved == resolveDirectionConflicts(all, edges)
           u == uplinkPortIndex(all)
<1>1. IsTable(all) /\ shown = reportOf(all)
  BY DEF PInv, ShownIsBuilt
<1>2. u \in Port /\ \A p \in Port : all[p].uplink = (p = u)
  BY UplinkOfReport
<1>3. shown.edges = ResolveTopology(all).edges /\ payload = Build(all, plan.gateway, 7)
  BY <1>1 DEF reportOf, payload
<1>4. ResolveTopology(all) = topologyOf(all, edges, resolved)
  BY DEF ResolveTopology, resolveEdges, edgesOf
<1>5. ~ ResolveTopology(all).failed
  BY <1>3 DEF Build, buildFrom
<1> HIDE DEF u
<1>6. DirectionInv(all, edges, u, PortCount, resolved)
  BY <1>1, <1>2, Directions
<1>7. DOMAIN all = Port /\ \A p \in Port : edges[p] = resolvePortNeighbor(all[p])
  BY <1>1 DEF IsTable, edgesOf
<1> HIDE DEF edges, resolved, all
<1>8. ~ resolved.failed
  <2> DEFINE conflict == \E p \in DOMAIN all : portConflict(all[p])
  <2>1. topologyOf(all, edges, resolved).failed = (conflict \/ resolved.failed)
    <3> HIDE DEF conflict
    <3>1. QED BY DEF topologyOf, conflict
  <2> HIDE DEF conflict
  <2>2. QED BY <1>4, <1>5, <2>1
<1>9. \A p \in Port : shown.edges[p] = IF p \in resolved.kept THEN edges[p] ELSE noNeighbor
  BY <1>3, <1>4, <1>7 DEF topologyOf
<1>10. QED BY <1>6, <1>7, <1>8, <1>9 DEF DirectionInv, edgeOf, edges, resolved, all, u

\* Of the devices that only LLDP knows, none stays in both directions.
LEMMA OneWay == PInv => HeardOneWay
<1> SUFFICES ASSUME PInv, reporting, payload.kind # "error", NEW p \in Port, NEW q \in Port,
                    edgeOf(p).source = "lldp", edgeOf(q).source = "lldp", edgeOf(p).mac = edgeOf(q).mac
             PROVE  shown.ports[p].uplink = shown.ports[q].uplink
  BY DEF HeardOneWay
<1> DEFINE u == uplinkPortIndex(shown.ports)
           edges == edgesOf(shown.ports)
           resolved == resolveDirectionConflicts(shown.ports, edges)
<1>1. \A r \in Port : shown.ports[r].uplink = (r = u)
  BY UplinkOfReport
<1>2. \A r \in Port : edges[r] = resolvePortNeighbor(shown.ports[r])
  BY DEF edgesOf, PInv, ShownIsBuilt, IsTable
<1>3. /\ KeepsOneWay(edges, u, PortCount, resolved)
      /\ \A r \in Port : edgeOf(r) = IF r \in resolved.kept THEN edges[r] ELSE noNeighbor
  BY <1>2, ShownEdges
<1> HIDE DEF u, edges, resolved
<1>4. \A r \in {p, q} : r \in resolved.kept /\ edges[r] = edgeOf(r)
  BY <1>3, NobodyHasNoAddress
<1>5. p \in 1 .. PortCount /\ q \in 1 .. PortCount
  BY DEF Port
<1>6. ~ (p = u /\ q # u) /\ ~ (q = u /\ p # u)
  BY <1>3, <1>4, <1>5 DEF KeepsOneWay
<1>7. QED BY <1>1, <1>6

\* The configured neighbour of a port is the one that is selected, and it stays.
LEMMA ConfiguredStay == PInv => ConfiguredEdgesSurvive
<1> SUFFICES ASSUME PInv, reporting, payload.kind # "error", NEW p \in Port, configuredOf(shown.ports[p]) # <<>>
             PROVE  edgeOf(p).mac = configuredOf(shown.ports[p])[1].mac
  BY DEF ConfiguredEdgesSurvive
<1> DEFINE edges == edgesOf(shown.ports)
           resolved == resolveDirectionConflicts(shown.ports, edges)
           configured == configuredOf(shown.ports[p])
           none == <<>>
<1>1. areNeighbors(shown.ports[p].neighbors) /\ edges[p] = resolvePortNeighbor(shown.ports[p])
  BY DEF edgesOf, PInv, ShownIsBuilt, IsTable
<1>2. Len(configured) # 0
  <2>1. areNeighbors(configured) /\ configured # none
    BY <1>1, TwoKinds
  <2>2. PICK S : configured \in Seq(S)
    BY <2>1 DEF areNeighbors
  <2> HIDE DEF configured
  <2>3. QED BY <2>1, <2>2, EmptySeq
<1>3. edges[p].mac = configured[1].mac /\ edges[p].source \in configSources
  BY <1>1, <1>2, ResolvedNeighbor
<1>4. /\ KeepsConfigured(edges, resolved)
      /\ edgeOf(p) = IF p \in resolved.kept THEN edges[p] ELSE noNeighbor
  BY <1>1, ShownEdges
<1> HIDE DEF edges, resolved, configured
<1>5. edgeOf(p) = edges[p]
  BY <1>3, <1>4 DEF KeepsConfigured
<1>6. QED BY <1>3, <1>5 DEF configured

\* No device that only LLDP knows is shown upstream and downstream.
THEOREM DevicesHaveOneDirection == ReportSpec => []HeardOneWay
<1>1. QED BY ReportInvariance, OneWay, PTL

\* What the operator configures is what is shown, whatever lldpd hears.
THEOREM ConfigurationWins == ReportSpec => []ConfiguredEdgesSurvive
<1>1. QED BY ReportInvariance, ConfiguredStay, PTL

\* A payload built from a table that can be resolved is no error.
LEMMA NeverAnError == PInv => LLDPNeverFails
<1> SUFFICES ASSUME PInv, reporting PROVE payload.kind # "error"
  BY DEF LLDPNeverFails
<1>1. payload = Build(shown.ports, plan.gateway, 7) /\ ~ ResolveTopology(shown.ports).failed
  BY DEF PInv, ShownIsBuilt, reportOf, payload
<1>2. payload = IF plan.gateway THEN buildGatewayPayload(Views, 7) ELSE buildSwitchPayload(Views, shown.ports)
  BY <1>1 DEF Build, buildFrom, Views
<1>3. CASE plan.gateway
  <2>1. payload.kind = "gateway"
    BY <1>2, <1>3 DEF buildGatewayPayload
  <2>2. QED BY <2>1
<1>4. CASE ~ plan.gateway
  <2>1. payload.kind = "switch"
    BY <1>2, <1>4 DEF buildSwitchPayload
  <2>2. QED BY <2>1
<1>5. QED BY <1>3, <1>4

\* Once a configuration was accepted, nothing that lldpd hears and no import can
\* make the resolution fail, so the daemon never ends for its topology.
THEOREM HearingNeverFails == ReportSpec => []LLDPNeverFails
<1>1. QED BY ReportInvariance, NeverAnError, PTL
----------------------------------------------------------------------------
(* RatesAreReal for any number of interfaces and ports.  The invariant: a  *)
(* counter that has not restarted is its sample plus what has moved, and   *)
(* one that has is at most what has moved.                                 *)

Counts == [rx : Nat, tx : Nat]

RatesTypeOK ==
  /\ host \in [Iface -> [up : BOOLEAN, rx : Nat, tx : Nat]]
  /\ previous \in [Iface -> [taken : BOOLEAN, rx : Nat, tx : Nat]]
  /\ age \in [Iface -> Nat]
  /\ moved \in [Iface -> Counts]
  /\ restarted \in [Iface -> BOOLEAN]

Tracked(i) ==
  previous[i].taken =>
    /\ restarted[i] => host[i].rx <= moved[i].rx /\ host[i].tx <= moved[i].tx
    /\ ~ restarted[i] => /\ host[i].rx = previous[i].rx + moved[i].rx
                         /\ host[i].tx = previous[i].tx + moved[i].tx

RInv == RatesTypeOK /\ \A i \in Iface : Tracked(i)

\* Where a port shows counters under the name of an interface, they are its own.
Truthful(seen) ==
  \A p \in RatePorts :
    (seen[p].key \in Iface /\ seen[p].set) =>
      seen[p].rx = host[seen[p].key].rx /\ seen[p].tx = host[seen[p].key].tx

----------------------------------------------------------------------------
\* Division by the elapsed seconds keeps the order (rateOf).
LEMMA DivisionIsMonotone ==
  ASSUME NEW a \in Nat, NEW b \in Nat, NEW c \in Nat \ {0}, a <= b
  PROVE  a \div c <= b \div c
BY SMT

\* No rate is reported when the report has left.
LEMMA NothingReported ==
  ASSUME reportSent
  PROVE  RatesAreReal'
BY DEF reportSent, RatesAreReal, noRate

\* A sample is truthful whatever the wiring of the ports.
LEMMA ShownIsTruthful ==
  ASSUME NEW wiring \in [RatePorts -> Iface \cup {NoIface}],
         NEW full \in [RatePorts -> BOOLEAN], NEW up \in [RatePorts -> BOOLEAN]
  PROVE  Truthful([p \in RatePorts |-> shows(wiring[p], full[p], up[p])])
BY RatesAssumption DEF Truthful, shows

\* The rates that applyTrafficRates computes from truthful samples are real.
LEMMA RatesOfTruthful ==
  ASSUME RInv, NEW seen, Truthful(seen), applyTrafficRates(seen)
  PROVE  RatesAreReal'
<1> SUFFICES ASSUME NEW p \in RatePorts, rates'[p].set
             PROVE  /\ rates'[p].elapsed > 0 /\ rates'[p].rx >= 0 /\ rates'[p].tx >= 0
                    /\ rates'[p].rx <= rates'[p].real.rx \div rates'[p].elapsed
                    /\ rates'[p].tx <= rates'[p].real.tx \div rates'[p].elapsed
                    /\ rates'[p].exact =>
                         /\ rates'[p].rx = rates'[p].real.rx \div rates'[p].elapsed
                         /\ rates'[p].tx = rates'[p].real.tx \div rates'[p].elapsed
  BY DEF RatesAreReal
<1> DEFINE i == seen[p].key
<1>1. rates'[p] = Rates(seen, p)
  BY DEF applyTrafficRates
<1>2. /\ i \in Iface /\ Comparable(seen[p], i) /\ rates'[p] = rateOf(seen[p], i) /\ seen[p].set
  BY <1>1 DEF Rates, noRate, FirstPort, Sampled
<1>3. /\ seen[p].rx = host[i].rx /\ seen[p].tx = host[i].tx
      /\ host[i].rx \in Nat /\ host[i].tx \in Nat
      /\ previous[i].rx \in Nat /\ previous[i].tx \in Nat /\ previous[i].taken
      /\ moved[i].rx \in Nat /\ moved[i].tx \in Nat /\ age[i] \in Nat \ {0}
      /\ seen[p].rx >= previous[i].rx /\ seen[p].tx >= previous[i].tx
  BY <1>2 DEF Truthful, RInv, RatesTypeOK, Counts, Comparable
<1> DEFINE received == seen[p].rx - previous[i].rx
           sent == seen[p].tx - previous[i].tx
<1>4. /\ received \in Nat /\ sent \in Nat
      /\ received <= moved[i].rx /\ sent <= moved[i].tx
      /\ ~ restarted[i] => received = moved[i].rx /\ sent = moved[i].tx
  <2>1. Tracked(i) /\ restarted[i] \in BOOLEAN
    BY <1>2 DEF RInv, RatesTypeOK
  <2> HIDE DEF i
  <2>2. QED BY <1>3, <2>1 DEF Tracked
<1>5. /\ rates'[p].rx = received \div age[i] /\ rates'[p].tx = sent \div age[i]
      /\ rates'[p].real = moved[i] /\ rates'[p].elapsed = age[i]
      /\ rates'[p].exact = ~ restarted[i]
  BY <1>2 DEF rateOf
<1> HIDE DEF i, received, sent
<1>6. received \div age[i] <= moved[i].rx \div age[i]
  BY <1>3, <1>4, DivisionIsMonotone
<1>7. sent \div age[i] <= moved[i].tx \div age[i]
  BY <1>3, <1>4, DivisionIsMonotone
<1>8. received \div age[i] >= 0 /\ sent \div age[i] >= 0
  BY <1>3, <1>4, SMT
<1>9. age[i] > 0
  BY <1>3
<1> QED
  BY <1>4, <1>5, <1>6, <1>7, <1>8, <1>9

\* Of the ports that show an interface one is the last (applyTrafficRates).
LEMMA LastPortExists ==
  ASSUME NEW S \in SUBSET RatePorts, S # {}
  PROVE  \E p \in RatePorts : LastPort(S, p)
<1>1. PICK n \in Nat : RatePorts \subseteq 0 .. n
  BY RatesAssumption
<1> DEFINE T == {k \in 0 .. n : n - k \in S}
<1>2. T \subseteq Nat /\ T # {}
  <2>1. PICK p \in S : TRUE
    OBVIOUS
  <2>2. p \in 0 .. n
    BY <1>1
  <2>3. n - p \in 0 .. n /\ n - (n - p) = p
    BY <2>2
  <2> QED
    BY <2>3
<1>3. PICK k \in T : \A j \in T : ~ (<<j, k>> \in OpToRel(<, Nat))
  BY <1>2, NatLessThanWellFounded, WFMin
<1>4. \A j \in T : ~ (j < k)
  BY <1>2, <1>3 DEF OpToRel
<1>5. n - k \in S
  OBVIOUS
<1>6. ASSUME NEW q \in S
      PROVE  q <= n - k
  <2>1. q \in 0 .. n
    BY <1>1
  <2>2. n - q \in T
    BY <2>1
  <2> QED
    BY <2>1, <2>2, <1>4
<1> QED
  BY <1>5, <1>6 DEF LastPort

\* The samples a heartbeat stores are the counters of the host.
LEMMA SamplesKeepInvariant ==
  ASSUME RInv, NEW seen, Truthful(seen), applyTrafficRates(seen)
  PROVE  RInv'
<1> DEFINE last(i) == CHOOSE p \in RatePorts : LastPort(Sampled(seen, i), p)
<1>1. ASSUME NEW i \in Iface, Sampled(seen, i) # {}
      PROVE  sampleOf(seen[last(i)]) = [taken |-> TRUE, rx |-> host[i].rx, tx |-> host[i].tx]
  <2>1. Sampled(seen, i) \in SUBSET RatePorts
    BY DEF Sampled
  <2>2. last(i) \in RatePorts /\ LastPort(Sampled(seen, i), last(i))
    BY <1>1, <2>1, LastPortExists
  <2> HIDE DEF last
  <2>3. seen[last(i)].key = i /\ seen[last(i)].set
    BY <2>2 DEF LastPort, Sampled
  <2> QED
    BY <2>2, <2>3 DEF Truthful, sampleOf
<1>2. host' = host
  BY DEF applyTrafficRates
<1>3. /\ previous' = [i \in Iface |-> IF Sampled(seen, i) = {} THEN previous[i] ELSE sampleOf(seen[last(i)])]
      /\ age' = [i \in Iface |-> IF Sampled(seen, i) = {} THEN age[i] ELSE 0]
      /\ moved' = [i \in Iface |-> IF Sampled(seen, i) = {} THEN moved[i] ELSE noBytes]
      /\ restarted' = [i \in Iface |-> Sampled(seen, i) = {} /\ restarted[i]]
  BY DEF applyTrafficRates
<1> HIDE DEF last
<1>4. RatesTypeOK'
  <2>1. ASSUME NEW i \in Iface, Sampled(seen, i) # {}
        PROVE  sampleOf(seen[last(i)]) \in [taken : BOOLEAN, rx : Nat, tx : Nat]
    <3>1. host[i].rx \in Nat /\ host[i].tx \in Nat
      BY DEF RInv, RatesTypeOK
    <3>2. sampleOf(seen[last(i)]) = [taken |-> TRUE, rx |-> host[i].rx, tx |-> host[i].tx]
      BY <2>1, <1>1
    <3> QED
      BY <3>1, <3>2
  <2>2. previous' \in [Iface -> [taken : BOOLEAN, rx : Nat, tx : Nat]]
    BY <1>3, <2>1 DEF RInv, RatesTypeOK
  <2>3. age' \in [Iface -> Nat] /\ moved' \in [Iface -> Counts]
    BY <1>3 DEF RInv, RatesTypeOK, noBytes, Counts
  <2>4. restarted' \in [Iface -> BOOLEAN]
    BY <1>3 DEF RInv, RatesTypeOK
  <2> QED
    BY <1>2, <2>2, <2>3, <2>4 DEF RInv, RatesTypeOK
<1>5. ASSUME NEW i \in Iface
      PROVE  Tracked(i)'
  <2>1. CASE Sampled(seen, i) = {}
    BY <2>1, <1>2, <1>3 DEF RInv, Tracked, RatesTypeOK
  <2>2. CASE Sampled(seen, i) # {}
    <3>1. /\ previous'[i].rx = host[i].rx /\ previous'[i].tx = host[i].tx
          /\ moved'[i].rx = 0 /\ moved'[i].tx = 0 /\ ~ restarted'[i]
      <4>1. previous'[i] = [taken |-> TRUE, rx |-> host[i].rx, tx |-> host[i].tx]
        BY <2>2, <1>1, <1>3
      <4>2. moved'[i] = [rx |-> 0, tx |-> 0] /\ ~ restarted'[i]
        BY <2>2, <1>3 DEF noBytes
      <4> QED
        BY <4>1, <4>2
    <3>2. host[i].rx \in Nat /\ host[i].tx \in Nat
      BY DEF RInv, RatesTypeOK
    <3> QED
      BY <3>1, <3>2, <1>2 DEF Tracked
  <2> QED
    BY <2>1, <2>2
<1> QED
  BY <1>4, <1>5 DEF RInv

\* The host only moves the counter and what has moved together, or restarts it
\* (Receive, Transmit, LinkChange, CounterReset, SecondPasses).
LEMMA HostKeepsInvariant ==
  ASSUME RInv, HostNext
  PROVE  RInv' /\ RatesAreReal'
<1>1. RatesAreReal'
  BY NothingReported DEF HostNext, Receive, Transmit, LinkChange, CounterReset, SecondPasses
<1>2. ASSUME NEW i \in Iface, Receive(i)
      PROVE  RInv'
  <2>1. RatesTypeOK'
    BY <1>2 DEF RInv, RatesTypeOK, Receive, Counts
  <2>2. ASSUME NEW j \in Iface PROVE Tracked(j)'
    <3>1. /\ host'[j].rx = IF j = i THEN host[j].rx + 1 ELSE host[j].rx
          /\ moved'[j].rx = IF j = i THEN moved[j].rx + 1 ELSE moved[j].rx
          /\ host'[j].tx = host[j].tx /\ moved'[j].tx = moved[j].tx
          /\ previous' = previous /\ restarted' = restarted
      BY <1>2 DEF RInv, RatesTypeOK, Receive, Counts
    <3>2. /\ host[j].rx \in Nat /\ moved[j].rx \in Nat /\ previous[j].rx \in Nat
          /\ Tracked(j)
      BY DEF RInv, RatesTypeOK, Counts
    <3> QED
      BY <3>1, <3>2 DEF Tracked
  <2> QED
    BY <2>1, <2>2 DEF RInv
<1>3. ASSUME NEW i \in Iface, Transmit(i)
      PROVE  RInv'
  <2>1. RatesTypeOK'
    BY <1>3 DEF RInv, RatesTypeOK, Transmit, Counts
  <2>2. ASSUME NEW j \in Iface PROVE Tracked(j)'
    <3>1. /\ host'[j].tx = IF j = i THEN host[j].tx + 1 ELSE host[j].tx
          /\ moved'[j].tx = IF j = i THEN moved[j].tx + 1 ELSE moved[j].tx
          /\ host'[j].rx = host[j].rx /\ moved'[j].rx = moved[j].rx
          /\ previous' = previous /\ restarted' = restarted
      BY <1>3 DEF RInv, RatesTypeOK, Transmit, Counts
    <3>2. /\ host[j].tx \in Nat /\ moved[j].tx \in Nat /\ previous[j].tx \in Nat
          /\ Tracked(j)
      BY DEF RInv, RatesTypeOK, Counts
    <3> QED
      BY <3>1, <3>2 DEF Tracked
  <2> QED
    BY <2>1, <2>2 DEF RInv
<1>4. ASSUME NEW i \in Iface, LinkChange(i)
      PROVE  RInv'
  <2>1. RatesTypeOK'
    BY <1>4 DEF RInv, RatesTypeOK, LinkChange
  <2>2. ASSUME NEW j \in Iface PROVE Tracked(j)'
    BY <1>4, <2>2 DEF RInv, RatesTypeOK, Tracked, LinkChange
  <2> QED
    BY <2>1, <2>2 DEF RInv
<1>5. ASSUME NEW i \in Iface, CounterReset(i)
      PROVE  RInv'
  <2>1. RatesTypeOK'
    BY <1>5 DEF RInv, RatesTypeOK, CounterReset
  <2>2. ASSUME NEW j \in Iface PROVE Tracked(j)'
    BY <1>5, <2>2 DEF RInv, RatesTypeOK, Tracked, CounterReset, Counts
  <2> QED
    BY <2>1, <2>2 DEF RInv
<1>6. ASSUME SecondPasses
      PROVE  RInv'
  <2>1. RatesTypeOK'
    BY <1>6 DEF RInv, RatesTypeOK, SecondPasses
  <2>2. ASSUME NEW j \in Iface PROVE Tracked(j)'
    BY <1>6, <2>2 DEF RInv, Tracked, SecondPasses
  <2> QED
    BY <2>1, <2>2 DEF RInv
<1> QED
  BY <1>1, <1>2, <1>3, <1>4, <1>5, <1>6 DEF HostNext

\* At first the tracker has no sample and the report no rate.
LEMMA RatesStart == RatesInit => RInv /\ RatesAreReal
<1> SUFFICES ASSUME RatesInit PROVE RInv /\ RatesAreReal
  OBVIOUS
<1>1. RatesTypeOK
  BY DEF RatesInit, RatesTypeOK, Counts, noSample, noBytes
<1>2. \A i \in Iface : Tracked(i)
  BY DEF RatesInit, Tracked, noSample
<1>3. RatesAreReal
  BY DEF RatesInit, RatesAreReal, noRate
<1> QED
  BY <1>1, <1>2, <1>3 DEF RInv
----------------------------------------------------------------------------
\* Whatever the host's counters do, however the ports are wired and whichever
\* reads fail, no reported rate is negative or above what really went through
\* the interface since its last sample (Rates, applyTrafficRates).
THEOREM RatesReal == RatesSpec => []RatesAreReal
<1>1. RInv /\ RatesAreReal /\ [RatesNext]_rateVars => (RInv /\ RatesAreReal)'
  <2> SUFFICES ASSUME RInv, RatesAreReal, [RatesNext]_rateVars
               PROVE  (RInv /\ RatesAreReal)'
    OBVIOUS
  <2>1. CASE HostNext
    BY <2>1, HostKeepsInvariant
  <2>2. ASSUME NEW wiring \in [RatePorts -> Iface \cup {NoIface}],
               NEW full \in [RatePorts -> BOOLEAN], NEW up \in [RatePorts -> BOOLEAN],
               applyTrafficRates([p \in RatePorts |-> shows(wiring[p], full[p], up[p])])
        PROVE  (RInv /\ RatesAreReal)'
    BY <2>2, ShownIsTruthful, RatesOfTruthful, SamplesKeepInvariant
  <2>3. CASE UNCHANGED rateVars
    BY <2>3 DEF RInv, RatesTypeOK, Tracked, RatesAreReal, rateVars
  <2> QED
    BY <2>1, <2>2, <2>3 DEF RatesNext
<1> QED
  BY <1>1, RatesStart, PTL DEF RatesSpec

----------------------------------------------------------------------------
(* One port through the loop over the overrides, and what comes after it:  *)
(* the operator has the last word.                                         *)

\* Port p after every turn of a loop over overrides.
PortAfter(g, all, list, p) ==
  /\ g[0] = all[p] /\ g[Len(list)] = ApplyPortOverrides(all, list)[p]
  /\ \A k \in 0 .. Len(list) : DOMAIN g[k] = portFields
  /\ \A k \in 1 .. Len(list) :
       g[k] = IF list[k].port = p THEN portOverrideSetters(g[k - 1], list[k]) ELSE g[k - 1]

\* What the loop over the overrides makes of one port (ApplyPortOverrides): only
\* the overrides of the port change it.
LEMMA PortTurns ==
  ASSUME NEW all, IsTable(all), NEW list, Len(list) \in Nat, NEW p \in Port
  PROVE  \E g : PortAfter(g, all, list, p)
<1> DEFINE n == Len(list)
           f == Overridden!folded(all, list)
           K == {k \in 0 .. n : IsTable(f[k])}
           g == [k \in 0 .. n |-> f[k][p]]
<1>1. f[0] = all /\ \A k \in 1 .. n : f[k] = applyOverride(f[k - 1], list[k])
  BY Overridden!FoldedSteps
<1>2. ApplyPortOverrides(all, list) = f[n]
  BY DEF ApplyPortOverrides, Overridden!Fold
<1> HIDE DEF f
<1>3. 0 \in K
  BY <1>1
<1>4. ASSUME NEW k \in 1 .. n, k - 1 \in K PROVE k \in K
  <2> DEFINE b == f[k - 1]
             o == list[k]
  <2>1. f[k] = applyOverride(b, o) /\ IsTable(b)
    BY <1>1, <1>4
  <2> HIDE DEF b, o
  <2>2. CASE o.port \in Port
    <3>1. f[k] = [b EXCEPT ![o.port] = portOverrideSetters(b[o.port], o)]
      BY <2>1, <2>2 DEF applyOverride, IsTable
    <3>2. /\ DOMAIN portOverrideSetters(b[o.port], o) = portFields
          /\ portOverrideSetters(b[o.port], o).neighbors = b[o.port].neighbors
      BY <2>1, <2>2, SettersKeep DEF IsTable
    <3>3. IsTable(f[k])
      BY <2>1, <3>1, <3>2 DEF IsTable
    <3>4. QED BY <3>3
  <2>3. CASE o.port \notin Port
    BY <2>1, <2>3 DEF applyOverride, IsTable
  <2>4. QED BY <2>2, <2>3
<1>5. \A k \in 0 .. n : k \in K
  <2> HIDE DEF K
  <2>1. QED BY <1>3, <1>4, Overridden!TurnByTurn
<1>6. \A k \in 0 .. n : IsTable(f[k])
  BY <1>5
<1>7. ASSUME NEW k \in 1 .. n
      PROVE  f[k][p] = IF list[k].port = p THEN portOverrideSetters(f[k - 1][p], list[k]) ELSE f[k - 1][p]
  <2> DEFINE b == f[k - 1]
             o == list[k]
  <2>1. f[k] = applyOverride(b, o) /\ IsTable(b)
    BY <1>1, <1>6
  <2> HIDE DEF b, o
  <2>2. f[k][p] = IF o.port = p THEN portOverrideSetters(b[p], o) ELSE b[p]
    BY <2>1 DEF applyOverride, IsTable
  <2>3. QED BY <2>2 DEF b, o
<1>8. /\ g[0] = all[p] /\ g[n] = ApplyPortOverrides(all, list)[p]
      /\ \A k \in 0 .. n : DOMAIN g[k] = portFields
  BY <1>1, <1>2, <1>6 DEF IsTable
<1>9. \A k \in 1 .. n : g[k] = IF list[k].port = p THEN portOverrideSetters(g[k - 1], list[k]) ELSE g[k - 1]
  BY <1>7
<1> HIDE DEF g
<1>10. PortAfter(g, all, list, p)
  BY <1>8, <1>9 DEF PortAfter
<1>11. QED BY <1>10

\* What a setter leaves of the facts of a port: the texts are replaced by what
\* is given ...
LEMMA SettersText ==
  ASSUME NEW port, DOMAIN port = portFields, NEW o, NEW new, new = portOverrideSetters(port, o)
  PROVE  /\ new.name = text(o.name, port.name) /\ new.interface = text(o.interface, port.interface)
         /\ new.ip = text(o.ip, port.ip) /\ new.role = text(o.role, port.role)
         /\ new.group = text(o.group, port.group) /\ new.conf = text(o.conf, port.conf)
<1> DEFINE Same(r, s) == /\ DOMAIN s = portFields /\ s.name = r.name /\ s.interface = r.interface /\ s.ip = r.ip
                         /\ s.role = r.role /\ s.group = r.group /\ s.conf = r.conf
           a == setPortOverrideStrings(port, o)
           b == setPortOverrideAssignment(a, o)
           c == setPortOverrideSpeed(b, o)
           d == setPortOverrideWANHealth(c, o)
           e == setPortOverrideCounters(d, o)
           f == setPortOverrideMedia(e, o)
           g == setPortOverrideLinkState(f, o)
<1>1. /\ DOMAIN a = portFields
      /\ a.name = text(o.name, port.name) /\ a.interface = text(o.interface, port.interface)
      /\ a.ip = text(o.ip, port.ip) /\ a.role = text(o.role, port.role)
      /\ a.group = text(o.group, port.group) /\ a.conf = text(o.conf, port.conf)
  BY DEF portFields, setPortOverrideStrings
<1>2. ASSUME NEW r, DOMAIN r = portFields
      PROVE  Same(r, setPortOverrideAssignment(r, o)) /\ Same(r, setPortOverrideSpeed(r, o))
  BY <1>2 DEF portFields, setPortOverrideAssignment, setPortOverrideSpeed
<1>3. ASSUME NEW r, DOMAIN r = portFields
      PROVE  Same(r, setPortOverrideWANHealth(r, o)) /\ Same(r, setPortOverrideCounters(r, o))
  BY <1>3 DEF portFields, setPortOverrideWANHealth, setPortOverrideCounters
<1>4. ASSUME NEW r, DOMAIN r = portFields
      PROVE  Same(r, setPortOverrideMedia(r, o)) /\ Same(r, setPortOverrideLinkState(r, o))
  BY <1>4 DEF portFields, setPortOverrideMedia, setPortOverrideLinkState
<1>5. ASSUME NEW r, DOMAIN r = portFields
      PROVE  Same(r, setPortOverrideDisabled(r, o))
  BY <1>5 DEF portFields, setPortOverrideDisabled
<1>6. new = setPortOverrideDisabled(g, o)
  BY DEF portOverrideSetters
<1> HIDE DEF a, b, c, d, e, f, g
<1>7. Same(a, b) /\ Same(b, c) /\ Same(c, d) /\ Same(d, e) /\ Same(e, f) /\ Same(f, g) /\ Same(g, new)
  BY <1>1, <1>2, <1>3, <1>4, <1>5, <1>6 DEF b, c, d, e, f, g
<1>8. QED BY <1>1, <1>7

\* The counters of a port after an override.
isCountedBy(new, port, o) ==
  /\ new.rx = IF o.set \/ o.rx # 0 THEN o.rx ELSE port.rx
  /\ new.tx = IF o.set \/ o.tx # 0 THEN o.tx ELSE port.tx
  /\ new.set = (o.set \/ port.set)

\* ... the counters by a sample or by what is not zero ...
LEMMA SettersCounters ==
  ASSUME NEW port, DOMAIN port = portFields, NEW o, NEW new, new = portOverrideSetters(port, o)
  PROVE  isCountedBy(new, port, o)
<1> DEFINE Same(r, s) == DOMAIN s = portFields /\ s.rx = r.rx /\ s.tx = r.tx /\ s.set = r.set
           a == setPortOverrideStrings(port, o)
           b == setPortOverrideAssignment(a, o)
           c == setPortOverrideSpeed(b, o)
           d == setPortOverrideWANHealth(c, o)
           e == setPortOverrideCounters(d, o)
           f == setPortOverrideMedia(e, o)
           g == setPortOverrideLinkState(f, o)
<1>1. ASSUME NEW r, DOMAIN r = portFields
      PROVE  /\ DOMAIN setPortOverrideCounters(r, o) = portFields
             /\ setPortOverrideCounters(r, o).rx = IF o.set \/ o.rx # 0 THEN o.rx ELSE r.rx
             /\ setPortOverrideCounters(r, o).tx = IF o.set \/ o.tx # 0 THEN o.tx ELSE r.tx
             /\ setPortOverrideCounters(r, o).set = (o.set \/ r.set)
  BY <1>1 DEF portFields, setPortOverrideCounters
<1>2. ASSUME NEW r, DOMAIN r = portFields
      PROVE  Same(r, setPortOverrideAssignment(r, o)) /\ Same(r, setPortOverrideSpeed(r, o))
  BY <1>2 DEF portFields, setPortOverrideAssignment, setPortOverrideSpeed
<1>3. ASSUME NEW r, DOMAIN r = portFields
      PROVE  Same(r, setPortOverrideWANHealth(r, o)) /\ Same(r, setPortOverrideStrings(r, o))
  BY <1>3 DEF portFields, setPortOverrideWANHealth, setPortOverrideStrings
<1>4. ASSUME NEW r, DOMAIN r = portFields
      PROVE  Same(r, setPortOverrideMedia(r, o)) /\ Same(r, setPortOverrideLinkState(r, o))
  BY <1>4 DEF portFields, setPortOverrideMedia, setPortOverrideLinkState
<1>5. ASSUME NEW r, DOMAIN r = portFields
      PROVE  Same(r, setPortOverrideDisabled(r, o))
  BY <1>5 DEF portFields, setPortOverrideDisabled
<1>6. new = setPortOverrideDisabled(g, o)
  BY DEF portOverrideSetters
<1> HIDE DEF a, b, c, d, e, f, g
<1>7. Same(port, a) /\ Same(a, b) /\ Same(b, c) /\ Same(c, d)
  BY <1>2, <1>3 DEF a, b, c, d
<1>8. DOMAIN e = portFields /\ Same(e, f) /\ Same(f, g) /\ Same(g, new)
  BY <1>1, <1>4, <1>5, <1>6, <1>7 DEF e, f, g
<1>9. /\ e.rx = IF o.set \/ o.rx # 0 THEN o.rx ELSE d.rx
      /\ e.tx = IF o.set \/ o.tx # 0 THEN o.tx ELSE d.tx
      /\ e.set = (o.set \/ d.set)
  BY <1>1, <1>7 DEF e
<1>10. QED BY <1>7, <1>8, <1>9 DEF isCountedBy

\* The link of a port after an override.
isLinkedBy(new, port, o) ==
  /\ new.up = IF o.up = "" THEN port.up ELSE (o.up = "up")
  /\ o.speed > 0 => new.speed = o.speed
  /\ o.speed <= 0 => new.speed = IF o.up = "down" THEN 0 ELSE port.speed

\* ... and the link by what an override that does not disable the port says: a
\* link that goes down has no speed.
LEMMA SettersLink ==
  ASSUME NEW port, DOMAIN port = portFields, NEW o, NEW new, new = portOverrideSetters(port, o),
         ~ o.disabled, o.speed \in Int
  PROVE  isLinkedBy(new, port, o)
<1> DEFINE Same(r, s) == DOMAIN s = portFields /\ s.up = r.up /\ s.speed = r.speed
           a == setPortOverrideStrings(port, o)
           b == setPortOverrideAssignment(a, o)
           c == setPortOverrideSpeed(b, o)
           d == setPortOverrideWANHealth(c, o)
           e == setPortOverrideCounters(d, o)
           f == setPortOverrideMedia(e, o)
           g == setPortOverrideLinkState(f, o)
<1>1. ASSUME NEW r, DOMAIN r = portFields
      PROVE  /\ DOMAIN setPortOverrideLinkState(r, o) = portFields
             /\ setPortOverrideLinkState(r, o).up = IF o.up = "" THEN r.up ELSE (o.up = "up")
             /\ setPortOverrideLinkState(r, o).speed = IF o.up = "down" /\ o.speed <= 0 THEN 0 ELSE r.speed
  BY <1>1 DEF portFields, setPortOverrideLinkState
<1>2. ASSUME NEW r, DOMAIN r = portFields
      PROVE  /\ DOMAIN setPortOverrideSpeed(r, o) = portFields /\ setPortOverrideSpeed(r, o).up = r.up
             /\ setPortOverrideSpeed(r, o).speed = IF o.speed <= 0 THEN r.speed ELSE o.speed
  BY <1>2 DEF portFields, setPortOverrideSpeed
<1>3. ASSUME NEW r, DOMAIN r = portFields
      PROVE  Same(r, setPortOverrideWANHealth(r, o)) /\ Same(r, setPortOverrideStrings(r, o))
  BY <1>3 DEF portFields, setPortOverrideWANHealth, setPortOverrideStrings
<1>4. ASSUME NEW r, DOMAIN r = portFields
      PROVE  Same(r, setPortOverrideMedia(r, o)) /\ Same(r, setPortOverrideCounters(r, o))
  BY <1>4 DEF portFields, setPortOverrideMedia, setPortOverrideCounters
<1>5. ASSUME NEW r, DOMAIN r = portFields
      PROVE  Same(r, setPortOverrideAssignment(r, o))
  BY <1>5 DEF portFields, setPortOverrideAssignment
<1>6. new = g
  BY DEF portOverrideSetters, setPortOverrideDisabled
<1> HIDE DEF a, b, c, d, e, f, g
<1>7. Same(port, a) /\ Same(a, b)
  BY <1>3, <1>5 DEF a, b
<1>8. DOMAIN c = portFields /\ c.up = b.up /\ c.speed = IF o.speed <= 0 THEN b.speed ELSE o.speed
  BY <1>2, <1>7 DEF c
<1>9. Same(c, d) /\ Same(d, e) /\ Same(e, f)
  BY <1>3, <1>4, <1>8 DEF d, e, f
<1>10. /\ g.up = IF o.up = "" THEN f.up ELSE (o.up = "up")
       /\ g.speed = IF o.up = "down" /\ o.speed <= 0 THEN 0 ELSE f.speed
  BY <1>1, <1>9 DEF g
<1>11. g.up = IF o.up = "" THEN port.up ELSE (o.up = "up")
  BY <1>7, <1>8, <1>9, <1>10
<1>12. g.speed = IF o.up = "down" /\ o.speed <= 0 THEN 0 ELSE IF o.speed <= 0 THEN port.speed ELSE o.speed
  BY <1>7, <1>8, <1>9, <1>10
<1> HIDE DEF Same
<1>13. o.speed > 0 => ~ (o.speed <= 0)
  OBVIOUS
<1>14. QED BY <1>6, <1>11, <1>12, <1>13 DEF isLinkedBy

----------------------------------------------------------------------------
(* The overrides of the operator.                                          *)

\* What is read for an interface, whatever its quality.
isSeen(seen, i) ==
  /\ seen.interface = i /\ seen.up \in {"", "up", "down"} /\ seen.speed \in Int /\ seen.ip \in {"", i}
  /\ (seen.set \/ seen.rx # 0 \/ seen.tx # 0) =>
       i \in Iface /\ seen.set /\ seen.rx = host[i].rx /\ seen.tx = host[i].tx
  /\ seen.up = "up" => i \in Iface /\ host[i].up

\* A reading tells the host's state of the interface, or nothing
\* (ObserveInterface).
LEMMA ReadingIsSeen ==
  ASSUME NEW i, NEW quality
  PROVE  isSeen(ObserveInterface(i, quality), i)
<1> DEFINE seen == ObserveInterface(i, quality)
           linked == i \in Iface /\ quality \in {"full", "linked"}
           counted == i \in Iface /\ quality \in {"full", "counted"}
<1>1. /\ seen.interface = i /\ seen.ip = IF linked \/ counted THEN i ELSE ""
      /\ seen.up = IF ~ linked THEN "" ELSE IF host[i].up THEN "up" ELSE "down"
      /\ seen.speed = IF linked /\ host[i].up THEN HostSpeed ELSE 0
      /\ seen.set = counted /\ seen.rx = (IF counted THEN host[i].rx ELSE 0)
      /\ seen.tx = IF counted THEN host[i].tx ELSE 0
  BY DEF ObserveInterface
<1>2. HostSpeed \in Int
  <2>1. HostSpeed \in Nat \ {0}
    BY ReportAssumption
  <2>2. QED BY <2>1
<1> HIDE DEF seen
<1>3. seen.interface = i /\ seen.up \in {"", "up", "down"} /\ seen.speed \in Int /\ seen.ip \in {"", i}
  <2>1. seen.speed \in {HostSpeed, 0}
    BY <1>1
  <2>2. seen.speed \in Int
    BY <1>2, <2>1
  <2>3. seen.up \in {"", "up", "down"}
    BY <1>1
  <2>4. seen.ip \in {"", i}
    BY <1>1
  <2>5. QED BY <1>1, <2>2, <2>3, <2>4
<1>4. (seen.set \/ seen.rx # 0 \/ seen.tx # 0) =>
        i \in Iface /\ seen.set /\ seen.rx = host[i].rx /\ seen.tx = host[i].tx
  BY <1>1
<1>5. seen.up = "up" => i \in Iface /\ host[i].up
  BY <1>1
<1>6. QED BY <1>3, <1>4, <1>5 DEF isSeen, seen

\* What an override is after its interface was read: all that the operator has
\* set, and what the host says of the rest (ApplyObservation).
isEnriched(e, o, i) ==
  /\ e.port = o.port /\ e.disabled = o.disabled /\ e.speed \in Int
  /\ e.name = o.name /\ e.role = o.role /\ e.group = o.group /\ e.conf = o.conf
  /\ e.interface = text(o.interface, i) /\ e.ip \in {text(o.ip, ""), text(o.ip, i)}
  /\ e.up = o.up \/ (o.up = "" /\ e.up \in {"up", "down"} /\ (e.up = "up" => i \in Iface /\ host[i].up))
  /\ e.up # ""
  /\ (o.speed > 0 => e.speed = o.speed) /\ (o.speed <= 0 => e.speed <= 0 \/ e.up = "up")
  /\ (e.set \/ e.rx # 0 \/ e.tx # 0) =>
       i \in Iface /\ e.set /\ e.rx = host[i].rx /\ e.tx = host[i].tx

\* Reading the interface of an override makes it such a one.
LEMMA ObservationEnriches ==
  ASSUME NEW o, DOMAIN o = overrideFields, o.speed \in Int, NEW i, NEW seen, isSeen(seen, i)
  PROVE  isEnriched(ApplyObservation(o, seen), o, i)
<1> DEFINE e == ApplyObservation(o, seen)
           up == IF o.up # "" THEN o.up ELSE IF seen.up = "up" THEN "up" ELSE "down"
<1>1. /\ e.port = o.port /\ e.disabled = o.disabled
      /\ e.name = o.name /\ e.role = o.role /\ e.group = o.group /\ e.conf = o.conf
  BY DEF ApplyObservation, overrideFields
<1>2. e.interface = text(o.interface, seen.interface) /\ e.ip = text(o.ip, seen.ip)
  BY DEF ApplyObservation, overrideFields
<1>3. e.up = up
  BY DEF ApplyObservation, overrideFields
<1>4. e.speed = IF o.speed <= 0 /\ up = "up" /\ seen.speed > 0 THEN seen.speed ELSE o.speed
  BY DEF ApplyObservation, overrideFields
<1>5. e.rx = seen.rx /\ e.tx = seen.tx
  BY DEF ApplyObservation, overrideFields
<1>6. e.set = (seen.set \/ seen.rx # 0 \/ seen.tx # 0)
  BY DEF ApplyObservation, overrideFields
<1> HIDE DEF e
<1>7. e.interface = text(o.interface, i) /\ e.ip \in {text(o.ip, ""), text(o.ip, i)}
  BY <1>2 DEF isSeen
<1>8. /\ e.up = o.up \/ (o.up = "" /\ e.up \in {"up", "down"} /\ (e.up = "up" => i \in Iface /\ host[i].up))
      /\ e.up # ""
  BY <1>3 DEF isSeen
<1>9. e.speed \in Int /\ (o.speed > 0 => e.speed = o.speed) /\ (o.speed <= 0 => e.speed <= 0 \/ e.up = "up")
  <2>1. seen.speed \in Int
    BY DEF isSeen
  <2>2. e.speed \in Int
    BY <1>4, <2>1
  <2>3. o.speed > 0 => e.speed = o.speed
    <3>1. o.speed > 0 => ~ (o.speed <= 0)
      OBVIOUS
    <3>2. QED BY <1>4, <3>1
  <2>4. o.speed <= 0 => e.speed <= 0 \/ e.up = "up"
    BY <1>3, <1>4
  <2>5. QED BY <2>2, <2>3, <2>4
<1>10. (e.set \/ e.rx # 0 \/ e.tx # 0) =>
         i \in Iface /\ e.set /\ e.rx = host[i].rx /\ e.tx = host[i].tx
  BY <1>5, <1>6 DEF isSeen
<1>11. QED BY <1>1, <1>7, <1>8, <1>9, <1>10 DEF isEnriched, e

toldFields == {"name", "interface", "ip", "role", "group", "conf", "up", "speed"}

\* What the heartbeat makes of an override before it lays it over the ports.
isRefreshed(e, o) ==
  /\ o.interface = "" => e = o
  /\ o.interface # "" => isEnriched(e, o, o.interface)

\* RefreshOverrides: one for each.
LEMMA Refreshed ==
  ASSUME isList(overrides), \A k \in DOMAIN overrides : isConfigured(overrides[k]), NEW refreshed,
         NEW enriched, enriched = enrichedOverrides(refreshed)
  PROVE  /\ isList(enriched) /\ Len(enriched) = Len(overrides) /\ DOMAIN enriched = DOMAIN overrides
         /\ \A k \in DOMAIN overrides : isRefreshed(enriched[k], overrides[k])
<1> DEFINE seen == [k \in DOMAIN overrides |-> ObserveInterface(overrides[k].interface, refreshed[k])]
<1>1. /\ DOMAIN enriched = DOMAIN overrides /\ enriched = [k \in DOMAIN enriched |-> enriched[k]]
      /\ \A k \in DOMAIN overrides :
           enriched[k] = IF overrides[k].interface = "" THEN overrides[k] ELSE ApplyObservation(overrides[k], seen[k])
  BY DEF enrichedOverrides, RefreshOverrides
<1>2. isList(enriched) /\ Len(enriched) = Len(overrides)
  <2>1. Len(overrides) \in Nat /\ DOMAIN enriched = 1 .. Len(overrides)
    BY <1>1 DEF isList
  <2>2. enriched = [k \in 1 .. Len(overrides) |-> enriched[k]]
    BY <1>1, <2>1
  <2>3. Len(enriched) = Len(overrides)
    BY <2>1, <2>2
  <2>4. QED BY <2>1, <2>3 DEF isList
<1>3. ASSUME NEW k \in DOMAIN overrides PROVE isRefreshed(enriched[k], overrides[k])
  <2> DEFINE o == overrides[k]
             e == enriched[k]
             s == seen[k]
  <2>1. isSeen(s, o.interface)
    BY ReadingIsSeen
  <2>2. DOMAIN o = overrideFields /\ o.speed \in Int
    BY OverrideDomain DEF isConfigured
  <2>3. e = IF o.interface = "" THEN o ELSE ApplyObservation(o, s)
    BY <1>1
  <2> HIDE DEF o, e, s
  <2>4. isEnriched(ApplyObservation(o, s), o, o.interface)
    BY <2>1, <2>2, ObservationEnriches
  <2>5. isRefreshed(e, o)
    BY <2>3, <2>4 DEF isRefreshed
  <2>6. QED BY <2>5 DEF e, o
<1>4. QED BY <1>1, <1>2, <1>3

\* An override sets what it gives and leaves what it does not speak of, also when
\* the interface it names was read.
LEMMA FieldTurn ==
  ASSUME NEW port, DOMAIN port = portFields, NEW o, isConfigured(o), NEW e, isRefreshed(e, o),
         NEW new, new = portOverrideSetters(port, e), NEW field \in toldFields
  PROVE  (given(o, field) => new[field] = says(o, field)) /\ (~ speaks(o, field) => new[field] = port[field])
<1>1. /\ new.name = text(e.name, port.name) /\ new.interface = text(e.interface, port.interface)
      /\ new.ip = text(e.ip, port.ip) /\ new.role = text(e.role, port.role)
      /\ new.group = text(e.group, port.group) /\ new.conf = text(e.conf, port.conf)
  BY SettersText
<1>2. /\ e.name = o.name /\ e.role = o.role /\ e.group = o.group /\ e.conf = o.conf /\ e.interface = o.interface
  BY DEF isRefreshed, isEnriched, text
<1>3. e.ip = o.ip \/ (o.interface # "" /\ o.ip = "")
  BY DEF isRefreshed, isEnriched, text
<1>4. e.up = o.up \/ (o.interface # "" /\ o.up = "")
  BY DEF isRefreshed, isEnriched
<1>5. /\ ~ e.disabled /\ e.speed \in Int /\ o.speed \in Int
      /\ o.speed > 0 => e.speed = o.speed
      /\ o.interface = "" => e.speed = o.speed
  BY DEF isRefreshed, isEnriched, isConfigured
<1>6. isLinkedBy(new, port, e)
  <2>1. ~ e.disabled /\ e.speed \in Int
    BY <1>5
  <2>2. QED BY <2>1, SettersLink
<1>7. CASE field \in {"name", "interface", "role", "group", "conf"}
  BY <1>1, <1>2, <1>7 DEF given, speaks, says, text
<1>8. CASE field = "ip"
  BY <1>1, <1>3, <1>8 DEF given, speaks, says, text
<1>9. CASE field = "up"
  BY <1>4, <1>6, <1>9 DEF given, speaks, says, isLinkedBy
<1>10. CASE field = "speed"
  <2>1. (given(o, field) <=> o.speed > 0) /\ says(o, field) = o.speed
    BY <1>10 DEF given, says
  <2>2. ~ speaks(o, field) => ~ (o.speed > 0) /\ o.interface = "" /\ o.up # "down"
    BY <1>10 DEF speaks, given
  <2>3. ASSUME o.speed > 0 PROVE new.speed = o.speed
    BY <1>5, <1>6, <2>3 DEF isLinkedBy
  <2>4. ASSUME ~ speaks(o, field) PROVE new.speed = port.speed
    <3>1. e.up # "down" /\ e.speed = o.speed
      BY <1>4, <1>5, <2>2, <2>4
    <3>2. ~ (o.speed > 0) /\ o.speed \in Int
      BY <1>5, <2>2, <2>4
    <3>3. e.speed <= 0
      BY <3>1, <3>2
    <3>4. QED BY <1>6, <3>1, <3>3 DEF isLinkedBy
  <2>5. QED BY <1>10, <2>1, <2>3, <2>4
<1>11. QED BY <1>7, <1>8, <1>9, <1>10 DEF toldFields

\* Port p of a table shows what the last override that speaks of a field gives.
Displayed(all, list, p, field) ==
  \A k \in speakers(list, p, field) :
    (k = lastOf(speakers(list, p, field)) /\ given(list[k], field)) => all[p][field] = says(list[k], field)

\* The loop over the overrides leaves on every port what the last override that
\* speaks of a field gives: the later ones do not touch it.
LEMMA OverridesShow ==
  ASSUME NEW seen, IsTable(seen), isList(overrides), \A k \in DOMAIN overrides : isConfigured(overrides[k]),
         NEW refreshed, NEW enriched, enriched = enrichedOverrides(refreshed), NEW p \in Port, NEW field \in toldFields
  PROVE  Displayed(ApplyPortOverrides(seen, enriched), overrides, p, field)
<1> DEFINE n == Len(enriched)
           last == lastOf(speakers(overrides, p, field))
           all == ApplyPortOverrides(seen, enriched)
<1>1. /\ n \in Nat /\ DOMAIN enriched = DOMAIN overrides /\ DOMAIN overrides = 1 .. n
      /\ \A k \in DOMAIN overrides : isRefreshed(enriched[k], overrides[k])
  BY Refreshed DEF isList
<1>2. SUFFICES ASSUME last \in speakers(overrides, p, field), given(overrides[last], field)
               PROVE  all[p][field] = says(overrides[last], field)
  BY DEF Displayed
<1>3. speakers(overrides, p, field) \subseteq 0 .. n
  BY <1>1 DEF speakers
<1>4. last \in 1 .. n /\ overrides[last].port = p
  BY <1>1, <1>2 DEF speakers
<1>5. \A j \in speakers(overrides, p, field) : j <= last
  BY <1>1, <1>2, <1>3, LastPlace
<1>0. PICK g : PortAfter(g, seen, enriched, p)
  BY <1>1, PortTurns
<1>6. /\ g[0] = seen[p] /\ g[n] = all[p]
      /\ \A k \in 0 .. n : DOMAIN g[k] = portFields
      /\ \A k \in 1 .. n :
           g[k] = IF enriched[k].port = p THEN portOverrideSetters(g[k - 1], enriched[k]) ELSE g[k - 1]
  BY <1>0 DEF PortAfter
<1> HIDE DEF all, last
<1>7. ASSUME NEW k \in 1 .. n
      PROVE  /\ k = last => g[k][field] = says(overrides[last], field)
             /\ k > last => g[k][field] = g[k - 1][field]
  <2> DEFINE o == overrides[k]
             e == enriched[k]
  <2>1. isRefreshed(e, o) /\ isConfigured(o) /\ e.port = o.port
    BY <1>1 DEF isRefreshed, isEnriched
  <2>2. g[k] = IF e.port = p THEN portOverrideSetters(g[k - 1], e) ELSE g[k - 1]
    BY <1>6
  <2>3. DOMAIN g[k - 1] = portFields
    BY <1>6
  <2>4. e.port = p => /\ given(o, field) => g[k][field] = says(o, field)
                      /\ ~ speaks(o, field) => g[k][field] = g[k - 1][field]
    <3> HIDE DEF e, o
    <3>1. QED BY <2>1, <2>2, <2>3, FieldTurn
  <2>5. k = last => g[k][field] = says(o, field)
    BY <1>2, <1>4, <2>1, <2>4
  <2>6. ASSUME k > last PROVE g[k][field] = g[k - 1][field]
    <3>1. ~ (k <= last)
      BY <1>4, <2>6
    <3>2. k \notin speakers(overrides, p, field)
      BY <1>5, <3>1
    <3>3. o.port # p \/ ~ speaks(o, field)
      BY <1>1, <3>2 DEF speakers
    <3>4. QED BY <2>1, <2>2, <2>4, <3>3
  <2>7. QED BY <2>5, <2>6
<1> DEFINE v == says(overrides[last], field)
           K == {k \in 0 .. n : k >= last => g[k][field] = v}
<1> HIDE DEF v
<1>8. 0 \in K
  BY <1>1, <1>4
<1>9. ASSUME NEW k \in 1 .. n, k - 1 \in K PROVE k \in K
  <2>1. k - 1 >= last => g[k - 1][field] = v
    BY <1>9
  <2>2. k >= last => k = last \/ (k > last /\ k - 1 >= last)
    BY <1>4
  <2>3. k >= last => g[k][field] = v
    BY <1>7, <2>1, <2>2 DEF v
  <2>4. QED BY <1>1, <2>3
<1>10. n \in K
  <2> HIDE DEF K
  <2>1. \A k \in 0 .. n : k \in K
    BY <1>1, <1>8, <1>9, Overridden!TurnByTurn
  <2>2. QED BY <1>1, <2>1
<1>11. QED BY <1>4, <1>6, <1>10 DEF v

----------------------------------------------------------------------------
(* What comes after the overrides leaves them alone.                       *)

factFields == toldFields \cup {"rx", "tx"}

\* Two tables with the same facts; the later one has no new counters.
hasFactsOf(new, port) == (\A field \in factFields : new[field] = port[field]) /\ (new.set => port.set)

SameFacts(before, all) == \A p \in Port : hasFactsOf(all[p], before[p])

\* A table has its own facts.
LEMMA SameFactsAll ==
  ASSUME NEW all
  PROVE  SameFacts(all, all)
BY DEF SameFacts, hasFactsOf

\* The facts stay through two stages of a heartbeat if they stay through each.
LEMMA SameFactsNext ==
  ASSUME NEW a, NEW b, NEW c, SameFacts(a, b), SameFacts(b, c)
  PROVE  SameFacts(a, c)
BY DEF SameFacts, hasFactsOf

\* A neighbour that is added is no fact.
LEMMA AddNeighborFacts ==
  ASSUME NEW all, IsTable(all), NEW q \in Port, NEW n
  PROVE  SameFacts(all, addNeighbor(all, q, n))
BY DEF IsTable, addNeighbor, SameFacts, hasFactsOf, factFields, toldFields, portFields

\* One turn of the loop over the configured neighbours leaves the facts alone.
LEMMA OneNeighborFacts ==
  ASSUME NEW all, IsTable(all), NEW o
  PROVE  SameFacts(all, applyNeighbor(all, o))
<1>1. CASE o.port \notin Port
  BY <1>1, SameFactsAll DEF applyNeighbor, IsTable
<1>2. CASE o.port \in Port /\ o.client
  <2>1. applyNeighbor(all, o) = [all EXCEPT ![o.port].macs = @ \cup {o.mac}]
    BY <1>2 DEF applyNeighbor, IsTable
  <2>2. QED BY <1>2, <2>1 DEF IsTable, SameFacts, hasFactsOf, factFields, toldFields, portFields
<1>3. CASE o.port \in Port /\ ~ o.client
  <2>1. applyNeighbor(all, o) = addNeighbor(all, o.port, neighborOf(o.mac, "config-port", o.remote))
    BY <1>3 DEF applyNeighbor, IsTable
  <2>2. QED BY <1>3, <2>1, AddNeighborFacts
<1>4. QED BY <1>1, <1>2, <1>3

\* Configured neighbours are no facts.
LEMMA NeighborsFacts ==
  ASSUME NEW all, IsTable(all), NEW list, Len(list) \in Nat
  PROVE  SameFacts(all, ApplyPortNeighbors(all, list))
<1> DEFINE n == Len(list)
           f == Neighbored!folded(all, list)
           K == {k \in 0 .. n : IsTable(f[k]) /\ SameFacts(all, f[k])}
<1>1. f[0] = all /\ \A k \in 1 .. n : f[k] = applyNeighbor(f[k - 1], list[k])
  BY Neighbored!FoldedSteps
<1>2. ApplyPortNeighbors(all, list) = f[n]
  BY DEF ApplyPortNeighbors, Neighbored!Fold
<1> HIDE DEF f
<1>3. 0 \in K
  BY <1>1, SameFactsAll
<1>4. ASSUME NEW k \in 1 .. n, k - 1 \in K PROVE k \in K
  <2> DEFINE b == f[k - 1]
             o == list[k]
  <2>1. f[k] = applyNeighbor(b, o) /\ IsTable(b) /\ SameFacts(all, b)
    BY <1>1, <1>4
  <2> HIDE DEF b, o
  <2>2. IsTable(f[k]) /\ SameFacts(b, f[k])
    BY <2>1, OneNeighborKeeps, OneNeighborFacts
  <2>3. SameFacts(all, f[k])
    BY <2>1, <2>2, SameFactsNext
  <2>4. QED BY <2>2, <2>3
<1>5. n \in K
  <2> HIDE DEF K
  <2>1. \A k \in 0 .. n : k \in K
    BY <1>3, <1>4, Neighbored!TurnByTurn
  <2>2. QED BY <2>1
<1>6. QED BY <1>2, <1>5

\* What LLDP hears is no fact either (applyLLDPNeighbors).
LEMMA HeardFacts ==
  ASSUME NEW all, IsTable(all), NEW bindings, NEW heard, isList(heard)
  PROVE  SameFacts(all, applyLLDPNeighbors(all, bindings, heard))
<1> DEFINE list == [k \in DOMAIN heard |-> [port |-> lldpInterfacePortMap(bindings, heard[k].interface),
                                            mac |-> heard[k].mac, remote |-> heard[k].remote]]
           n == Len(list)
           f == Listened!folded(all, list)
           K == {k \in 0 .. n : IsTable(f[k]) /\ SameFacts(all, f[k])}
<1>0. n \in Nat
  BY DEF isList
<1>1. applyLLDPNeighbors(all, bindings, heard) = f[n]
  BY DEF applyLLDPNeighbors, Listened!Fold
<1> HIDE DEF list
<1>2. f[0] = all /\ \A k \in 1 .. n : f[k] = applyHeard(f[k - 1], list[k])
  BY <1>0, Listened!FoldedSteps
<1> HIDE DEF f
<1>3. 0 \in K
  BY <1>0, <1>2, SameFactsAll
<1>4. ASSUME NEW k \in 1 .. n, k - 1 \in K PROVE k \in K
  <2> DEFINE b == f[k - 1]
             o == list[k]
             new == neighborOf(o.mac, "lldp", o.remote)
  <2>1. f[k] = applyHeard(b, o) /\ IsTable(b) /\ SameFacts(all, b)
    BY <1>2, <1>4
  <2> HIDE DEF b, o
  <2>2. IsTable(f[k]) /\ SameFacts(b, f[k])
    <3>1. CASE o.port \notin Port \/ o.mac = ""
      BY <2>1, <3>1, SameFactsAll DEF applyHeard, IsTable
    <3>2. CASE o.port \in Port /\ o.mac # ""
      <4>1. f[k] = addNeighbor(b, o.port, new)
        BY <2>1, <3>2 DEF applyHeard, IsTable
      <4>2. isNeighbor(new)
        BY <3>2 DEF isNeighbor, neighborOf, configSources
      <4> HIDE DEF new
      <4>3. QED BY <2>1, <3>2, <4>1, <4>2, AddNeighborKeeps, AddNeighborFacts
    <3>3. QED BY <3>1, <3>2
  <2>3. SameFacts(all, f[k])
    BY <2>1, <2>2, SameFactsNext
  <2>4. QED BY <2>2, <2>3
<1>5. n \in K
  <2> HIDE DEF K
  <2>1. \A k \in 0 .. n : k \in K
    BY <1>0, <1>3, <1>4, Listened!TurnByTurn
  <2>2. QED BY <1>0, <2>1
<1>6. QED BY <1>1, <1>5

\* The neighbour of the uplink is no fact either (ApplyUplinkNeighbor).
LEMMA UplinkNeighborFacts ==
  ASSUME NEW all, IsTable(all), NEW mac, NEW remote
  PROVE  SameFacts(all, ApplyUplinkNeighbor(all, mac, remote))
<1> DEFINE u == CHOOSE p \in DOMAIN all : all[p].uplink
<1>1. CASE mac = "" \/ ~ \E p \in DOMAIN all : all[p].uplink
  BY <1>1, SameFactsAll DEF ApplyUplinkNeighbor
<1>2. CASE mac # "" /\ \E p \in DOMAIN all : all[p].uplink
  <2>1. u \in Port
    BY <1>2 DEF IsTable
  <2>2. ApplyUplinkNeighbor(all, mac, remote) = addNeighbor(all, u, neighborOf(mac, "config-uplink", remote))
    BY <1>2 DEF ApplyUplinkNeighbor
  <2> HIDE DEF u
  <2>3. QED BY <2>1, <2>2, AddNeighborFacts
<1>3. QED BY <1>1, <1>2

\* The results of the probes leave the facts of a port alone: they have no text, no link and no counters.
LEMMA ProbeTurn ==
  ASSUME NEW port, DOMAIN port = portFields, NEW q, NEW wan, NEW o, o = [emptyOverride(q) EXCEPT !.wan = wan],
         NEW new, new = portOverrideSetters(port, o)
  PROVE  hasFactsOf(new, port)
<1>1. o.name = "" /\ o.interface = "" /\ o.ip = "" /\ o.role = "" /\ o.group = "" /\ o.conf = ""
  BY DEF emptyOverride
<1>2. o.speed = 0 /\ o.rx = 0 /\ o.tx = 0 /\ o.up = ""
  BY DEF emptyOverride
<1>3. ~ o.disabled
  BY DEF emptyOverride
<1>4. ~ o.set
  BY DEF emptyOverride
<1>5. /\ new.name = text(o.name, port.name) /\ new.interface = text(o.interface, port.interface)
      /\ new.ip = text(o.ip, port.ip) /\ new.role = text(o.role, port.role)
      /\ new.group = text(o.group, port.group) /\ new.conf = text(o.conf, port.conf)
  BY SettersText
<1>6. o.speed \in Int /\ o.speed <= 0
  <2>1. o.speed = 0
    BY <1>2
  <2>2. QED BY <2>1
<1>7. isLinkedBy(new, port, o) /\ isCountedBy(new, port, o)
  BY <1>3, <1>6, SettersLink, SettersCounters
<1>8. /\ new.name = port.name /\ new.interface = port.interface /\ new.ip = port.ip
      /\ new.role = port.role /\ new.group = port.group /\ new.conf = port.conf
  BY <1>1, <1>5 DEF text
<1>9. new.up = port.up
  BY <1>2, <1>7 DEF isLinkedBy
<1>10. new.speed = port.speed
  BY <1>2, <1>6, <1>7 DEF isLinkedBy
<1>11. new.rx = port.rx /\ new.tx = port.tx
  BY <1>2, <1>4, <1>7 DEF isCountedBy
<1>12. new.set => port.set
  BY <1>4, <1>7 DEF isCountedBy
<1>13. QED BY <1>8, <1>9, <1>10, <1>11, <1>12 DEF hasFactsOf, factFields, toldFields

\* The whole loop over the results of the probes leaves the facts alone (applyWANHealth).
LEMMA ProbesFacts ==
  ASSUME PlanType(plan), NEW all, IsTable(all), NEW enriched, NEW alive
  PROVE  SameFacts(all, applyWANHealth(all, plan, enriched, alive))
<1> DEFINE targets == probeTargets(plan.targets, all, enriched)
           list == WANHealthOverrides(targets, alive)
           n == Len(list)
<1>1. isList(plan.targets)
  BY DEF PlanType
<1>2. DOMAIN targets = 1 .. Len(targets) /\ Len(targets) \in Nat
  BY <1>1, PickedIsList, MappedList DEF probeTargets
<1>3. DOMAIN list = DOMAIN targets /\ list = [k \in DOMAIN list |-> list[k]]
  BY DEF WANHealthOverrides
<1>4. \A k \in DOMAIN list : \E q, wan : list[k] = [emptyOverride(q) EXCEPT !.wan = wan]
  BY DEF WANHealthOverrides
<1>5. applyWANHealth(all, plan, enriched, alive) \in {all, ApplyPortOverrides(all, list)}
  BY DEF applyWANHealth
<1> HIDE DEF targets, list
<1>6. n \in Nat /\ DOMAIN list = 1 .. n
  BY <1>2, <1>3
<1>7. ASSUME NEW p \in Port
      PROVE  hasFactsOf(ApplyPortOverrides(all, list)[p], all[p])
  <2>1. PICK g : PortAfter(g, all, list, p)
    BY <1>6, PortTurns
  <2>2. /\ g[0] = all[p] /\ g[n] = ApplyPortOverrides(all, list)[p]
        /\ \A k \in 0 .. n : DOMAIN g[k] = portFields
        /\ \A k \in 1 .. n : g[k] = IF list[k].port = p THEN portOverrideSetters(g[k - 1], list[k]) ELSE g[k - 1]
    BY <2>1 DEF PortAfter
  <2> DEFINE K == {k \in 0 .. n : hasFactsOf(g[k], all[p])}
  <2>3. 0 \in K
    BY <1>6, <2>2 DEF hasFactsOf
  <2>4. ASSUME NEW k \in 1 .. n, k - 1 \in K PROVE k \in K
    <3> DEFINE b == g[k - 1]
    <3>1. hasFactsOf(b, all[p]) /\ DOMAIN b = portFields
      BY <2>2, <2>4
    <3>2. g[k] = b \/ g[k] = portOverrideSetters(b, list[k])
      BY <2>2
    <3>3. PICK q, wan : list[k] = [emptyOverride(q) EXCEPT !.wan = wan]
      BY <1>4, <1>6
    <3> HIDE DEF b
    <3>4. g[k] = portOverrideSetters(b, list[k]) => hasFactsOf(g[k], b)
      BY <3>1, <3>3, ProbeTurn
    <3>5. hasFactsOf(g[k], all[p])
      BY <3>1, <3>2, <3>4 DEF hasFactsOf
    <3>6. QED BY <3>5
  <2>5. n \in K
    <3> HIDE DEF K
    <3>1. \A k \in 0 .. n : k \in K
      BY <1>6, <2>3, <2>4, Overridden!TurnByTurn
    <3>2. QED BY <1>6, <3>1
  <2>6. QED BY <2>2, <2>5
<1>8. SameFacts(all, ApplyPortOverrides(all, list))
  BY <1>7 DEF SameFacts
<1>9. QED BY <1>5, <1>8, SameFactsAll

\* What a heartbeat shows has the facts of the ports with their overrides
\* (portsForRuntime, withRates).
LEMMA RuntimeFacts ==
  ASSUME PlanType(plan), NEW enriched, Len(enriched) \in Nat, NEW mapped, NEW heard, isList(heard), NEW alive,
         NEW all, all = portsForRuntime(enriched, mapped, heard, alive)
  PROVE  LET seen == observed(builtPorts(plan), mapped)
             set == ApplyPortOverrides(seen, enriched) IN
         /\ IsTable(builtPorts(plan)) /\ IsTable(seen) /\ IsTable(set) /\ IsTable(all)
         /\ SameFacts(set, all) /\ SameFacts(set, withRates(all))
<1> DEFINE built == builtPorts(plan)
           seen == observed(built, mapped)
           set == ApplyPortOverrides(seen, enriched)
           probed == applyWANHealth(set, plan, enriched, alive)
           listened == withLLDP(probed, heard)
           told == ApplyPortNeighbors(listened, plan.neighbors)
<1>1. all = ApplyUplinkNeighbor(told, plan.uplinkNeighbor, 0)
  BY DEF portsForRuntime, withNeighbors, withOverrides
<1>2. IsTable(built)
  BY BuiltPorts
<1>3. IsTable(seen)
  BY <1>2, ObservedKeeps
<1>4. IsTable(set)
  BY <1>3, OverridesKeep
<1>5. IsTable(probed) /\ SameFacts(set, probed)
  BY <1>4, ProbesKeep, ProbesFacts
<1>6. IsTable(listened) /\ SameFacts(probed, listened)
  BY <1>5, HeardKeeps, HeardFacts, SameFactsAll DEF withLLDP
<1>7. Len(plan.neighbors) \in Nat
  BY DEF PlanType, isList
<1>8. IsTable(told) /\ SameFacts(listened, told)
  BY <1>6, <1>7, NeighborsKeep, NeighborsFacts
<1>9. IsTable(all) /\ SameFacts(told, all)
  BY <1>1, <1>8, UplinkNeighborKeeps, UplinkNeighborFacts
<1> HIDE DEF told, listened, probed, set
<1>10. SameFacts(set, all)
  BY <1>5, <1>6, <1>8, <1>9, SameFactsNext
<1>11. SameFacts(all, withRates(all))
  BY <1>9 DEF SameFacts, hasFactsOf, IsTable, withRates, factFields, toldFields, portFields
<1>12. SameFacts(set, withRates(all))
  BY <1>10, <1>11, SameFactsNext
<1>13. QED BY <1>2, <1>3, <1>4, <1>9, <1>10, <1>12 DEF set

\* Every heartbeat shows what the operator has set.
LEMMA ReportShows ==
  ASSUME PlanType(plan), overrides = plan.overrides, NEW mapped, NEW refreshed, NEW heard, isList(heard), NEW alive,
         NEW all, all = portsForRuntime(enrichedOverrides(refreshed), mapped, heard, alive),
         NEW p \in Port, NEW field \in toldFields
  PROVE  Displayed(withRates(all), plan.overrides, p, field)
<1> DEFINE enriched == enrichedOverrides(refreshed)
           seen == observed(builtPorts(plan), mapped)
           set == ApplyPortOverrides(seen, enriched)
<1>1. isList(overrides) /\ \A k \in DOMAIN overrides : isConfigured(overrides[k])
  BY DEF PlanType
<1>2. Len(enriched) \in Nat
  BY <1>1, Refreshed DEF isList
<1> HIDE DEF enriched
<1>3. IsTable(seen) /\ SameFacts(set, withRates(all))
  BY <1>2, RuntimeFacts DEF enriched
<1>4. Displayed(set, overrides, p, field)
  BY <1>1, <1>3, OverridesShow DEF enriched
<1>5. withRates(all)[p][field] = set[p][field]
  BY <1>3 DEF SameFacts, hasFactsOf, factFields
<1> HIDE DEF set
<1>6. QED BY <1>4, <1>5 DEF Displayed

\* A report is made by a heartbeat.
LEMMA ReportMakes ==
  ASSUME PInv, NEW mapped, NEW refreshed, NEW heard, NEW alive, Report(mapped, refreshed, heard, alive)
  PROVE  LET all == portsForRuntime(enrichedOverrides(refreshed), mapped, heard, alive) IN
         /\ PlanType(plan) /\ overrides = plan.overrides
         /\ shown' = reportOf(withRates(all)) /\ shown'.ports = withRates(all)
         /\ plan' = plan /\ host' = host
         /\ IF plan.rates THEN rates' = [p \in RatePorts |-> Rates(seenBy(all), p)] ELSE rates' = rates
<1> DEFINE enriched == enrichedOverrides(refreshed)
           all == portsForRuntime(enriched, mapped, heard, alive)
<1>1. Show(enriched, all) /\ UNCHANGED plan
  BY DEF Report
<1> HIDE DEF all
<1>2. shown' = reportOf(withRates(all)) /\ plan' = plan
  BY <1>1 DEF Show
<1>3. shown'.ports = withRates(all)
  BY <1>2 DEF reportOf
<1>4. host' = host /\ IF plan.rates THEN rates' = [p \in RatePorts |-> Rates(seenBy(all), p)] ELSE rates' = rates
  BY <1>1 DEF Show, applyTrafficRates, rateVars
<1>5. PlanType(plan) /\ overrides = plan.overrides
  BY DEF PInv
<1>6. QED BY <1>2, <1>3, <1>4, <1>5 DEF all

\* The heard lists are lists.
LEMMA HeardIsList ==
  ASSUME NEW heard \in (IF plan.lldp THEN Heard ELSE {<<>>})
  PROVE  isList(heard)
<1>1. isList(<<>>)
  BY DEF isList
<1>2. QED BY <1>1, PlanAssumption

\* The steps that are no heartbeat and no stuttering leave no report.
LEMMA NothingShown ==
  ASSUME [ReportNext]_allVars,
         ~ \E mapped \in mappedReadings, refreshed \in overrideReadings,
              heard \in (IF plan.lldp THEN Heard ELSE {<<>>}),
              alive \in SUBSET {plan.targets[k] : k \in DOMAIN plan.targets} :
             Report(mapped, refreshed, heard, alive)
  PROVE  shown' = NoReport \/ UNCHANGED allVars
<1>1. Sent => shown' = NoReport
  BY DEF Sent
<1>2. ObserveBridge => shown' = NoReport
  BY DEF ObserveBridge
<1>3. HostStep => shown' = NoReport
  BY DEF HostStep
<1>4. OperatorImports => shown' = NoReport
  BY DEF OperatorImports, Import, Install
<1>5. QED BY <1>1, <1>2, <1>3, <1>4 DEF ReportNext

\* Every step leaves what the operator has set in the report: a heartbeat shows it,
\* and nothing else makes a report.
LEMMA NextOperator == PInv /\ OperatorHasTheLastWord /\ [ReportNext]_allVars => OperatorHasTheLastWord'
<1> SUFFICES ASSUME PInv, OperatorHasTheLastWord, [ReportNext]_allVars PROVE OperatorHasTheLastWord'
  OBVIOUS
<1> DEFINE lists == IF plan.lldp THEN Heard ELSE {<<>>}
<1>1. CASE \E mapped \in mappedReadings, refreshed \in overrideReadings, heard \in lists,
              alive \in SUBSET {plan.targets[k] : k \in DOMAIN plan.targets} :
             Report(mapped, refreshed, heard, alive)
  <2>1. PICK mapped \in mappedReadings, refreshed \in overrideReadings, heard \in lists,
             alive \in SUBSET {plan.targets[k] : k \in DOMAIN plan.targets} :
          Report(mapped, refreshed, heard, alive)
    BY <1>1
  <2>2. isList(heard)
    BY HeardIsList
  <2> DEFINE all == portsForRuntime(enrichedOverrides(refreshed), mapped, heard, alive)
             rated == withRates(all)
  <2>3. PlanType(plan) /\ overrides = plan.overrides /\ shown'.ports = rated /\ plan' = plan
    BY <2>1, ReportMakes
  <2>4. ASSUME NEW p \in Port, NEW field \in toldFields PROVE Displayed(rated, plan.overrides, p, field)
    BY <2>2, <2>3, ReportShows
  <2> HIDE DEF rated
  <2>5. ASSUME NEW p \in Port, NEW field \in toldFields PROVE Shows(plan.overrides, p, field)'
    <3>1. Displayed(rated, plan.overrides, p, field)
      BY <2>4
    <3>2. QED BY <2>3, <3>1 DEF Shows, Displayed, speakers, speaks, says, given
  <2>6. QED BY <2>5 DEF OperatorHasTheLastWord, ShowsWhatIsSet, toldFields
<1>2. CASE shown' = NoReport
  BY <1>2 DEF OperatorHasTheLastWord, reporting, NoReport
<1>3. CASE UNCHANGED allVars
  <2>1. shown' = shown /\ plan' = plan
    BY <1>3 DEF allVars, reportVars
  <2>2. ASSUME NEW p \in Port, NEW field PROVE Shows(plan.overrides, p, field) => Shows(plan.overrides, p, field)'
    BY <2>1 DEF Shows, speakers, speaks, says, given
  <2>3. reporting' => reporting
    BY <2>1 DEF reporting, NoReport
  <2>4. QED BY <2>2, <2>3 DEF OperatorHasTheLastWord, ShowsWhatIsSet
<1>4. QED BY <1>1, <1>2, <1>3, NothingShown

\* In every mode, what the operator sets is what is shown.
THEOREM OperatorWins == ReportSpec => []OperatorHasTheLastWord
<1>1. ReportInit => OperatorHasTheLastWord
  BY DEF ReportInit, OperatorHasTheLastWord, reporting
<1>2. QED BY <1>1, NextOperator, ReportInvariance, PTL DEF ReportSpec

----------------------------------------------------------------------------
(* The facts of a port: interface, address, counters and link are those of *)
(* the interfaces the configuration gives it.                              *)

\* The ports of the profile name no interface, have no address and no counters.
LEMMA BuiltFacts ==
  ASSUME NEW pl, PlanType(pl), NEW p \in Port
  PROVE  builtPorts(pl)[p].interface = "" /\ builtPorts(pl)[p].ip = "" /\ ~ builtPorts(pl)[p].set
<1> DEFINE options == portBuildOptions(pl)
           layout == normalizePortLayout(profilePortLayout(pl.profile, options))
<1>1. PortCount \in Nat \ {0} /\ Port = 1 .. PortCount
  <2>1. PortCount \in Nat /\ Port # {}
    BY BridgeAssumption, ReportAssumption
  <2>2. QED BY <2>1 DEF Port
<1>2. profilePortCount(pl.profile, options) = PortCount
  BY <1>1 DEF profilePortCount, portBuildOptions
<1>3. builtPorts(pl) = portsOf(layout, PortCount, pl.profile.roles, options.uplinkPort)
  BY <1>2 DEF builtPorts, BuildPorts
<1> HIDE DEF layout, options
<1>4. \E link, role, up : builtPorts(pl)[p] = generatedPort(p, link, role, up)
  <2> DEFINE roles == pl.profile.roles
             role == IF p \in DOMAIN roles THEN roles[p] ELSE ""
             link == linkOf(layout, PortCount, p)
             up == p = uplinkPortOf(layout, PortCount, options.uplinkPort)
  <2>1. builtPorts(pl)[p] = generatedPort(p, link, role, up)
    BY <1>1, <1>3 DEF portsOf
  <2> HIDE DEF link, role, up
  <2>2. QED BY <2>1
<1>5. ASSUME NEW link, NEW role, NEW up
      PROVE  LET r == generatedPort(p, link, role, up) IN r.interface = "" /\ r.ip = "" /\ ~ r.set
  BY DEF generatedPort
<1>6. QED BY <1>4, <1>5

\* A disabled port is down and has no speed.
LEMMA SettersDisable ==
  ASSUME NEW port, DOMAIN port = portFields, NEW o, o.disabled, NEW new, new = portOverrideSetters(port, o)
  PROVE  ~ new.up /\ new.speed = 0
<1> DEFINE a == setPortOverrideStrings(port, o)
           b == setPortOverrideAssignment(a, o)
           c == setPortOverrideSpeed(b, o)
           d == setPortOverrideWANHealth(c, o)
           e == setPortOverrideCounters(d, o)
           f == setPortOverrideMedia(e, o)
           g == setPortOverrideLinkState(f, o)
<1>1. DOMAIN a = portFields
  BY DEF portFields, setPortOverrideStrings
<1> HIDE DEF a
<1>2. DOMAIN b = portFields
  BY <1>1 DEF portFields, setPortOverrideAssignment
<1> HIDE DEF b
<1>3. DOMAIN c = portFields
  BY <1>2 DEF portFields, setPortOverrideSpeed
<1> HIDE DEF c
<1>4. DOMAIN d = portFields
  BY <1>3 DEF portFields, setPortOverrideWANHealth
<1> HIDE DEF d
<1>5. DOMAIN e = portFields
  BY <1>4 DEF portFields, setPortOverrideCounters
<1> HIDE DEF e
<1>6. DOMAIN f = portFields
  BY <1>5 DEF portFields, setPortOverrideMedia
<1> HIDE DEF f
<1>7. DOMAIN g = portFields
  BY <1>6 DEF portFields, setPortOverrideLinkState
<1>8. new = setPortOverrideDisabled(g, o)
  BY DEF portOverrideSetters, a, b, c, d, e, f
<1> HIDE DEF g
<1>9. new = [g EXCEPT !.disabled = TRUE, !.up = FALSE, !.speed = 0, !.ipv6 = "", !.macs = {}]
  BY <1>8 DEF setPortOverrideDisabled
<1>10. QED BY <1>7, <1>9 DEF portFields

\* Of which interfaces the facts of a port may be.
isFrom(port, A) == port.interface \in A \cup {""}

hasAddressOf(port, B) == port.ip \in B \cup {""}

hasCountersOf(port, A) == port.set => \E j \in A \cap Iface : port.rx = host[j].rx /\ port.tx = host[j].tx

hasLinkOf(port) ==
  port.interface \in Iface => (port.up => host[port.interface].up) /\ (~ port.up => port.speed = 0)

\* An override that brings only such facts.
bringsCounters(e, A) ==
  (e.set \/ e.rx # 0 \/ e.tx # 0) =>
    e.set /\ \E j \in A \cap Iface : e.rx = host[j].rx /\ e.tx = host[j].tx

bringsLink(e) ==
  /\ e.speed \in Int
  /\ \/ e.disabled
     \/ ~ e.disabled /\ e.speed <= 0 /\ e.up = "" /\ e.interface = ""
     \/ ~ e.disabled /\ e.speed <= 0 /\ e.up = "down"
     \/ ~ e.disabled /\ e.up = "up" /\ e.interface \in Iface /\ host[e.interface].up

\* Such an override leaves a port with an interface and an address of the sets.
LEMMA TextTurn ==
  ASSUME NEW port, DOMAIN port = portFields, NEW e, NEW new, new = portOverrideSetters(port, e), NEW A, NEW B
  PROVE  /\ (isFrom(port, A) /\ isFrom(e, A)) => isFrom(new, A)
         /\ (hasAddressOf(port, B) /\ hasAddressOf(e, B)) => hasAddressOf(new, B)
<1>1. new.interface = text(e.interface, port.interface) /\ new.ip = text(e.ip, port.ip)
  BY SettersText
<1>2. QED BY <1>1 DEF isFrom, hasAddressOf, text

\* Such an override leaves a port with the counters of one of the interfaces, or none.
LEMMA CountersTurn ==
  ASSUME NEW port, DOMAIN port = portFields, NEW e, NEW new, new = portOverrideSetters(port, e), NEW A,
         hasCountersOf(port, A), bringsCounters(e, A)
  PROVE  hasCountersOf(new, A)
<1>1. isCountedBy(new, port, e)
  BY SettersCounters
<1>2. CASE e.set
  <2>1. new.rx = e.rx /\ new.tx = e.tx
    BY <1>1, <1>2 DEF isCountedBy
  <2>2. QED BY <1>2, <2>1 DEF bringsCounters, hasCountersOf
<1>3. CASE ~ e.set
  <2>1. e.rx = 0 /\ e.tx = 0
    BY <1>3 DEF bringsCounters
  <2>2. new.rx = port.rx /\ new.tx = port.tx
    BY <1>1, <1>3, <2>1 DEF isCountedBy
  <2>3. new.set => port.set
    BY <1>1, <1>3 DEF isCountedBy
  <2>4. QED BY <2>2, <2>3 DEF hasCountersOf
<1>4. QED BY <1>2, <1>3

\* Such an override leaves a port with the link of the interface it names.
LEMMA LinkTurn ==
  ASSUME NEW port, DOMAIN port = portFields, NEW e, NEW new, new = portOverrideSetters(port, e),
         hasLinkOf(port), bringsLink(e)
  PROVE  hasLinkOf(new)
<1>1. new.interface = text(e.interface, port.interface)
  BY SettersText
<1>2. CASE e.disabled
  <2>1. ~ new.up /\ new.speed = 0
    BY <1>2, SettersDisable
  <2>2. QED BY <2>1 DEF hasLinkOf
<1>3. CASE ~ e.disabled
  <2>1. isLinkedBy(new, port, e)
    BY <1>3, SettersLink DEF bringsLink
  <2>2. CASE e.speed <= 0 /\ e.up = "" /\ e.interface = ""
    <3>1. new.interface = port.interface
      BY <1>1, <2>2 DEF text
    <3>2. new.up = port.up
      BY <2>1, <2>2 DEF isLinkedBy
    <3>3. new.speed = port.speed
      BY <2>1, <2>2 DEF isLinkedBy
    <3>4. QED BY <3>1, <3>2, <3>3 DEF hasLinkOf
  <2>3. CASE e.speed <= 0 /\ e.up = "down"
    <3>1. new.up = FALSE
      BY <2>1, <2>3 DEF isLinkedBy
    <3>2. new.speed = 0
      BY <2>1, <2>3 DEF isLinkedBy
    <3>3. QED BY <3>1, <3>2 DEF hasLinkOf
  <2>4. CASE e.up = "up" /\ e.interface \in Iface /\ host[e.interface].up
    <3>1. e.interface # ""
      BY <2>4, RatesAssumption, ReportAssumption
    <3>2. new.interface = e.interface
      BY <1>1, <3>1 DEF text
    <3>3. new.up = TRUE
      BY <2>1, <2>4 DEF isLinkedBy
    <3>4. QED BY <2>4, <3>2, <3>3 DEF hasLinkOf
  <2>5. QED BY <1>3, <2>2, <2>3, <2>4 DEF bringsLink
<1>4. QED BY <1>2, <1>3

\* The facts of a port.
hasFacts(port, A, B, free) ==
  isFrom(port, A) /\ hasAddressOf(port, B) /\ hasCountersOf(port, A) /\ (free => hasLinkOf(port))

bringsFacts(e, A, B, free) ==
  isFrom(e, A) /\ hasAddressOf(e, B) /\ bringsCounters(e, A) /\ (free => bringsLink(e))

\* A loop over such overrides leaves a port with such facts.
LEMMA FactsLoop ==
  ASSUME NEW all, IsTable(all), NEW list, Len(list) \in Nat, NEW p \in Port, NEW A, NEW B, NEW free \in BOOLEAN,
         \A k \in 1 .. Len(list) : list[k].port = p => bringsFacts(list[k], A, B, free),
         hasFacts(all[p], A, B, free)
  PROVE  hasFacts(ApplyPortOverrides(all, list)[p], A, B, free)
<1> DEFINE n == Len(list)
<1>1. PICK g : PortAfter(g, all, list, p)
  BY PortTurns
<1>2. /\ g[0] = all[p] /\ g[n] = ApplyPortOverrides(all, list)[p]
      /\ \A k \in 0 .. n : DOMAIN g[k] = portFields
      /\ \A k \in 1 .. n : g[k] = IF list[k].port = p THEN portOverrideSetters(g[k - 1], list[k]) ELSE g[k - 1]
  BY <1>1 DEF PortAfter
<1> DEFINE K == {k \in 0 .. n : hasFacts(g[k], A, B, free)}
<1>3. 0 \in K
  BY <1>2
<1>4. ASSUME NEW k \in 1 .. n, k - 1 \in K PROVE k \in K
  <2> DEFINE b == g[k - 1]
             e == list[k]
             new == g[k]
  <2>1. hasFacts(b, A, B, free) /\ DOMAIN b = portFields
    BY <1>2, <1>4
  <2>2. new = IF e.port = p THEN portOverrideSetters(b, e) ELSE b
    BY <1>2
  <2>3. e.port = p => bringsFacts(e, A, B, free)
    OBVIOUS
  <2> HIDE DEF b, e, new
  <2>4. CASE e.port = p
    <3>1. new = portOverrideSetters(b, e)
      BY <2>2, <2>4
    <3>2. isFrom(new, A) /\ hasAddressOf(new, B)
      BY <2>1, <2>3, <2>4, <3>1, TextTurn DEF hasFacts, bringsFacts
    <3>3. hasCountersOf(new, A)
      BY <2>1, <2>3, <2>4, <3>1, CountersTurn DEF hasFacts, bringsFacts
    <3>4. free => hasLinkOf(new)
      BY <2>1, <2>3, <2>4, <3>1, LinkTurn DEF hasFacts, bringsFacts
    <3>5. hasFacts(new, A, B, free)
      BY <3>2, <3>3, <3>4 DEF hasFacts
    <3>6. QED BY <3>5 DEF new
  <2>5. CASE e.port # p
    BY <2>1, <2>2, <2>5 DEF new
  <2>6. QED BY <2>4, <2>5
<1>5. n \in K
  <2> HIDE DEF K
  <2>1. \A k \in 0 .. n : k \in K
    BY <1>3, <1>4, Overridden!TurnByTurn
  <2>2. QED BY <2>1
<1>6. QED BY <1>2, <1>5

\* A number is positive or not.
LEMMA NotPositive ==
  ASSUME NEW x \in Int, ~ (x > 0)
  PROVE  x <= 0
OBVIOUS

\* The override of an operator brings the facts of the interface it names.
LEMMA EnrichedBrings ==
  ASSUME NEW o, isConfigured(o), NEW e, isRefreshed(e, o), NEW A, NEW B, NEW free \in BOOLEAN,
         o.interface \in A, o.ip \in B \cup {""}, o.ip = "" => o.interface \in B,
         free => o.up = "" /\ ~ (o.speed > 0)
  PROVE  e.port = o.port /\ bringsFacts(e, A, B, free)
<1> DEFINE i == o.interface
<1>0. o.speed \in Int
  BY DEF isConfigured
<1>1. ~ o.disabled
  BY DEF isConfigured
<1>2. CASE i = ""
  <2>1. e = o
    BY <1>2 DEF isRefreshed
  <2>2. bringsCounters(o, A)
    BY DEF bringsCounters, isConfigured
  <2>3. ASSUME free PROVE bringsLink(o)
    <3>1. o.up = ""
      BY <2>3
    <3>2. ~ (o.speed > 0)
      BY <2>3
    <3>3. o.speed <= 0
      BY <1>0, <3>2, NotPositive
    <3>4. QED BY <1>0, <1>1, <1>2, <3>1, <3>3 DEF bringsLink
  <2>4. QED BY <1>2, <2>1, <2>2, <2>3 DEF bringsFacts, isFrom, hasAddressOf
<1>3. CASE i # ""
  <2>1. isEnriched(e, o, i)
    BY <1>3 DEF isRefreshed
  <2>2. e.port = o.port /\ e.interface = i
    BY <1>3, <2>1 DEF isEnriched, text
  <2>3. e.ip \in B \cup {""}
    BY <2>1 DEF isEnriched, text
  <2>4. bringsCounters(e, A)
    BY <2>1 DEF isEnriched, bringsCounters
  <2>5. ASSUME free PROVE bringsLink(e)
    <3>1. e.up \in {"up", "down"} /\ (e.up = "up" => i \in Iface /\ host[i].up)
      BY <2>1, <2>5 DEF isEnriched
    <3>2. e.speed \in Int /\ (e.speed <= 0 \/ e.up = "up")
      <4>0. ~ (o.speed > 0)
        BY <2>5
      <4>1. o.speed <= 0
        BY <1>0, <4>0, NotPositive
      <4>2. QED BY <2>1, <4>1 DEF isEnriched
    <3>3. ~ e.disabled
      BY <1>1, <2>1 DEF isEnriched
    <3>4. QED BY <2>2, <3>1, <3>2, <3>3 DEF bringsLink
  <2> HIDE DEF i
  <2>6. QED BY <2>2, <2>3, <2>4, <2>5 DEF bringsFacts, isFrom, hasAddressOf, i
<1>4. QED BY <1>2, <1>3

\* An entry of the port map, for port q and interface i.
isMapEntry(e, q, i) ==
  \/ e = disabledOverride(q)
  \/ \E quality : e = ApplyObservation(emptyOverride(q), ObserveInterface(i, quality))

\* An entry of the port map brings those of the mapped interface, or disables.
LEMMA MappedBrings ==
  ASSUME NEW q, NEW i, NEW A, NEW B, NEW free \in BOOLEAN, i \in A, i \in B, NEW e, isMapEntry(e, q, i)
  PROVE  e.port = q /\ bringsFacts(e, A, B, free)
<1>1. CASE e = disabledOverride(q)
  <2>1. e.port = q /\ e.interface = "" /\ e.ip = "" /\ e.rx = 0 /\ e.tx = 0 /\ e.speed = 0
    BY <1>1 DEF disabledOverride, emptyOverride
  <2>2. e.disabled /\ ~ e.set
    BY <1>1 DEF disabledOverride, emptyOverride
  <2>3. e.speed \in Int
    <3>1. e.speed = 0
      BY <2>1
    <3>2. QED BY <3>1
  <2>4. bringsLink(e)
    BY <2>2, <2>3 DEF bringsLink
  <2>5. bringsCounters(e, A)
    BY <2>1, <2>2 DEF bringsCounters
  <2>6. QED BY <2>1, <2>4, <2>5 DEF bringsFacts, isFrom, hasAddressOf
<1>2. CASE \E quality : e = ApplyObservation(emptyOverride(q), ObserveInterface(i, quality))
  <2>0. PICK quality : e = ApplyObservation(emptyOverride(q), ObserveInterface(i, quality))
    BY <1>2
  <2> DEFINE o == emptyOverride(q)
  <2>1. DOMAIN o = overrideFields /\ o.speed = 0
    BY DEF emptyOverride, overrideFields
  <2>2. o.port = q /\ o.interface = "" /\ o.ip = "" /\ o.up = ""
    BY DEF emptyOverride
  <2>3. ~ o.disabled
    BY DEF emptyOverride
  <2> HIDE DEF o
  <2>4. o.speed \in Int /\ o.speed <= 0
    BY <2>1
  <2>5. isEnriched(e, o, i)
    BY <2>0, <2>1, <2>4, ReadingIsSeen, ObservationEnriches DEF o
  <2>6. e.port = q /\ e.interface = i
    BY <2>2, <2>5 DEF isEnriched, text
  <2>7. e.ip \in {"", i}
    BY <2>2, <2>5 DEF isEnriched, text
  <2>8. bringsCounters(e, A)
    BY <2>5 DEF isEnriched, bringsCounters
  <2>9. bringsLink(e)
    <3>1. e.up \in {"up", "down"} /\ (e.up = "up" => i \in Iface /\ host[i].up)
      BY <2>2, <2>5 DEF isEnriched
    <3>2. e.speed \in Int /\ (e.speed <= 0 \/ e.up = "up")
      BY <2>4, <2>5 DEF isEnriched
    <3>3. ~ e.disabled
      BY <2>3, <2>5 DEF isEnriched
    <3>4. QED BY <2>6, <3>1, <3>2, <3>3 DEF bringsLink
  <2>10. QED BY <2>6, <2>7, <2>8, <2>9 DEF bringsFacts, isFrom, hasAddressOf
<1>3. QED BY <1>1, <1>2 DEF isMapEntry

\* The host's part of a port, without a bridge: the facts of the interface the
\* port map gives it.
LEMMA ObservedFacts ==
  ASSUME PlanType(plan), Accepted(plan), plan.mode \notin bridgeModes, NEW mapped, NEW p \in Port,
         NEW A, NEW B, NEW free \in BOOLEAN, mappedTo(p) \subseteq A, mappedTo(p) \subseteq B
  PROVE  hasFacts(observed(builtPorts(plan), mapped)[p], A, B, free)
<1> DEFINE built == builtPorts(plan)
<1>1. IsTable(built)
  BY BuiltPorts
<1>2. hasFacts(built[p], A, B, free)
  <2>1. built[p].interface = "" /\ built[p].ip = "" /\ ~ built[p].set
    BY BuiltFacts
  <2>2. "" \notin Iface
    BY RatesAssumption, ReportAssumption
  <2> HIDE DEF built
  <2>3. QED BY <2>1, <2>2 DEF hasFacts, isFrom, hasAddressOf, hasCountersOf, hasLinkOf
<1> HIDE DEF built
<1>3. CASE plan.mode = "port-map"
  <2> DEFINE T == {q \in DOMAIN plan.mapping : plan.mapping[q] # "unmapped"}
             numbers == [q \in DOMAIN plan.mapping |-> q]
             places == picked(numbers, T)
             readings0 == [q \in Port |-> ObserveInterface(plan.mapping[q], mapped[q])]
             list == OverridesFromObservation(plan.mapping, readings0)
  <2>1. isList(numbers) /\ DOMAIN numbers = DOMAIN plan.mapping /\ \A q \in DOMAIN numbers : numbers[q] = q
    BY DEF PlanType, isList
  <2>2. DOMAIN plan.mapping = Port
    BY <1>3 DEF Accepted, validatePortMapSources
  <2>3. places \in Seq({numbers[k] : k \in T \cap DOMAIN numbers})
    <3> HIDE DEF numbers, T
    <3>1. QED BY <2>1, PickedIsList
  <2>4. /\ DOMAIN list = DOMAIN places /\ list = [k \in DOMAIN list |-> list[k]]
        /\ \A k \in DOMAIN places :
             list[k] = IF plan.mapping[places[k]] = "disabled" THEN disabledOverride(places[k])
                       ELSE ApplyObservation(emptyOverride(places[k]), readings0[places[k]])
    <3>1. list = [k \in DOMAIN places |-> IF plan.mapping[places[k]] = "disabled" THEN disabledOverride(places[k])
                                          ELSE ApplyObservation(emptyOverride(places[k]), readings0[places[k]])]
      BY DEF OverridesFromObservation
    <3> HIDE DEF list, places, readings0
    <3>2. QED BY <3>1
  <2> HIDE DEF places, list
  <2>5. DOMAIN places = 1 .. Len(places) /\ Len(places) \in Nat /\ \A k \in DOMAIN places : places[k] \in Port
    <3> DEFINE S == {numbers[k] : k \in T \cap DOMAIN numbers}
    <3>1. \A q \in S : q \in Port
      BY <2>2
    <3> HIDE DEF S
    <3>2. places \in Seq(S)
      BY <2>3 DEF S
    <3>3. DOMAIN places = 1 .. Len(places) /\ Len(places) \in Nat
      BY <3>2, MappedList
    <3>4. \A k \in 1 .. Len(places) : places[k] \in S
      BY <3>2, ElementOfSeq
    <3>5. QED BY <3>1, <3>3, <3>4
  <2>6. Len(list) \in Nat /\ DOMAIN list = 1 .. Len(list)
    BY <2>4, <2>5
  <2>7. ASSUME NEW k \in 1 .. Len(list), list[k].port = p PROVE bringsFacts(list[k], A, B, free)
    <3> DEFINE q == places[k]
               e == list[k]
               i == plan.mapping[q]
    <3>1. q \in Port /\ k \in DOMAIN places
      BY <2>4, <2>5, <2>6
    <3>2. isMapEntry(e, q, i)
      <4>1. e = disabledOverride(q) \/ e = ApplyObservation(emptyOverride(q), ObserveInterface(i, mapped[q]))
        BY <2>4, <3>1
      <4>2. QED BY <4>1 DEF isMapEntry
    <3>3. e.port = p
      BY <2>7
    <3> HIDE DEF q, e, i
    <3>4. e.port = q /\ bringsFacts(e, {i}, {i}, free)
      BY <3>2, MappedBrings
    <3>5. i \in mappedTo(p)
      BY <2>2, <3>1, <3>3, <3>4 DEF mappedTo, i
    <3>6. i \in A /\ i \in B
      BY <3>5
    <3>7. bringsFacts(e, A, B, free)
      BY <3>2, <3>6, MappedBrings
    <3>8. QED BY <3>7 DEF e
  <2>8. observed(built, mapped) = ApplyPortOverrides(built, list)
    BY <1>3 DEF observed, list, bridgeModes
  <2>9. QED BY <1>1, <1>2, <2>6, <2>7, <2>8, FactsLoop DEF built
<1>4. CASE plan.mode # "port-map"
  <2>1. observed(built, mapped) = built
    BY <1>4 DEF observed
  <2>2. QED BY <1>2, <2>1 DEF built
<1>5. QED BY <1>3, <1>4

\* What a heartbeat does after the overrides leaves a port with its facts.
LEMMA FactsCarry ==
  ASSUME NEW new, NEW port, hasFactsOf(new, port), NEW A, NEW B, NEW free \in BOOLEAN, hasFacts(port, A, B, free)
  PROVE  hasFacts(new, A, B, free)
<1>1. /\ new.interface = port.interface /\ new.ip = port.ip /\ new.rx = port.rx /\ new.tx = port.tx
      /\ new.up = port.up /\ new.speed = port.speed
  BY DEF hasFactsOf, factFields, toldFields
<1>2. new.set => port.set
  BY DEF hasFactsOf
<1>3. isFrom(new, A) /\ hasAddressOf(new, B) /\ hasCountersOf(new, A)
  BY <1>1, <1>2 DEF hasFacts, isFrom, hasAddressOf, hasCountersOf
<1>4. free => hasLinkOf(new)
  BY <1>1 DEF hasFacts, hasLinkOf
<1>5. QED BY <1>3, <1>4 DEF hasFacts

\* The interfaces the configuration gives port p, and the addresses that may come
\* with them.
interfacesOf(p) ==
  {plan.overrides[k].interface : k \in {j \in DOMAIN plan.overrides : plan.overrides[j].port = p}} \cup mappedTo(p)

addressesGiven(p) ==
  {plan.overrides[k].ip : k \in {j \in DOMAIN plan.overrides : plan.overrides[j].port = p}} \cup interfacesOf(p)

\* A heartbeat without a bridge shows on every port the facts of the interfaces
\* the configuration gives it.
LEMMA ReportFacts ==
  ASSUME PlanType(plan), Accepted(plan), overrides = plan.overrides, plan.mode \notin bridgeModes,
         NEW mapped, NEW refreshed, NEW heard, isList(heard), NEW alive,
         NEW all, all = portsForRuntime(enrichedOverrides(refreshed), mapped, heard, alive), NEW p \in Port
  PROVE  hasFacts(withRates(all)[p], interfacesOf(p), addressesGiven(p), ~ operatorLinks(p))
<1> DEFINE enriched == enrichedOverrides(refreshed)
           seen == observed(builtPorts(plan), mapped)
           set == ApplyPortOverrides(seen, enriched)
           A == interfacesOf(p)
           B == addressesGiven(p)
           free == ~ operatorLinks(p)
<1>1. isList(overrides) /\ \A k \in DOMAIN overrides : isConfigured(overrides[k])
  BY DEF PlanType
<1>2. /\ isList(enriched) /\ DOMAIN enriched = DOMAIN overrides
      /\ \A k \in DOMAIN overrides : isRefreshed(enriched[k], overrides[k])
  BY <1>1, Refreshed
<1> HIDE DEF enriched
<1>3. Len(enriched) \in Nat /\ DOMAIN enriched = 1 .. Len(enriched)
  BY <1>2 DEF isList
<1>4. IsTable(seen) /\ SameFacts(set, withRates(all))
  BY <1>3, RuntimeFacts DEF enriched
<1>5. mappedTo(p) \subseteq A /\ mappedTo(p) \subseteq B /\ free \in BOOLEAN
  BY DEF interfacesOf, addressesGiven
<1>6. ASSUME NEW k \in 1 .. Len(enriched), enriched[k].port = p PROVE bringsFacts(enriched[k], A, B, free)
  <2> DEFINE o == overrides[k]
             e == enriched[k]
  <2>1. k \in DOMAIN overrides /\ isConfigured(o) /\ isRefreshed(e, o)
    BY <1>1, <1>2, <1>3
  <2>2. e.port = o.port
    BY <2>1 DEF isRefreshed, isEnriched
  <2>3. o.port = p
    BY <1>6, <2>2
  <2>4. o.interface \in A /\ o.ip \in B /\ o.interface \in B
    BY <2>1, <2>3 DEF interfacesOf, addressesGiven
  <2>5. free => o.up = "" /\ ~ (o.speed > 0)
    BY <2>1, <2>3 DEF operatorLinks
  <2> HIDE DEF o, e, A, B, free
  <2>6. free \in BOOLEAN
    BY <1>5 DEF free
  <2>7. bringsFacts(e, A, B, free)
    BY <2>1, <2>4, <2>5, <2>6, EnrichedBrings
  <2>8. QED BY <2>7 DEF e
<1> HIDE DEF A, B, free
<1>7. hasFacts(seen[p], A, B, free)
  BY <1>5, ObservedFacts
<1> HIDE DEF seen
<1>8. hasFacts(set[p], A, B, free)
  BY <1>3, <1>4, <1>5, <1>6, <1>7, FactsLoop
<1>9. hasFactsOf(withRates(all)[p], set[p])
  BY <1>4 DEF SameFacts
<1> HIDE DEF set
<1>10. QED BY <1>5, <1>8, <1>9, FactsCarry DEF A, B, free

\* Two elements of a set of at most one are one.
LEMMA AtMostOne ==
  ASSUME NEW S, IsFiniteSet(S), Cardinality(S) <= 1, NEW a \in S, NEW b \in S
  PROVE  a = b
<1>1. {a} \in SUBSET S
  OBVIOUS
<1>2. Cardinality({a}) = 1
  BY FS_Singleton
<1>3. Cardinality(S) \in Nat
  BY FS_CardinalityType
<1>4. Cardinality({a}) <= Cardinality(S)
  BY <1>1, FS_Subset
<1>5. Cardinality({a}) = Cardinality(S)
  BY <1>2, <1>3, <1>4
<1>6. {a} = S
  BY <1>1, <1>5, FS_Subset
<1>7. QED BY <1>6

\* The interfaces of a port are finitely many.
LEMMA SourcesFinite ==
  ASSUME PlanType(plan), NEW p \in Port
  PROVE  IsFiniteSet(sourcesOf(p))
<1> DEFINE n == Len(plan.overrides)
           g == [k \in 1 .. n |-> plan.overrides[k].interface]
           all == {g[k] : k \in 1 .. n}
<1>1. n \in Nat /\ DOMAIN plan.overrides = 1 .. n
  BY DEF PlanType, isList
<1>2. sourcesOf(p) \subseteq all \cup {plan.mapping[p]}
  BY <1>1 DEF sourcesOf, mappedTo
<1> HIDE DEF g
<1>3. IsFiniteSet(all)
  BY <1>1, FiniteImage
<1> HIDE DEF all
<1>4. IsFiniteSet(all \cup {plan.mapping[p]})
  BY <1>3, FS_Singleton, FS_Union
<1>5. QED BY <1>2, <1>4, FS_Subset

\* What a port of a heartbeat shows of its interface.
LEMMA FactsAreCurrent ==
  ASSUME PlanType(plan), NEW p \in Port, NEW port,
         hasFacts(port, interfacesOf(p), addressesGiven(p), ~ operatorLinks(p)), port.interface \in Iface, unmixed(p)
  PROVE  /\ port.set => port.rx = host[port.interface].rx /\ port.tx = host[port.interface].tx
         /\ ~ operatorLinks(p) => /\ port.up => host[port.interface].up
                                  /\ ~ port.up => port.speed = 0
<1>1. port.interface # ""
  BY RatesAssumption, ReportAssumption
<1>2. sourcesOf(p) = interfacesOf(p) \cap Iface
  BY DEF sourcesOf, interfacesOf
<1>3. port.interface \in sourcesOf(p)
  BY <1>1, <1>2 DEF hasFacts, isFrom
<1>4. \A i \in sourcesOf(p) : i = port.interface
  BY <1>3, SourcesFinite, AtMostOne DEF unmixed
<1>5. port.set => port.rx = host[port.interface].rx /\ port.tx = host[port.interface].tx
  BY <1>2, <1>4 DEF hasFacts, hasCountersOf
<1>6. QED BY <1>5 DEF hasFacts, hasLinkOf

\* What HostFactsAreCurrent says of one port.
FactsOf(p) ==
  (shown.ports[p].interface \in Iface /\ unmixed(p)) =>
    /\ shown.ports[p].set => /\ shown.ports[p].rx = host[shown.ports[p].interface].rx
                             /\ shown.ports[p].tx = host[shown.ports[p].interface].tx
    /\ ~ operatorLinks(p) => /\ shown.ports[p].up => host[shown.ports[p].interface].up
                             /\ ~ shown.ports[p].up => shown.ports[p].speed = 0

\* Every step keeps the facts current: a heartbeat makes them anew, and the host
\* changes only when they have been sent.
LEMMA NextHostFacts == PInv /\ HostFactsAreCurrent /\ [ReportNext]_allVars => HostFactsAreCurrent'
<1> SUFFICES ASSUME PInv, HostFactsAreCurrent, [ReportNext]_allVars PROVE HostFactsAreCurrent'
  OBVIOUS
<1> DEFINE lists == IF plan.lldp THEN Heard ELSE {<<>>}
<1>1. CASE \E mapped \in mappedReadings, refreshed \in overrideReadings, heard \in lists,
              alive \in SUBSET {plan.targets[k] : k \in DOMAIN plan.targets} :
             Report(mapped, refreshed, heard, alive)
  <2>1. PICK mapped \in mappedReadings, refreshed \in overrideReadings, heard \in lists,
             alive \in SUBSET {plan.targets[k] : k \in DOMAIN plan.targets} :
          Report(mapped, refreshed, heard, alive)
    BY <1>1
  <2>2. isList(heard)
    BY HeardIsList
  <2> DEFINE all == portsForRuntime(enrichedOverrides(refreshed), mapped, heard, alive)
             rated == withRates(all)
  <2>3. /\ PlanType(plan) /\ overrides = plan.overrides
        /\ shown'.ports = rated /\ plan' = plan /\ host' = host
    BY <2>1, ReportMakes
  <2>4. Accepted(plan)
    BY DEF PInv
  <2> HIDE DEF rated
  <2>5. ASSUME NEW p \in Port, plan.mode \notin bridgeModes PROVE FactsOf(p)'
    <3> DEFINE port == rated[p]
    <3>1. hasFacts(port, interfacesOf(p), addressesGiven(p), ~ operatorLinks(p))
      BY <2>2, <2>3, <2>4, <2>5, ReportFacts DEF rated
    <3> HIDE DEF port
    <3>2. port.interface \in Iface /\ unmixed(p) =>
            /\ port.set => port.rx = host[port.interface].rx /\ port.tx = host[port.interface].tx
            /\ ~ operatorLinks(p) => /\ port.up => host[port.interface].up
                                     /\ ~ port.up => port.speed = 0
      BY <2>3, <3>1, FactsAreCurrent
    <3>3. unmixed(p)' = unmixed(p) /\ operatorLinks(p)' = operatorLinks(p)
      BY <2>3 DEF unmixed, sourcesOf, mappedTo, operatorLinks
    <3>4. shown'.ports[p] = port
      BY <2>3 DEF port
    <3>5. QED BY <2>3, <3>2, <3>3, <3>4 DEF FactsOf
  <2>6. QED BY <2>3, <2>5 DEF HostFactsAreCurrent, FactsOf
<1>2. CASE shown' = NoReport
  BY <1>2 DEF HostFactsAreCurrent, reporting, NoReport
<1>3. CASE UNCHANGED allVars
  <2>1. shown' = shown /\ plan' = plan /\ host' = host
    BY <1>3 DEF allVars, reportVars, rateVars
  <2>2. ASSUME NEW p \in Port PROVE FactsOf(p) => FactsOf(p)'
    <3>1. unmixed(p)' = unmixed(p) /\ operatorLinks(p)' = operatorLinks(p)
      BY <2>1 DEF unmixed, sourcesOf, mappedTo, operatorLinks
    <3>2. QED BY <2>1, <3>1 DEF FactsOf
  <2>3. (reporting /\ plan.mode \notin bridgeModes)' => reporting /\ plan.mode \notin bridgeModes
    BY <2>1 DEF reporting, NoReport
  <2>4. QED BY <2>2, <2>3 DEF HostFactsAreCurrent, FactsOf
<1>4. QED BY <1>1, <1>2, <1>3, NothingShown

\* What a port shows of its interface is what the interface is now.
THEOREM FactsCurrent == ReportSpec => []HostFactsAreCurrent
<1>1. ReportInit => HostFactsAreCurrent
  BY DEF ReportInit, HostFactsAreCurrent, reporting
<1>2. QED BY <1>1, NextHostFacts, ReportInvariance, PTL DEF ReportSpec

----------------------------------------------------------------------------
(* The rates of a heartbeat: the tracker is fed by what the ports show.    *)

\* No bridge, and every port has one source of facts.
OneSource == plan.mode \notin bridgeModes /\ \A p \in Port : unmixed(p)

\* What a heartbeat gives the tracker are the counters of the interfaces.
LEMMA HeartbeatIsTruthful ==
  ASSUME PInv, OneSource, NEW mapped, NEW refreshed, NEW heard, isList(heard), NEW alive,
         NEW all, all = portsForRuntime(enrichedOverrides(refreshed), mapped, heard, alive),
         IsTable(withRates(all))
  PROVE  Truthful(seenBy(all))
<1>1. RatePorts = Port
  BY ReportAssumption
<1>2. ASSUME NEW p \in Port, seenBy(all)[p].key \in Iface, seenBy(all)[p].set
      PROVE  LET s == seenBy(all)[p] IN s.rx = host[s.key].rx /\ s.tx = host[s.key].tx
  <2> DEFINE port == withRates(all)[p]
             told == IF plan.rates THEN LET r == Rates(seenBy(all), p) IN [set |-> r.set, rx |-> r.rx, tx |-> r.tx]
                     ELSE noRates
  <2>1. hasFacts(port, interfacesOf(p), addressesGiven(p), ~ operatorLinks(p))
    BY ReportFacts DEF PInv, OneSource
  <2>2. port = [all[p] EXCEPT !.rates = told] /\ DOMAIN port = portFields
    BY DEF withRates, IsTable
  <2> HIDE DEF port, told
  <2>3. /\ port.interface = all[p].interface /\ port.set = all[p].set
        /\ port.rx = all[p].rx /\ port.tx = all[p].tx
    BY <2>2 DEF portFields
  <2>4. LET s == seenBy(all)[p] IN
        s.key = all[p].interface /\ s.set = all[p].set /\ s.rx = all[p].rx /\ s.tx = all[p].tx
    BY DEF seenBy
  <2>5. port.interface \in Iface /\ port.set
    BY <1>2, <2>3, <2>4
  <2>6. port.rx = host[port.interface].rx /\ port.tx = host[port.interface].tx
    BY <2>1, <2>5, FactsAreCurrent DEF PInv, OneSource
  <2>7. QED BY <2>3, <2>4, <2>6
<1>3. QED BY <1>1, <1>2 DEF Truthful

\* Every step keeps what the tracker rests on: a heartbeat samples, the host counts,
\* and the restart after an import forgets the samples.
LEMMA NextRates == PInv /\ OneSource /\ RInv /\ RatesAreReal /\ [ReportNext]_allVars => RInv' /\ RatesAreReal'
<1> SUFFICES ASSUME PInv, OneSource, RInv, RatesAreReal, [ReportNext]_allVars PROVE RInv' /\ RatesAreReal'
  OBVIOUS
<1> DEFINE lists == IF plan.lldp THEN Heard ELSE {<<>>}
<1>1. ASSUME UNCHANGED rateVars PROVE RInv' /\ RatesAreReal'
  BY <1>1 DEF rateVars, RInv, RatesTypeOK, Tracked, RatesAreReal
<1>2. CASE \E mapped \in mappedReadings, refreshed \in overrideReadings, heard \in lists,
              alive \in SUBSET {plan.targets[k] : k \in DOMAIN plan.targets} :
             Report(mapped, refreshed, heard, alive)
  <2>1. PICK mapped \in mappedReadings, refreshed \in overrideReadings, heard \in lists,
             alive \in SUBSET {plan.targets[k] : k \in DOMAIN plan.targets} :
          Report(mapped, refreshed, heard, alive)
    BY <1>2
  <2> DEFINE all == portsForRuntime(enrichedOverrides(refreshed), mapped, heard, alive)
  <2>2. IF plan.rates THEN applyTrafficRates(seenBy(all)) ELSE UNCHANGED rateVars
    BY <2>1 DEF Report, Show
  <2>3. shown'.ports = withRates(all) /\ isList(heard)
    BY <2>1, ReportMakes, HeardIsList
  <2>4. reporting'
    BY <2>1, ReportMakes DEF reporting, NoReport, Report, Show, reportOf
  <2>5. IsTable(withRates(all))
    BY <2>3, <2>4, NextPInv DEF PInv, ShownIsBuilt
  <2>6. Truthful(seenBy(all))
    BY <2>3, <2>5, HeartbeatIsTruthful
  <2> HIDE DEF all
  <2>7. QED BY <1>1, <2>2, <2>6, SamplesKeepInvariant, RatesOfTruthful
<1>3. CASE Sent
  <2>1. RatesAreReal'
    BY <1>3, NothingReported DEF Sent
  <2>2. RInv'
    BY <1>3 DEF Sent, RInv, RatesTypeOK, Tracked
  <2>3. QED BY <2>1, <2>2
<1>4. CASE ObserveBridge
  BY <1>1, <1>4 DEF ObserveBridge
<1>5. CASE HostStep
  BY <1>5, HostKeepsInvariant DEF HostStep
<1>6. CASE OperatorImports
  <2>1. /\ previous' = [i \in Iface |-> noSample] /\ age' = [i \in Iface |-> 0]
        /\ moved' = [i \in Iface |-> noBytes] /\ restarted' = [i \in Iface |-> FALSE]
        /\ host' = host /\ rates' = rates
    BY <1>6 DEF OperatorImports, Import, Install
  <2>2. RatesTypeOK'
    BY <2>1 DEF RInv, RatesTypeOK, Counts, noSample, noBytes
  <2>3. \A i \in Iface : Tracked(i)'
    BY <2>1 DEF Tracked, noSample
  <2>4. RatesAreReal'
    BY <2>1 DEF RatesAreReal
  <2>5. QED BY <2>2, <2>3, <2>4 DEF RInv
<1>7. CASE UNCHANGED allVars
  BY <1>1, <1>7 DEF allVars
<1>8. QED BY <1>2, <1>3, <1>4, <1>5, <1>6, <1>7 DEF ReportNext

\* As long as every port has one source of facts, the rates of every heartbeat are
\* real: neither negative nor above what went through the interface since its last
\* sample, over imports and restarts (applyTrafficRates, portsForRuntime).
THEOREM HeartbeatRatesReal == ReportSpec /\ []OneSource => []RatesAreReal
<1>1. ReportInit => RInv /\ RatesAreReal
  BY RatesStart DEF ReportInit
<1>2. QED BY <1>1, NextRates, ReportInvariance, PTL DEF ReportSpec

----------------------------------------------------------------------------
(* The traffic of the root.                                                *)

\* The rates in a report are the tracker's of this heartbeat, of links that are up.
RatesShown ==
  reporting => \A p \in Port : shown.ports[p].rates.set =>
                 /\ shown.ports[p].rates.rx = rates[p].rx /\ shown.ports[p].rates.tx = rates[p].tx
                 /\ shown.ports[p].up

\* A heartbeat adds the rates of the tracker to the ports, and a report is sent
\* before the tracker forgets them.
LEMMA NextRatesShown == PInv /\ RatesShown /\ [ReportNext]_allVars => RatesShown'
<1> SUFFICES ASSUME PInv, RatesShown, [ReportNext]_allVars PROVE RatesShown'
  OBVIOUS
<1> DEFINE lists == IF plan.lldp THEN Heard ELSE {<<>>}
<1>1. CASE \E mapped \in mappedReadings, refreshed \in overrideReadings, heard \in lists,
              alive \in SUBSET {plan.targets[k] : k \in DOMAIN plan.targets} :
             Report(mapped, refreshed, heard, alive)
  <2>1. PICK mapped \in mappedReadings, refreshed \in overrideReadings, heard \in lists,
             alive \in SUBSET {plan.targets[k] : k \in DOMAIN plan.targets} :
          Report(mapped, refreshed, heard, alive)
    BY <1>1
  <2> DEFINE all == portsForRuntime(enrichedOverrides(refreshed), mapped, heard, alive)
  <2>2. /\ shown'.ports = withRates(all)
        /\ IF plan.rates THEN rates' = [p \in RatePorts |-> Rates(seenBy(all), p)] ELSE rates' = rates
    BY <2>1, ReportMakes
  <2>3. PInv'
    BY NextPInv
  <2>4. IsTable(shown.ports)' \/ ~ reporting'
    BY <2>3 DEF PInv, ShownIsBuilt
  <2> HIDE DEF all
  <2>5. ASSUME NEW p \in Port, reporting', shown'.ports[p].rates.set
        PROVE  /\ shown'.ports[p].rates.rx = rates'[p].rx /\ shown'.ports[p].rates.tx = rates'[p].tx
               /\ shown'.ports[p].up
    <3> DEFINE r == Rates(seenBy(all), p)
               told == IF plan.rates THEN [set |-> r.set, rx |-> r.rx, tx |-> r.tx] ELSE noRates
               port == [all[p] EXCEPT !.rates = told]
    <3>1. shown'.ports[p] = port
      BY <2>2 DEF withRates
    <3>2. DOMAIN shown'.ports[p] = portFields
      BY <2>4, <2>5 DEF IsTable
    <3>3. DOMAIN all[p] = portFields
      BY <3>1, <3>2
    <3>4. shown'.ports[p].rates = told /\ shown'.ports[p].up = all[p].up
      BY <3>1, <3>3 DEF portFields
    <3> HIDE DEF port, r
    <3>5. plan.rates
      BY <2>5, <3>4 DEF noRates
    <3>6. rates'[p] = r
      BY <2>2, <3>5, ReportAssumption DEF r
    <3>7. r.set
      BY <2>5, <3>4, <3>5
    <3>8. Comparable(seenBy(all)[p], seenBy(all)[p].key)
      BY <3>7 DEF r, Rates, noRate
    <3>9. all[p].up
      BY <3>8 DEF Comparable, seenBy
    <3>10. QED BY <3>4, <3>5, <3>6, <3>9
  <2>6. QED BY <2>5 DEF RatesShown
<1>2. CASE shown' = NoReport
  BY <1>2 DEF RatesShown, reporting, NoReport
<1>3. CASE UNCHANGED allVars
  <2>1. shown' = shown /\ rates' = rates
    BY <1>3 DEF allVars, reportVars, rateVars
  <2>2. QED BY <2>1 DEF RatesShown, reporting, NoReport
<1>4. QED BY <1>1, <1>2, <1>3, NothingShown

\* The root's traffic is that of its port, from the other side.
LEMMA RootOf ==
  ASSUME PInv, reporting, payload.kind # "error", rootPort # 0
  PROVE  rootPort \in Port /\ payload.summary = rootTraffic(Views[rootPort])
<1>1. CASE plan.gateway
  <2>1. BuildPortViews(shown.ports, shown) = Views
    BY DEF Views, BuildPortViews, PInv, ShownIsBuilt, reportOf
  <2>2. rootPort = gatewayRolePort(Views, "wan")
    BY <1>1, <2>1 DEF rootPort
  <2>3. rootPort \in Port
    BY <2>2, RolePort
  <2>4. payload.summary = gatewayTrafficSummaryFor(Views, "wan")
    BY <1>1, PayloadOf DEF buildGatewayPayload
  <2>5. QED BY <2>2, <2>3, <2>4 DEF gatewayTrafficSummaryFor
<1>2. CASE ~ plan.gateway
  <2>1. rootPort = uplinkPortIndex(shown.ports)
    BY <1>2 DEF rootPort
  <2>2. rootPort \in Port /\ uplinksOf(Views) = {rootPort} /\ firstOf(uplinksOf(Views)) = rootPort
    BY <2>1, UplinkOfReport
  <2>3. payload.summary = switchTrafficSummaryFor(Views)
    BY <1>2, PayloadOf DEF buildSwitchPayload
  <2>4. QED BY <2>2, <2>3 DEF switchTrafficSummaryFor
<1>3. QED BY <1>1, <1>2

\* The management interface of a switch has the traffic of the uplink.
LEMMA ManagementOf ==
  ASSUME PInv, reporting, payload.kind # "error", ~ plan.gateway
  PROVE  /\ {p \in Port : payload.portTable[p].isUplink} = {rootPort}
         /\ payload.ifTable.counters = payload.portTable[rootPort].counters
         /\ payload.ifTable.rates = payload.portTable[rootPort].rates
<1>1. rootPort = uplinkPortIndex(shown.ports)
  BY DEF rootPort
<1>2. rootPort \in Port /\ uplinksOf(Views) = {rootPort} /\ firstOf(uplinksOf(Views)) = rootPort
  BY <1>1, UplinkOfReport
<1>3. payload.ifTable = switchManagementInterfaceRow(Views, shown.ports) /\ payload.portTable = portTable(Views)
  BY PayloadOf DEF buildSwitchPayload
<1>4. DOMAIN Views = Port /\ \A p \in Port : Views[p].uplink = (p = rootPort)
  BY <1>1, ViewFields, UplinkOfReport
<1>5. \A p \in Port : payload.portTable[p].isUplink = (p = rootPort)
  BY <1>3, <1>4 DEF portTable
<1>6. /\ payload.ifTable.counters = portCounterFields(Views[rootPort].port)
      /\ payload.ifTable.rates = explicitPortRateFields(Views[rootPort].port)
  BY <1>2, <1>3 DEF switchManagementInterfaceRow
<1>7. /\ payload.portTable[rootPort].counters = portCounterFields(Views[rootPort].port)
      /\ payload.portTable[rootPort].rates = explicitPortRateFields(Views[rootPort].port)
  BY <1>2, <1>3, <1>4 DEF portTable
<1>8. QED BY <1>2, <1>5, <1>6, <1>7

\* What a report shows of the host's facts and of the rates is what its root shows.
LEMMA RootIsReal == PInv /\ HostFactsAreCurrent /\ RatesShown => RootTrafficIsReal
<1> SUFFICES ASSUME PInv, HostFactsAreCurrent, RatesShown, reporting, payload.kind # "error",
                    plan.mode \notin bridgeModes, rootPort # 0
             PROVE  LET port == shown.ports[rootPort]
                        root == payload.summary IN
                    /\ (root.counters.set /\ port.interface \in Iface /\ unmixed(rootPort)) =>
                         /\ root.counters.tx = host[port.interface].rx /\ root.counters.rx = host[port.interface].tx
                    /\ root.rates.set => /\ root.rates.tx = rates[rootPort].rx /\ root.rates.rx = rates[rootPort].tx
                                         /\ ~ port.up => root.rates.tx = 0 /\ root.rates.rx = 0
                    /\ ~ plan.gateway =>
                         /\ {p \in Port : payload.portTable[p].isUplink} = {rootPort}
                         /\ payload.ifTable.counters = payload.portTable[rootPort].counters
                         /\ payload.ifTable.rates = payload.portTable[rootPort].rates
  BY DEF RootTrafficIsReal
<1> DEFINE port == shown.ports[rootPort]
           root == payload.summary
<1>1. rootPort \in Port /\ root = rootTraffic(Views[rootPort])
  BY RootOf
<1>2. Views[rootPort].port = port /\ Views[rootPort].up = port.up
  BY <1>1, ViewFields
<1>3. port.interface \in Iface /\ unmixed(rootPort) /\ port.set =>
        port.rx = host[port.interface].rx /\ port.tx = host[port.interface].tx
  BY <1>1 DEF HostFactsAreCurrent
<1>4. port.rates.set => port.rates.rx = rates[rootPort].rx /\ port.rates.tx = rates[rootPort].tx /\ port.up
  BY <1>1 DEF RatesShown
<1>5. ~ plan.gateway =>
        /\ {p \in Port : payload.portTable[p].isUplink} = {rootPort}
        /\ payload.ifTable.counters = payload.portTable[rootPort].counters
        /\ payload.ifTable.rates = payload.portTable[rootPort].rates
  BY ManagementOf
<1> DEFINE view == Views[rootPort]
<1>6. root = rootTraffic(view) /\ view.port = port /\ view.up = port.up
  BY <1>1, <1>2
<1> HIDE DEF port, root, view
<1>7. root.counters.set => port.set /\ root.counters.tx = port.rx /\ root.counters.rx = port.tx
  BY <1>6 DEF rootTraffic, noCounters
<1>8. root.rates.set => port.rates.set
  BY <1>6 DEF rootTraffic, noRates
<1>9. root.rates.set => root.rates.tx = port.rates.rx /\ root.rates.rx = port.rates.tx
  BY <1>4, <1>6, <1>8 DEF rootTraffic
<1>10. QED BY <1>3, <1>4, <1>5, <1>7, <1>8, <1>9 DEF port, root

\* The traffic at the root of every payload is what its interface counts.
THEOREM RootTraffic == ReportSpec => []RootTrafficIsReal
<1>1. ReportInit => HostFactsAreCurrent /\ RatesShown
  BY DEF ReportInit, HostFactsAreCurrent, RatesShown, reporting
<1>2. QED BY <1>1, RootIsReal, NextHostFacts, NextRatesShown, ReportInvariance, PTL DEF ReportSpec

----------------------------------------------------------------------------
(* The imports: what stays of the operator's own overrides.                *)

\* The last value that a list gives for a field of a port is one record's: all the
\* overrides of a port are the same.
oneRecord(list) == \A j, k \in DOMAIN list : list[j].port = list[k].port => list[j] = list[k]

\* What the operator sets, and what the mapping says of the rest.
hasOwn(own, r) ==
  \A f \in overlaid : givers(own, r.port, f) # {} => r[f] = own[lastOf(givers(own, r.port, f))][f]

leaves(own, p, f) == givers(own, p, f) = {}

hasMapping(own, m, r) ==
  /\ leaves(own, r.port, "name") /\ m.name # "" => r.name = m.name
  /\ leaves(own, r.port, "interface") => r.interface = m.interface
  /\ leaves(own, r.port, "ip") => r.ip \in {""} \cup answered(m.interface)

\* What the importer has made of the operator's own overrides.
isMerged(list, own, mappings) ==
  /\ oneRecord(list)
  /\ \A k \in DOMAIN own : own[k].port >= 1 => \E j \in DOMAIN list : list[j].port = own[k].port
  /\ \A i \in DOMAIN mappings : \E j \in DOMAIN list : list[j].port = mappings[i].port
  /\ \A j \in DOMAIN list :
       /\ hasOwn(own, list[j])
       /\ \A i \in DOMAIN mappings : mappings[i].port = list[j].port => hasMapping(own, mappings[i], list[j])

\* After any number of imports.
Imported(pl) ==
  pl.source # NoSource => pl.overrides = pl.own \/ isMerged(pl.overrides, pl.own, pl.source.interfaces)

staysIn(new, b, first, f) == (given(b, f) => new[f] = b[f]) /\ (~ given(b, f) => new[f] = first[f])

\* What another import makes of an override that gives a field: it stays.
LEMMA BaseStays ==
  ASSUME NEW base, isList(base), \A k \in DOMAIN base : isConfigured(base[k]), oneRecord(base),
         NEW start, NEW p \in Int, p >= 1, NEW j \in DOMAIN base, base[j].port = p,
         DOMAIN entryOf(start, p) = overrideFields, NEW f \in overlaid
  PROVE  staysIn(entryOf(Merging!Fold(start, base), p), base[j], entryOf(start, p), f)
<1> DEFINE G == givers(base, p, f)
           new == entryOf(Merging!Fold(start, base), p)
           first == entryOf(start, p)
<1>1. \A k \in 1 .. Len(base) : base[k].port \in Int
  BY DEF isConfigured, isList
<1>2. /\ G = {} => new[f] = first[f]
      /\ G # {} => lastOf(G) \in G /\ new[f] = base[lastOf(G)][f]
  <2>1. ASSUME G = {} PROVE new[f] = first[f]
    BY <1>1, <2>1, MergedField
  <2>2. ASSUME G # {} PROVE lastOf(G) \in G
    BY <1>1, <2>2, MergedField
  <2>3. ASSUME G # {} PROVE new[f] = base[lastOf(G)][f]
    BY <1>1, <2>3, MergedField
  <2>4. QED BY <2>1, <2>2, <2>3
<1> HIDE DEF new, first
<1>3. CASE given(base[j], f)
  <2>1. j \in G
    BY <1>3 DEF givers
  <2>2. lastOf(G) \in DOMAIN base /\ base[lastOf(G)].port = p /\ new[f] = base[lastOf(G)][f]
    BY <1>2, <2>1 DEF givers
  <2>3. base[lastOf(G)] = base[j]
    BY <2>2 DEF oneRecord
  <2>4. QED BY <1>3, <2>2, <2>3 DEF new, staysIn
<1>4. CASE ~ given(base[j], f)
  <2>1. G = {}
    BY <1>4 DEF givers, oneRecord
  <2>2. QED BY <1>2, <1>4, <2>1 DEF new, first, staysIn
<1>5. QED BY <1>3, <1>4

\* The last of the places that give a field gives it.
LEMMA LastGives ==
  ASSUME NEW list, isList(list), NEW p, NEW f, givers(list, p, f) # {}
  PROVE  lastOf(givers(list, p, f)) \in givers(list, p, f)
<1>1. Len(list) \in Nat /\ givers(list, p, f) \subseteq 0 .. Len(list)
  BY DEF isList, givers
<1>2. QED BY <1>1, LastPlace

\* An import keeps the operator's values over those of OPNsense, the first time
\* and every time after it.
LEMMA ImportKeepsOwn ==
  ASSUME NEW base, isList(base), \A k \in DOMAIN base : isConfigured(base[k]),
         NEW own, isList(own), \A k \in DOMAIN own : isConfigured(own[k]), NEW mappings,
         base = own \/ isMerged(base, own, mappings),
         NEW start, NEW p \in Int, p >= 1, isEntry(entryOf(start, p), p),
         NEW r, r = entryOf(Merging!Fold(start, base), p), r.port = p
  PROVE  hasOwn(own, r)
<1> SUFFICES ASSUME NEW f \in overlaid, givers(own, p, f) # {}
             PROVE  r[f] = own[lastOf(givers(own, p, f))][f]
  BY DEF hasOwn
<1> DEFINE l == lastOf(givers(own, p, f))
<1>1. DOMAIN entryOf(start, p) = overrideFields
  BY OverrideDomain DEF isEntry
<1>2. \A k \in 1 .. Len(base) : base[k].port \in Int
  BY DEF isConfigured, isList
<1>3. CASE base = own
  <2>1. givers(base, p, f) = givers(own, p, f)
    BY <1>3
  <2>2. r[f] = base[lastOf(givers(base, p, f))][f]
    BY <1>1, <1>2, <2>1, MergedField
  <2>3. QED BY <1>3, <2>1, <2>2
<1>4. CASE isMerged(base, own, mappings)
  <2>1. l \in givers(own, p, f)
    BY LastGives
  <2>2. l \in DOMAIN own /\ own[l].port = p /\ given(own[l], f)
    BY <2>1 DEF givers
  <2> HIDE DEF l
  <2>3. PICK j \in DOMAIN base : base[j].port = p
    BY <1>4, <2>2 DEF isMerged
  <2>4. base[j][f] = own[l][f]
    BY <1>4, <2>3 DEF isMerged, hasOwn, l
  <2>5. given(base[j], f)
    BY <2>2, <2>4 DEF given
  <2>6. r[f] = base[j][f]
    <3>1. oneRecord(base)
      BY <1>4 DEF isMerged
    <3>2. QED BY <1>1, <2>3, <2>5, <3>1, BaseStays DEF staysIn
  <2>7. QED BY <2>4, <2>6 DEF l
<1>5. QED BY <1>3, <1>4

\* What the operator leaves open is what the mapping of the port says.
LEMMA ImportTellsMapping ==
  ASSUME NEW base, isList(base), \A k \in DOMAIN base : isConfigured(base[k]),
         NEW own, NEW mappings, NEW i \in DOMAIN mappings, NEW p \in Int, p >= 1, mappings[i].port = p,
         mappings[i].interface # "",
         base = own \/ isMerged(base, own, mappings),
         NEW start, NEW row, isGenerated(entryOf(start, p), mappings[i], row),
         row.ip \in answered(mappings[i].interface), NEW r, r = entryOf(Merging!Fold(start, base), p), r.port = p
  PROVE  hasMapping(own, mappings[i], r)
<1> DEFINE m == mappings[i]
           first == entryOf(start, p)
<1>1. DOMAIN first = overrideFields
  BY OverrideDomain DEF isEntry, isGenerated
<1>2. \A k \in 1 .. Len(base) : base[k].port \in Int
  BY DEF isConfigured, isList
<1>3. first.name = m.name /\ first.interface = m.interface /\ first.ip = row.ip
  BY DEF isGenerated
<1>4. "name" \in overlaid /\ "interface" \in overlaid /\ "ip" \in overlaid
  BY DEF overlaid
<1>5. CASE base = own
  <2>1. ASSUME NEW f \in overlaid, leaves(own, p, f) PROVE r[f] = first[f]
    BY <1>1, <1>2, <1>5, <2>1, MergedField DEF leaves
  <2> HIDE DEF first, m
  <2>2. QED BY <1>3, <1>4, <2>1 DEF hasMapping, m
<1>6. CASE isMerged(base, own, mappings)
  <2>1. PICK j \in DOMAIN base : base[j].port = p
    BY <1>6 DEF isMerged
  <2> DEFINE b == base[j]
  <2>2. hasMapping(own, m, b) /\ oneRecord(base)
    BY <1>6, <2>1 DEF isMerged
  <2>3. ASSUME NEW f \in overlaid
        PROVE  (given(b, f) => r[f] = b[f]) /\ (~ given(b, f) => r[f] = first[f])
    <3>1. oneRecord(base) /\ DOMAIN entryOf(start, p) = overrideFields
      BY <1>1, <2>2
    <3>2. staysIn(r, base[j], entryOf(start, p), f)
      BY <2>1, <3>1, BaseStays
    <3>3. QED BY <3>2 DEF staysIn
  <2> HIDE DEF first, m, b
  <2>4. b.port = p
    BY <2>1 DEF b
  <2>5. leaves(own, p, "name") /\ m.name # "" => r.name = m.name
    BY <1>4, <2>2, <2>3, <2>4 DEF hasMapping, given
  <2>6. leaves(own, p, "interface") => r.interface = m.interface
    BY <1>4, <2>2, <2>3, <2>4 DEF hasMapping, given, m
  <2>7. leaves(own, p, "ip") => r.ip \in {""} \cup answered(m.interface)
    BY <1>3, <1>4, <2>2, <2>3, <2>4 DEF hasMapping, given, m
  <2>8. QED BY <2>5, <2>6, <2>7 DEF hasMapping, m
<1>7. QED BY <1>5, <1>6

\* The generated override of the only mapping of a port.
LEMMA GeneratedFor ==
  ASSUME NEW source, SourceType(source), ValidateSourceConfig(source), NEW status,
         isReading(source, status), NEW gateway, NEW i \in DOMAIN source.interfaces
  PROVE  LET m == source.interfaces[i]
             start == generatedByPort(OverridesFromState(source.interfaces, status, gateway)) IN
         /\ m.port \in DOMAIN start /\ isGenerated(entryOf(start, m.port), m, status[i])
         /\ status[i].ip \in answered(m.interface)
<1> DEFINE m == source.interfaces[i]
           generated == OverridesFromState(source.interfaces, status, gateway)
           start == generatedByPort(generated)
           p == m.port
<1>1. /\ isList(generated) /\ DOMAIN generated = DOMAIN source.interfaces
      /\ \A k \in DOMAIN generated : isGenerated(generated[k], source.interfaces[k], status[k])
  BY GeneratedOverrides
<1> HIDE DEF generated
<1>2. \A k \in DOMAIN generated : isConfigured(generated[k]) /\ generated[k].port = source.interfaces[k].port
  BY <1>1 DEF isGenerated, isEntry
<1>3. p \in Int /\ p >= 1
  BY DEF SourceType, ValidateSourceConfig
<1>4. /\ (\E k \in DOMAIN generated : generated[k].port = p) => p \in DOMAIN start
      /\ p \in DOMAIN start => \E k \in DOMAIN generated : generated[k].port = p /\ start[p] = generated[k]
  BY <1>1, <1>2, <1>3, GeneratedEntries
<1> HIDE DEF start
<1>5. p \in DOMAIN start
  BY <1>1, <1>2, <1>4
<1>6. PICK k \in DOMAIN generated : generated[k].port = p /\ start[p] = generated[k]
  BY <1>4, <1>5
<1>7. k = i
  BY <1>1, <1>2, <1>6 DEF ValidateSourceConfig
<1>8. isGenerated(start[p], m, status[i])
  BY <1>1, <1>6, <1>7
<1>9. isGenerated(entryOf(start, p), m, status[i])
  BY <1>5, <1>8 DEF entryOf
<1>10. status[i].ip \in answered(m.interface)
  BY DEF isReading, answered
<1>11. QED BY <1>5, <1>9, <1>10 DEF start, generated

\* An import merges the operator's own overrides with the generated ones, whatever
\* earlier imports have made of them.
LEMMA ImportMerges ==
  ASSUME NEW source, SourceType(source), ValidateSourceConfig(source), NEW status,
         isReading(source, status), NEW gateway, NEW base, isList(base), \A k \in DOMAIN base : isConfigured(base[k]),
         NEW own, isList(own), \A k \in DOMAIN own : isConfigured(own[k]),
         base = own \/ isMerged(base, own, source.interfaces)
  PROVE  isMerged(MergeOverrides(OverridesFromState(source.interfaces, status, gateway), base), own, source.interfaces)
<1> DEFINE mappings == source.interfaces
           generated == OverridesFromState(mappings, status, gateway)
           start == generatedByPort(generated)
           merged == Merging!Fold(start, base)
           list == MergeOverrides(generated, base)
<1>1. isList(generated) /\ \A k \in DOMAIN generated : isConfigured(generated[k])
  BY GeneratedOverrides DEF isGenerated, isEntry
<1>2. ASSUME NEW i \in DOMAIN mappings
      PROVE  /\ mappings[i].port \in Int /\ mappings[i].port >= 1 /\ mappings[i].interface # ""
             /\ mappings[i].port \in DOMAIN start
             /\ isGenerated(entryOf(start, mappings[i].port), mappings[i], status[i])
             /\ status[i].ip \in answered(mappings[i].interface)
  <2>1. mappings[i].port \in Int /\ mappings[i].port >= 1 /\ mappings[i].interface # ""
    BY DEF SourceType, ValidateSourceConfig
  <2>2. QED BY <2>1, GeneratedFor
<1> HIDE DEF generated
<1>3. mergedByPort(generated, base) = merged
  BY DEF mergedByPort
<1>4. /\ \A k \in DOMAIN list :
           /\ isConfigured(list[k]) /\ list[k].port >= 1
           /\ list[k].port \in DOMAIN merged /\ list[k] = merged[list[k].port]
      /\ \A p \in DOMAIN merged : \E k \in DOMAIN list : list[k].port = p
  BY <1>1, <1>3, MergedList
<1>5. \A p \in Int : p >= 1 => isEntry(entryOf(start, p), p)
  BY <1>1, GeneratedEntries
<1> HIDE DEF start, list
<1>6. ASSUME NEW p \in Int, p >= 1
      PROVE  (p \in DOMAIN merged) = (p \in DOMAIN start \/ \E k \in DOMAIN base : base[k].port = p)
  BY <1>5, <1>6, MergedIsEntry
<1> HIDE DEF merged, mappings
<1>7. oneRecord(list)
  BY <1>4 DEF oneRecord
<1>8. ASSUME NEW k \in DOMAIN own, own[k].port >= 1 PROVE \E j \in DOMAIN list : list[j].port = own[k].port
  <2> DEFINE p == own[k].port
  <2>1. p \in Int
    BY DEF isConfigured
  <2>2. \E j \in DOMAIN base : base[j].port = p
    BY <1>8 DEF isMerged, mappings
  <2> HIDE DEF p
  <2>3. p \in DOMAIN merged
    BY <1>6, <1>8, <2>1, <2>2 DEF p
  <2>4. QED BY <1>4, <2>3 DEF p
<1>9. ASSUME NEW i \in DOMAIN mappings PROVE \E j \in DOMAIN list : list[j].port = mappings[i].port
  <2> DEFINE p == mappings[i].port
  <2>1. p \in Int /\ p >= 1 /\ p \in DOMAIN start
    BY <1>2
  <2> HIDE DEF p
  <2>2. p \in DOMAIN merged
    BY <1>6, <2>1
  <2>3. QED BY <1>4, <2>2 DEF p
<1>10. ASSUME NEW j \in DOMAIN list
       PROVE  /\ hasOwn(own, list[j])
              /\ \A i \in DOMAIN mappings : mappings[i].port = list[j].port => hasMapping(own, mappings[i], list[j])
  <2> DEFINE r == list[j]
             p == list[j].port
  <2>1. p \in Int /\ p >= 1 /\ r = entryOf(merged, p) /\ r.port = p
    BY <1>4 DEF entryOf, isConfigured
  <2>2. isEntry(entryOf(start, p), p)
    BY <1>5, <2>1
  <2>3. base = own \/ isMerged(base, own, mappings)
    BY DEF mappings
  <2> HIDE DEF r, p
  <2>4. hasOwn(own, r)
    BY <2>1, <2>2, <2>3, ImportKeepsOwn DEF merged
  <2>5. ASSUME NEW i \in DOMAIN mappings, mappings[i].port = p PROVE hasMapping(own, mappings[i], r)
    <3> DEFINE row == status[i]
    <3>1. /\ mappings[i].interface # "" /\ isGenerated(entryOf(start, p), mappings[i], row)
          /\ row.ip \in answered(mappings[i].interface)
      BY <1>2, <2>5
    <3> HIDE DEF row
    <3>2. QED BY <2>1, <2>3, <2>5, <3>1, ImportTellsMapping DEF merged
  <2>6. QED BY <2>4, <2>5 DEF r, p
<1>11. QED BY <1>7, <1>8, <1>9, <1>10 DEF isMerged, list, generated, mappings

\* The steps that are no import leave the configuration alone.
LEMMA PlanStays ==
  ASSUME [ReportNext]_allVars, ~ OperatorImports
  PROVE  plan' = plan
<1>1. ASSUME NEW mapped, NEW refreshed, NEW heard, NEW alive, Report(mapped, refreshed, heard, alive) PROVE plan' = plan
  BY <1>1 DEF Report
<1>2. Sent => plan' = plan
  BY DEF Sent
<1>3. ObserveBridge => plan' = plan
  BY DEF ObserveBridge
<1>4. HostStep => plan' = plan
  BY DEF HostStep
<1>5. UNCHANGED allVars => plan' = plan
  BY DEF allVars, reportVars
<1>6. QED BY <1>1, <1>2, <1>3, <1>4, <1>5 DEF ReportNext

\* Whatever the operator imports, the configuration stays one that was merged from
\* the operator's own.
LEMMA NextImported == PInv /\ Imported(plan) /\ [ReportNext]_allVars => Imported(plan)'
<1> SUFFICES ASSUME PInv, Imported(plan), [ReportNext]_allVars PROVE Imported(plan)'
  OBVIOUS
<1>1. CASE OperatorImports
  <2>0. PICK answer \in Answers :
          \E status \in readings(answer), gateway \in gatewayReadings(answer) : Import(status, gateway)
    BY <1>1 DEF OperatorImports
  <2>1. PICK status \in readings(answer), gateway \in gatewayReadings(answer) : Import(status, gateway)
    BY <2>0
  <2>2. plan.source # NoSource
    BY <1>1 DEF OperatorImports
  <2> DEFINE new == GenerateConfig(plan, plan.source, status, gateway)
             list == MergeOverrides(OverridesFromState(plan.source.interfaces, status, gateway), plan.overrides)
  <2>3. plan' = new
    BY <2>1 DEF Import, Install
  <2>4. isReading(plan.source, status)
    BY <2>1, ReadingsAnswer
  <2>5. SourceType(plan.source) /\ isList(plan.own) /\ \A k \in DOMAIN plan.own : isConfigured(plan.own[k])
    BY <2>2 DEF PInv, PlanType, NoSource
  <2>6. /\ isList(plan.overrides) /\ \A k \in DOMAIN plan.overrides : isConfigured(plan.overrides[k])
        /\ DOMAIN plan = planFields
    BY DEF PInv, PlanType
  <2>7. ValidateSourceConfig(plan.source)
    BY <2>2 DEF PInv, Accepted
  <2>8. plan.overrides = plan.own \/ isMerged(plan.overrides, plan.own, plan.source.interfaces)
    BY <2>2 DEF Imported
  <2>9. isMerged(list, plan.own, plan.source.interfaces)
    BY <2>4, <2>5, <2>6, <2>7, <2>8, ImportMerges
  <2>10. new.overrides = list /\ new.own = plan.own /\ new.source = plan.source
    BY <2>6 DEF GenerateConfig, planFields
  <2> HIDE DEF new, list
  <2>11. isMerged(plan'.overrides, plan'.own, plan'.source.interfaces)
    BY <2>3, <2>9, <2>10
  <2>12. Imported(plan)' = Imported(plan')
    OBVIOUS
  <2>13. QED BY <2>11, <2>12 DEF Imported
<1>2. CASE ~ OperatorImports
  <2>1. plan' = plan
    BY <1>2, PlanStays
  <2>2. Imported(plan)' = Imported(plan')
    OBVIOUS
  <2>3. QED BY <2>1, <2>2
<1>3. QED BY <1>1, <1>2

\* A loop over overrides with such addresses leaves a port with one of them.
LEMMA AddressLoop ==
  ASSUME NEW all, IsTable(all), NEW list, Len(list) \in Nat, NEW p \in Port, NEW B,
         \A k \in 1 .. Len(list) : list[k].port = p => hasAddressOf(list[k], B), hasAddressOf(all[p], B)
  PROVE  hasAddressOf(ApplyPortOverrides(all, list)[p], B)
<1> DEFINE n == Len(list)
<1>1. PICK g : PortAfter(g, all, list, p)
  BY PortTurns
<1>2. /\ g[0] = all[p] /\ g[n] = ApplyPortOverrides(all, list)[p]
      /\ \A k \in 0 .. n : DOMAIN g[k] = portFields
      /\ \A k \in 1 .. n : g[k] = IF list[k].port = p THEN portOverrideSetters(g[k - 1], list[k]) ELSE g[k - 1]
  BY <1>1 DEF PortAfter
<1> DEFINE K == {k \in 0 .. n : hasAddressOf(g[k], B)}
<1>3. 0 \in K
  BY <1>2
<1>4. ASSUME NEW k \in 1 .. n, k - 1 \in K PROVE k \in K
  <2> DEFINE b == g[k - 1]
             e == list[k]
             new == g[k]
  <2>1. hasAddressOf(b, B) /\ DOMAIN b = portFields
    BY <1>2, <1>4
  <2>2. (new = IF e.port = p THEN portOverrideSetters(b, e) ELSE b) /\ (e.port = p => hasAddressOf(e, B))
    BY <1>2
  <2> HIDE DEF b, e, new
  <2>3. hasAddressOf(new, B)
    BY <2>1, <2>2, TextTurn
  <2>4. QED BY <2>3 DEF new
<1>5. n \in K
  <2> HIDE DEF K
  <2>1. \A k \in 0 .. n : k \in K
    BY <1>3, <1>4, Overridden!TurnByTurn
  <2>2. QED BY <2>1
<1>6. QED BY <1>2, <1>5

\* In every mode, the host's part of a port has the address of the interface that
\* the port map gives it, or none.
LEMMA ObservedAddress ==
  ASSUME PlanType(plan), Accepted(plan), NEW mapped, NEW p \in Port, NEW B, mappedTo(p) \subseteq B
  PROVE  hasAddressOf(observed(builtPorts(plan), mapped)[p], B)
<1>1. CASE plan.mode \notin bridgeModes
  <2>1. hasFacts(observed(builtPorts(plan), mapped)[p], mappedTo(p), B, FALSE)
    BY <1>1, ObservedFacts
  <2>2. QED BY <2>1 DEF hasFacts
<1>2. CASE plan.mode \in bridgeModes
  <2> DEFINE built == builtPorts(plan)
             port == built[p]
             seen == ports[p]
  <2>1. IsTable(built) /\ port.ip = ""
    BY BuiltPorts, BuiltFacts
  <2>2. DOMAIN port = portFields
    BY <2>1 DEF IsTable
  <2>3. observed(built, mapped)[p] = observedPort(port, seen)
    BY <1>2 DEF observed, bridgeModes
  <2> HIDE DEF port, seen
  <2>4. observedPort(port, seen).ip = port.ip
    BY <2>2 DEF observedPort, portFields
  <2>5. QED BY <2>1, <2>3, <2>4 DEF hasAddressOf
<1>3. QED BY <1>1, <1>2

\* In every mode, a heartbeat shows on a port an address of the configuration or of
\* an interface that the configuration gives it.
LEMMA ReportAddress ==
  ASSUME PlanType(plan), Accepted(plan), overrides = plan.overrides,
         NEW mapped, NEW refreshed, NEW heard, isList(heard), NEW alive,
         NEW all, all = portsForRuntime(enrichedOverrides(refreshed), mapped, heard, alive), NEW p \in Port
  PROVE  hasAddressOf(withRates(all)[p], addressesGiven(p))
<1> DEFINE enriched == enrichedOverrides(refreshed)
           seen == observed(builtPorts(plan), mapped)
           set == ApplyPortOverrides(seen, enriched)
           B == addressesGiven(p)
<1>1. isList(overrides) /\ \A k \in DOMAIN overrides : isConfigured(overrides[k])
  BY DEF PlanType
<1>2. /\ isList(enriched) /\ DOMAIN enriched = DOMAIN overrides
      /\ \A k \in DOMAIN overrides : isRefreshed(enriched[k], overrides[k])
  BY <1>1, Refreshed
<1> HIDE DEF enriched
<1>3. Len(enriched) \in Nat /\ DOMAIN enriched = 1 .. Len(enriched)
  BY <1>2 DEF isList
<1>4. IsTable(seen) /\ SameFacts(set, withRates(all))
  BY <1>3, RuntimeFacts DEF enriched
<1>5. mappedTo(p) \subseteq B
  BY DEF interfacesOf, addressesGiven
<1>6. ASSUME NEW k \in 1 .. Len(enriched), enriched[k].port = p PROVE hasAddressOf(enriched[k], B)
  <2> DEFINE o == overrides[k]
             e == enriched[k]
  <2>1. k \in DOMAIN overrides /\ isConfigured(o) /\ isRefreshed(e, o)
    BY <1>1, <1>2, <1>3
  <2>2. e.port = o.port
    BY <2>1 DEF isRefreshed, isEnriched
  <2>3. o.port = p
    BY <1>6, <2>2
  <2>4. o.ip \in B /\ o.interface \in B
    BY <2>1, <2>3 DEF interfacesOf, addressesGiven
  <2> HIDE DEF o, e, B
  <2>5. hasAddressOf(e, B)
    BY <2>1, <2>4 DEF isRefreshed, isEnriched, text, hasAddressOf
  <2>6. QED BY <2>5 DEF e
<1> HIDE DEF B
<1>7. hasAddressOf(seen[p], B)
  BY <1>5, ObservedAddress
<1> HIDE DEF seen
<1>8. hasAddressOf(set[p], B)
  BY <1>3, <1>4, <1>6, <1>7, AddressLoop
<1>9. withRates(all)[p].ip = set[p].ip
  BY <1>4 DEF SameFacts, hasFactsOf, factFields, toldFields
<1> HIDE DEF set
<1>10. QED BY <1>8, <1>9 DEF B, hasAddressOf

\* Every address in a report is one that the configuration gives its port.
AddressesShown == reporting => \A p \in Port : hasAddressOf(shown.ports[p], addressesGiven(p))

\* Every step keeps the addresses.
LEMMA NextAddresses == PInv /\ AddressesShown /\ [ReportNext]_allVars => AddressesShown'
<1> SUFFICES ASSUME PInv, AddressesShown, [ReportNext]_allVars PROVE AddressesShown'
  OBVIOUS
<1> DEFINE lists == IF plan.lldp THEN Heard ELSE {<<>>}
<1>1. CASE \E mapped \in mappedReadings, refreshed \in overrideReadings, heard \in lists,
              alive \in SUBSET {plan.targets[k] : k \in DOMAIN plan.targets} :
             Report(mapped, refreshed, heard, alive)
  <2>1. PICK mapped \in mappedReadings, refreshed \in overrideReadings, heard \in lists,
             alive \in SUBSET {plan.targets[k] : k \in DOMAIN plan.targets} :
          Report(mapped, refreshed, heard, alive)
    BY <1>1
  <2>2. isList(heard)
    BY HeardIsList
  <2> DEFINE all == portsForRuntime(enrichedOverrides(refreshed), mapped, heard, alive)
             rated == withRates(all)
  <2>3. PlanType(plan) /\ overrides = plan.overrides /\ shown'.ports = rated /\ plan' = plan
    BY <2>1, ReportMakes
  <2>4. Accepted(plan)
    BY DEF PInv
  <2> HIDE DEF rated
  <2>5. ASSUME NEW p \in Port PROVE hasAddressOf(shown.ports[p], addressesGiven(p))'
    <3>1. hasAddressOf(rated[p], addressesGiven(p))
      BY <2>2, <2>3, <2>4, ReportAddress DEF rated
    <3>2. addressesGiven(p)' = addressesGiven(p)
      BY <2>3 DEF addressesGiven, interfacesOf, mappedTo
    <3>3. QED BY <2>3, <3>1, <3>2 DEF hasAddressOf
  <2>6. QED BY <2>5 DEF AddressesShown
<1>2. CASE shown' = NoReport
  BY <1>2 DEF AddressesShown, reporting, NoReport
<1>3. CASE UNCHANGED allVars
  <2>1. shown' = shown /\ plan' = plan
    BY <1>3 DEF allVars, reportVars
  <2>2. ASSUME NEW p \in Port
        PROVE  hasAddressOf(shown.ports[p], addressesGiven(p)) => hasAddressOf(shown.ports[p], addressesGiven(p))'
    <3>1. addressesGiven(p)' = addressesGiven(p)
      BY <2>1 DEF addressesGiven, interfacesOf, mappedTo
    <3>2. QED BY <2>1, <3>1 DEF hasAddressOf
  <2>3. reporting' => reporting
    BY <2>1 DEF reporting, NoReport
  <2>4. QED BY <2>2, <2>3 DEF AddressesShown
<1>4. QED BY <1>1, <1>2, <1>3, NothingShown

\* Where all the overrides of a port are the same, what they give is shown.
LEMMA MergedShows ==
  ASSUME NEW list, isList(list), oneRecord(list), NEW p, NEW f, Shows(list, p, f),
         NEW j \in DOMAIN list, list[j].port = p, given(list[j], f)
  PROVE  shown.ports[p][f] = says(list[j], f)
<1> DEFINE S == speakers(list, p, f)
           last == lastOf(S)
<1>1. Len(list) \in Nat /\ S \subseteq 0 .. Len(list)
  BY DEF isList, speakers
<1>2. j \in S
  BY DEF speakers, speaks
<1>3. last \in S
  <2> HIDE DEF S
  <2>1. QED BY <1>1, <1>2, LastPlace
<1>4. last \in DOMAIN list /\ list[last].port = p
  BY <1>3 DEF speakers
<1>5. list[last] = list[j]
  BY <1>4 DEF oneRecord
<1>6. shown.ports[p][f] = says(list[last], f)
  BY <1>3, <1>5 DEF Shows
<1>7. QED BY <1>5, <1>6

\* The last override that speaks of a field, if it gives it, is the last that does.
LEMMA LastSpeaker ==
  ASSUME NEW list, isList(list), NEW p, NEW f, NEW k \in speakers(list, p, f), k = lastOf(speakers(list, p, f)),
         given(list[k], f)
  PROVE  givers(list, p, f) # {} /\ k = lastOf(givers(list, p, f))
<1> DEFINE S == speakers(list, p, f)
           G == givers(list, p, f)
           last == lastOf(G)
           n == Len(list)
<1>1. n \in Nat /\ S \subseteq 0 .. n /\ G \subseteq S /\ k \in G
  <2>1. n \in Nat /\ DOMAIN list = 1 .. n
    BY DEF isList
  <2>2. S \subseteq 0 .. n
    BY <2>1 DEF speakers
  <2>3. \A j \in DOMAIN list : given(list[j], f) => speaks(list[j], f)
    BY DEF speaks
  <2>4. G \subseteq S
    BY <2>3 DEF speakers, givers
  <2>5. k \in G
    BY DEF speakers, givers
  <2>6. QED BY <2>1, <2>2, <2>4, <2>5
<1> HIDE DEF S, G
<1>2. last \in G /\ \A j \in G : j <= last
  BY <1>1, LastPlace
<1>3. \A j \in S : j <= k
  BY <1>1, LastPlace DEF S
<1> HIDE DEF last
<1>4. k <= last /\ last <= k /\ k \in 0 .. n /\ last \in 0 .. n
  BY <1>1, <1>2, <1>3
<1>5. k = last
  BY <1>1, <1>4
<1>6. QED BY <1>1, <1>5 DEF last, G

\* The operator's own values are shown, whatever was imported.
LEMMA OwnShown ==
  ASSUME NEW list, isList(list), NEW own, isList(own), \A k \in DOMAIN own : isConfigured(own[k]), NEW mappings,
         isMerged(list, own, mappings), NEW p, p >= 1, NEW f \in toldFields, Shows(list, p, f)
  PROVE  Shows(own, p, f)
<1> SUFFICES ASSUME NEW k \in speakers(own, p, f), k = lastOf(speakers(own, p, f)), given(own[k], f)
             PROVE  shown.ports[p][f] = says(own[k], f)
  BY DEF Shows
<1>1. givers(own, p, f) # {} /\ k = lastOf(givers(own, p, f))
  BY LastSpeaker
<1>2. k \in DOMAIN own /\ own[k].port = p
  BY DEF speakers
<1>3. PICK j \in DOMAIN list : list[j].port = p
  BY <1>2 DEF isMerged
<1>4. f \in overlaid
  BY DEF toldFields, overlaid
<1>5. list[j][f] = own[k][f]
  BY <1>1, <1>3, <1>4 DEF isMerged, hasOwn
<1>6. given(list[j], f)
  BY <1>5 DEF given
<1>7. shown.ports[p][f] = says(list[j], f)
  BY <1>3, <1>6, MergedShows DEF isMerged
<1>8. QED BY <1>5, <1>7 DEF says

\* What the operator leaves open is shown as the mapping says.
LEMMA MappingShown ==
  ASSUME PlanType(plan), isMerged(plan.overrides, plan.own, plan.source.interfaces), NEW p \in Port,
         \A f \in toldFields : Shows(plan.overrides, p, f), hasAddressOf(shown.ports[p], addressesGiven(p)),
         NEW i \in DOMAIN plan.source.interfaces, NEW m, m = plan.source.interfaces[i], m.port = p, m.interface # ""
  PROVE  /\ ~ sets(p, "name") /\ m.name # "" => shown.ports[p].name = m.name
         /\ ~ sets(p, "interface") => shown.ports[p].interface = m.interface
         /\ ~ sets(p, "ip") /\ ~ sets(p, "interface") =>
              shown.ports[p].ip \in {"", m.interface} \cup mappedTo(p) \cup answered(m.interface)
<1> DEFINE list == plan.overrides
<1>1. isList(list) /\ oneRecord(list)
  BY DEF PlanType, isMerged
<1>2. PICK j \in DOMAIN list : list[j].port = p
  BY DEF isMerged
<1>3. hasMapping(plan.own, m, list[j])
  BY <1>2 DEF isMerged
<1>4. ASSUME NEW f, ~ sets(p, f) PROVE leaves(plan.own, p, f)
  BY <1>4 DEF sets, leaves, givers
<1>5. "name" \in toldFields /\ "interface" \in toldFields
  BY DEF toldFields
<1>6. ASSUME ~ sets(p, "name"), m.name # "" PROVE shown.ports[p].name = m.name
  <2>1. list[j].name = m.name
    BY <1>2, <1>3, <1>4, <1>6 DEF hasMapping
  <2>2. given(list[j], "name") /\ says(list[j], "name") = list[j].name
    BY <1>6, <2>1 DEF given, says
  <2>3. Shows(list, p, "name")
    BY <1>5
  <2> DEFINE f == "name"
  <2> HIDE DEF list, f
  <2>4. given(list[j], f) /\ Shows(list, p, f)
    BY <2>2, <2>3 DEF f
  <2>5. shown.ports[p][f] = says(list[j], f)
    BY <1>1, <1>2, <2>4, MergedShows
  <2>6. QED BY <2>1, <2>2, <2>5 DEF f
<1>7. ASSUME ~ sets(p, "interface") PROVE list[j].interface = m.interface
  BY <1>2, <1>3, <1>4, <1>7 DEF hasMapping
<1>8. ASSUME ~ sets(p, "interface") PROVE shown.ports[p].interface = m.interface
  <2>1. given(list[j], "interface") /\ says(list[j], "interface") = list[j].interface
    BY <1>7, <1>8 DEF given, says
  <2>2. Shows(list, p, "interface")
    BY <1>5
  <2> DEFINE f == "interface"
  <2> HIDE DEF list, f
  <2>3. given(list[j], f) /\ Shows(list, p, f)
    BY <2>1, <2>2 DEF f
  <2>4. shown.ports[p][f] = says(list[j], f)
    BY <1>1, <1>2, <2>3, MergedShows
  <2>5. QED BY <1>7, <1>8, <2>1, <2>4 DEF f
<1>9. ASSUME ~ sets(p, "ip"), ~ sets(p, "interface")
      PROVE  shown.ports[p].ip \in {"", m.interface} \cup mappedTo(p) \cup answered(m.interface)
  <2>1. list[j].ip \in {""} \cup answered(m.interface)
    BY <1>2, <1>3, <1>4, <1>9 DEF hasMapping
  <2>2. \A k \in DOMAIN list : list[k].port = p => list[k] = list[j]
    BY <1>1, <1>2 DEF oneRecord
  <2>3. addressesGiven(p) \subseteq {list[j].ip, list[j].interface} \cup mappedTo(p)
    BY <2>2 DEF addressesGiven, interfacesOf
  <2>4. list[j].interface = m.interface
    BY <1>7, <1>9
  <2>5. shown.ports[p].ip \in addressesGiven(p) \cup {""}
    BY DEF hasAddressOf
  <2> HIDE DEF list
  <2>6. QED BY <2>1, <2>3, <2>4, <2>5
<1>10. QED BY <1>6, <1>8, <1>9

\* Together: the imports keep the operator's values and tell mappings apart.
LEMMA ImportShows == PInv /\ OperatorHasTheLastWord /\ Imported(plan) /\ AddressesShown => ImportKeepsOperator
<1> SUFFICES ASSUME PInv, OperatorHasTheLastWord, Imported(plan), AddressesShown, reporting, plan.source # NoSource,
                    NEW p \in Port
             PROVE  /\ ShowsWhatIsSet(plan.own, p)
                    /\ \A m \in imported(p) :
                         /\ ~ sets(p, "name") /\ m.name # "" => shown.ports[p].name = m.name
                         /\ ~ sets(p, "interface") => shown.ports[p].interface = m.interface
                         /\ ~ sets(p, "ip") /\ ~ sets(p, "interface") =>
                              shown.ports[p].ip \in {"", m.interface} \cup mappedTo(p) \cup answered(m.interface)
  BY DEF ImportKeepsOperator
<1>1. PlanType(plan) /\ ValidateSourceConfig(plan.source)
  BY DEF PInv, Accepted
<1>2. isList(plan.overrides) /\ isList(plan.own) /\ \A k \in DOMAIN plan.own : isConfigured(plan.own[k])
  BY <1>1 DEF PlanType, NoSource
<1>3. \A f \in toldFields : Shows(plan.overrides, p, f)
  BY DEF OperatorHasTheLastWord, ShowsWhatIsSet, toldFields
<1>4. hasAddressOf(shown.ports[p], addressesGiven(p))
  BY DEF AddressesShown
<1>5. p >= 1
  BY BridgeAssumption DEF Port
<1>6. CASE plan.overrides = plan.own
  <2>1. imported(p) = {}
    BY <1>6 DEF imported
  <2>2. ShowsWhatIsSet(plan.own, p)
    BY <1>3, <1>6 DEF ShowsWhatIsSet, toldFields
  <2>3. QED BY <2>1, <2>2
<1>7. CASE isMerged(plan.overrides, plan.own, plan.source.interfaces)
  <2>1. \A f \in toldFields : Shows(plan.own, p, f)
    BY <1>2, <1>3, <1>5, <1>7, OwnShown
  <2>2. ShowsWhatIsSet(plan.own, p)
    BY <2>1 DEF ShowsWhatIsSet, toldFields
  <2>3. ASSUME NEW m \in imported(p)
        PROVE  /\ ~ sets(p, "name") /\ m.name # "" => shown.ports[p].name = m.name
               /\ ~ sets(p, "interface") => shown.ports[p].interface = m.interface
               /\ ~ sets(p, "ip") /\ ~ sets(p, "interface") =>
                    shown.ports[p].ip \in {"", m.interface} \cup mappedTo(p) \cup answered(m.interface)
    <3>1. PICK i \in DOMAIN plan.source.interfaces : m = plan.source.interfaces[i]
      BY DEF imported
    <3>2. m.port = p /\ m.interface # ""
      BY <1>1, <3>1 DEF imported, ValidateSourceConfig
    <3>3. QED BY <1>1, <1>3, <1>4, <1>7, <3>1, <3>2, MappingShown
  <2>4. QED BY <2>2, <2>3
<1>8. QED BY <1>6, <1>7 DEF Imported

\* However often and whatever the operator imports, the operator's own values stay
\* and every port shows its own mapping.
THEOREM ImportsKeepOperator == ReportSpec => []ImportKeepsOperator
<1>1. ReportInit => OperatorHasTheLastWord /\ Imported(plan) /\ AddressesShown
  <2>1. ReportInit => OperatorHasTheLastWord /\ AddressesShown
    BY DEF ReportInit, OperatorHasTheLastWord, AddressesShown, reporting
  <2>2. ReportInit => Imported(plan)
    BY PlanAssumption DEF ReportInit, Imported, NoSource
  <2>3. QED BY <2>1, <2>2
<1>2. QED BY <1>1, ImportShows, NextOperator, NextImported, NextAddresses, ReportInvariance, PTL DEF ReportSpec
=============================================================================

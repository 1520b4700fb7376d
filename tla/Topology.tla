------------------------------ MODULE Topology ------------------------------
(***************************************************************************)
(* internal/device/topology.go and port_neighbors.go: which device is      *)
(* directly connected to which port.  The operator may name a neighbour of *)
(* the uplink and of every port, and lldpd reports what it hears; the      *)
(* resolution selects at most one neighbour of a port and one direction of *)
(* a neighbour.  Everything is a function of its arguments.                *)
(*                                                                         *)
(* A neighbour has an address, a source and the remote port (0: unknown),  *)
(* which stands for all that is merged field by field.  Its direction is   *)
(* upstream on the uplink port and downstream everywhere else.             *)
(***************************************************************************)
EXTENDS Lists, FiniteSets

noNeighbor == [mac |-> "", source |-> "", remote |-> 0]

neighborOf(mac, source, remote) == [mac |-> mac, source |-> source, remote |-> remote]

addNeighbor(ports, p, n) == [ports EXCEPT ![p].neighbors = Append(@, n)]
----------------------------------------------------------------------------
(* Where neighbours come from.                                             *)

\* n.client entries are addresses of the port, the others are devices.
applyNeighbor(ports, n) ==
  IF n.port \notin DOMAIN ports THEN ports
  ELSE IF n.client THEN [ports EXCEPT ![n.port].macs = @ \cup {n.mac}]
  ELSE addNeighbor(ports, n.port, neighborOf(n.mac, "config-port", n.remote))

Neighbored == INSTANCE ListFold WITH Step <- applyNeighbor

ApplyPortNeighbors(ports, neighbors) == Neighbored!Fold(ports, neighbors)

\* On the port with the marker.
ApplyUplinkNeighbor(ports, mac, remote) ==
  IF mac = "" \/ ~ \E p \in DOMAIN ports : ports[p].uplink THEN ports
  ELSE addNeighbor(ports, CHOOSE p \in DOMAIN ports : ports[p].uplink, neighborOf(mac, "config-uplink", remote))

\* operation_lldp.go: bindings[k] is an interface and its port; later ones win.
lldpInterfacePortMap(bindings, i) ==
  LET bound == {k \in DOMAIN bindings : bindings[k][1] = i} IN IF bound = {} THEN 0 ELSE bindings[lastOf(bound)][2]

\* heard is the list of what lldpd reports: interface, address, remote port.
applyHeard(ports, h) ==
  IF h.port \notin DOMAIN ports \/ h.mac = "" THEN ports
  ELSE addNeighbor(ports, h.port, neighborOf(h.mac, "lldp", h.remote))

Listened == INSTANCE ListFold WITH Step <- applyHeard

applyLLDPNeighbors(ports, bindings, heard) ==
  Listened!Fold(ports, [k \in DOMAIN heard |-> [port |-> lldpInterfacePortMap(bindings, heard[k].interface),
                                                mac |-> heard[k].mac, remote |-> heard[k].remote]])
----------------------------------------------------------------------------
(* The neighbour of a port.                                                *)

mergeTopologyNeighbor(fallback, preferred) ==
  [preferred EXCEPT !.remote = IF @ = 0 THEN fallback.remote ELSE @]

\* Of one address, the later neighbour is preferred.
mergeNext(n, next) == IF n = noNeighbor THEN next ELSE mergeTopologyNeighbor(n, next)

Merged == INSTANCE ListFold WITH Step <- mergeNext

mergedOf(neighbors, mac) ==
  Merged!Fold(noNeighbor, picked(neighbors, {k \in DOMAIN neighbors : neighbors[k].mac = mac}))

addressesOf(neighbors) == {neighbors[k].mac : k \in DOMAIN neighbors}

heardPlaces(port) == {k \in DOMAIN port.neighbors : port.neighbors[k].source = "lldp"}

configuredOf(port) == picked(port.neighbors, DOMAIN port.neighbors \ heardPlaces(port))
lldpOf(port) == picked(port.neighbors, heardPlaces(port))

\* More than one configured device is an error, more than one heard is nobody.
portConflict(port) == Cardinality(addressesOf(configuredOf(port))) > 1

resolvePortNeighbor(port) ==
  LET configured == configuredOf(port)
      lldp == lldpOf(port) IN
  IF configured # <<>>
    THEN LET n == mergedOf(configured, configured[1].mac) IN
         IF n.mac \in addressesOf(lldp) THEN mergeTopologyNeighbor(mergedOf(lldp, n.mac), n) ELSE n
  ELSE IF Cardinality(addressesOf(lldp)) = 1 THEN mergedOf(lldp, lldp[1].mac)
  ELSE noNeighbor
----------------------------------------------------------------------------
(* The direction of a neighbour.                                           *)

\* Mutant: a heard neighbour counts as much as a configured one.
topologySourcePriority_equal(source) == IF source = "" THEN 0 ELSE 2

topologySourcePriority(source) ==
  IF source \in {"config-uplink", "config-port"} THEN 2 ELSE IF source = "lldp" THEN 1 ELSE 0

\* Mutant: the later edge wins.
dropped_later(mine, other) == "other"

\* Which of two edges with opposite directions goes: the one under way (mine)
\* or the one that is remembered for the address (other).
dropped(mine, other) ==
  IF mine = other THEN "both" ELSE IF other > mine THEN "mine" ELSE "other"

\* Mutant: the directions are not compared.
sameDirection_always(ports, p, q) == TRUE

sameDirection(ports, p, q) == ports[p].uplink = ports[q].uplink

\* Edge p meets edge q of the same address and the other direction.
conflictStep(state, p, q, mine, other) ==
  IF mine = other /\ mine > 1 THEN [state EXCEPT !.failed = TRUE]
  ELSE CASE dropped(mine, other) = "both" -> [state EXCEPT !.kept = @ \ {p, q}]
         [] dropped(mine, other) = "mine" -> [state EXCEPT !.kept = @ \ {p}]
         [] dropped(mine, other) = "other" -> [state EXCEPT !.kept = @ \ {q}, !.first[state.edges[p].mac] = p]

\* One turn of the loop over the edges: first is the edge remembered for every
\* address, kept the edges that stay.
directionStep(state, p) ==
  LET edges == state.edges
      mac == edges[p].mac
      q == state.first[mac] IN
  IF mac = "" \/ state.failed THEN state
  ELSE IF q = 0 THEN [state EXCEPT !.first[mac] = p]
  ELSE IF sameDirection(state.ports, p, q) THEN state
  ELSE conflictStep(state, p, q, topologySourcePriority(edges[p].source), topologySourcePriority(edges[q].source))

Directed == INSTANCE ListFold WITH Step <- directionStep

resolveDirectionConflicts(ports, edges) ==
  Directed!Fold([ports |-> ports, edges |-> edges, failed |-> FALSE,
                 first |-> [mac \in {edges[p].mac : p \in DOMAIN edges} |-> 0],
                 kept |-> {p \in DOMAIN edges : edges[p] # noNeighbor}],
                [p \in DOMAIN ports |-> p])

\* The edge of every port (noNeighbor: none), or an error.
topologyOf(ports, edges, resolved) ==
  [failed |-> (\E p \in DOMAIN ports : portConflict(ports[p])) \/ resolved.failed,
   edges |-> [p \in DOMAIN ports |-> IF p \in resolved.kept THEN edges[p] ELSE noNeighbor]]

resolveEdges(ports, edges) == topologyOf(ports, edges, resolveDirectionConflicts(ports, edges))

ResolveTopology(ports) == resolveEdges(ports, [p \in DOMAIN ports |-> resolvePortNeighbor(ports[p])])

\* operation_port_validate.go: at startup, with the configured neighbours only.
validateTopologyNeighbors(ports, neighbors, mac) ==
  ~ ResolveTopology(ApplyUplinkNeighbor(ApplyPortNeighbors(ports, neighbors), mac, 0)).failed
=============================================================================

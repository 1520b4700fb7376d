-------------------------- MODULE MCConfigMigration --------------------------
(***************************************************************************)
(* Documents for ConfigMigration: each group of related fields in every    *)
(* combination, beside the usual values of the others.                     *)
(***************************************************************************)
EXTENDS ConfigMigration, TLC

MCTexts ==
  {"", "u1", "u2", "eth0", "eth1", "map1", "map2", "auto", "host",
   "observe", "bridge-observe", "host-direct"}

plain ==
  [controller |-> Absent, inform_url |-> Absent, controller_url |-> "u1",
   operation_mode |-> "bridge-observe", mac |-> "auto",
   observe_bridge |-> Absent, observe_interface |-> Absent, bridge_observe |-> Absent,
   port_map |-> Absent, port_mappings |-> Absent, unknown |-> FALSE]

urlTexts == {Absent, Wrong, "", "u1", "u2"}

urlDocuments ==
  {[plain EXCEPT !.controller = c, !.inform_url = i, !.controller_url = u, !.unknown = b] :
     c \in urlTexts, i \in urlTexts, u \in urlTexts, b \in BOOLEAN}

ifaceTexts == {Absent, Wrong, "", "eth0", "eth1"}

bridgeNodes == {Absent, Wrong} \cup [bridge : ifaceTexts \ {"eth1"}, uplink_interface : ifaceTexts]

bridgeDocuments ==
  {[plain EXCEPT !.operation_mode = m, !.observe_bridge = b, !.observe_interface = i,
                 !.bridge_observe = n] :
     m \in {"observe", "host-direct"}, b \in ifaceTexts \ {"eth1"}, i \in ifaceTexts,
     n \in bridgeNodes}

nodeDocuments ==
  {[plain EXCEPT !.port_map = a, !.port_mappings = t] :
     a \in {Absent, "map1", "map2"}, t \in {Absent, "map1", "map2"}}

AllDocuments == urlDocuments \cup bridgeDocuments \cup nodeDocuments

hostDirect ==
  [plain EXCEPT !.operation_mode = "host-direct", !.mac = "host", !.observe_interface = "eth0"]

duplicate == [plain EXCEPT !.port_map = "map1", !.port_mappings = "map1"]

\* Runs are alike.
ProcSymmetry == Permutations(Proc)

\* What an operator writes meanwhile.
LaterDocuments == {duplicate}

HostDocuments == {hostDirect, plain}
=============================================================================

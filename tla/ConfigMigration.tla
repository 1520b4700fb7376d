--------------------------- MODULE ConfigMigration ---------------------------
(***************************************************************************)
(* internal/config/migrate.go and migrate_file.go: "-config-migrate"       *)
(* rewrites the legacy names of a configuration file, after a backup.      *)
(* The package hook and the operator may run it at the same time, and the  *)
(* operator edits the file.                                                *)
(*                                                                         *)
(* A document is the record of the fields the migration looks at; texts    *)
(* are compared after trimming, so they are modelled trimmed.              *)
(***************************************************************************)
EXTENDS Integers

CONSTANTS
  Texts,      \* what a field may hold
  Proc,       \* runs of the migration, one after the other or at once
  Documents,  \* the configuration files to start from
  Edits,      \* the documents an operator may write later
  Absent,     \* the field is not there
  Wrong,      \* a node of the wrong kind: compound for a text, a text for bridge_observe
  Partial,    \* a backup that has been created but not written
  MaxNow      \* bound on the clock, in seconds

Field == Texts \cup {Absent, Wrong}

BridgeNode == [bridge : Field, uplink_interface : Field]

Node == Texts \cup {Absent}

Document ==
  [controller : Field, inform_url : Field, controller_url : Field,
   operation_mode : Node, mac : Node,
   observe_bridge : Field, observe_interface : Field,
   bridge_observe : BridgeNode \cup {Absent, Wrong},
   port_map : Node, port_mappings : Node, unknown : BOOLEAN]

ASSUME DocumentAssumption ==
  /\ Documents \subseteq Document /\ Edits \subseteq Document
  /\ {"", "observe", "bridge-observe"} \subseteq Texts
  /\ Absent # Wrong /\ {Absent, Wrong} \cap Texts = {} /\ {Absent, Wrong} \cap BridgeNode = {}
  /\ Partial \notin Document

VARIABLES
  config,     \* the configuration file
  backups,    \* the backup files, by name
  now,        \* the second the clock shows
  pc,         \* where each run is
  data,       \* what it has read
  name,       \* the name of its backup: the second it was created in
  placed,     \* history: the documents somebody wrote by hand
  excused,    \* history: the ones overwritten by hand, or by a migration that
              \* had read another document
  results     \* history: what migrations have written

vars == <<config, backups, now, pc, data, name, placed, excused, results>>
----------------------------------------------------------------------------
(* Reading a configuration.                                                *)

Structured(d) == d.bridge_observe \notin {Absent, Wrong}

\* Decode, which knows no legacy name but observe_bridge and observe_interface.
Decode(d) ==
  /\ d.controller = Absent /\ d.inform_url = Absent /\ d.port_map = Absent
  /\ Wrong \notin {d.controller_url, d.observe_bridge, d.observe_interface, d.bridge_observe}
  /\ Structured(d) => Wrong \notin {d.bridge_observe.bridge, d.bridge_observe.uplink_interface}
  /\ ~d.unknown

text(v) == IF v = Absent THEN "" ELSE v

firstText(v, w) == IF text(v) # "" THEN v ELSE text(w)

normalizeMode(v) ==
  IF text(v) = "" THEN "stub" ELSE IF v = "observe" THEN "bridge-observe" ELSE v

bridgeObserve(d) ==
  IF Structured(d) THEN d.bridge_observe ELSE [bridge |-> Absent, uplink_interface |-> Absent]

effectiveBridgeObserve(d) ==
  [bridge |-> firstText(bridgeObserve(d).bridge, d.observe_bridge),
   uplink_interface |-> firstText(bridgeObserve(d).uplink_interface, d.observe_interface)]

\* What the daemon makes of a document, but for the next definition.
Runtime(d) ==
  [controller |-> text(d.controller_url), mode |-> normalizeMode(d.operation_mode),
   observe |-> effectiveBridgeObserve(d), ports |-> d.port_mappings]

\* resolveMAC: "mac: host" takes its address from observe_interface itself.
hostInterfaceMAC(d) ==
  IF normalizeMode(d.operation_mode) = "host-direct" /\ d.mac = "host"
    THEN text(d.observe_interface) ELSE "not used"
----------------------------------------------------------------------------
(* MigrateData: each step takes and returns [ok, changed, doc].            *)

failed(r) == [r EXCEPT !.ok = FALSE]

moved(r, d) == [ok |-> TRUE, changed |-> TRUE, doc |-> d]

\* Rename the alias, fill an empty target, or drop a duplicate; two different
\* values are left to the operator.
migrateScalarAlias(r, alias, target) ==
  LET a == r.doc[alias]  t == r.doc[target]
  IN IF ~r.ok \/ a = Absent THEN r
     ELSE IF Wrong \notin {a, t} /\ t \in {Absent, "", a}
       THEN moved(r, [r.doc EXCEPT ![target] = a, ![alias] = Absent])
     ELSE failed(r)

migrateOperationMode(r) ==
  IF r.ok /\ r.doc.operation_mode = "observe"
    THEN moved(r, [r.doc EXCEPT !.operation_mode = "bridge-observe"]) ELSE r

\* Mutant: the alias is copied and stays.
migrateBridgeAlias_copies(r, alias, target) ==
  LET a == r.doc[alias]  t == bridgeObserve(r.doc)[target]
  IN IF ~r.ok \/ a \in {Absent, ""} THEN r
     ELSE IF Wrong \notin {a, t, r.doc.bridge_observe} /\ t \in {Absent, "", a}
       THEN moved(r, [r.doc EXCEPT
                        !.bridge_observe = [bridgeObserve(r.doc) EXCEPT ![target] = a]])
     ELSE failed(r)

\* Mutant: the structured value is overwritten.
migrateBridgeAlias_overwrites(r, alias, target) ==
  LET a == r.doc[alias]
  IN IF ~r.ok \/ a \in {Absent, ""} THEN r
     ELSE IF Wrong \notin {a, r.doc.bridge_observe}
       THEN moved(r, [r.doc EXCEPT
                        ![alias] = Absent,
                        !.bridge_observe = [bridgeObserve(r.doc) EXCEPT ![target] = a]])
     ELSE failed(r)

migrateBridgeAlias(r, alias, target) ==
  LET a == r.doc[alias]  t == bridgeObserve(r.doc)[target]
  IN IF ~r.ok \/ a \in {Absent, ""} THEN r
     ELSE IF Wrong \notin {a, t, r.doc.bridge_observe} /\ t \in {Absent, "", a}
       THEN moved(r, [r.doc EXCEPT
                        ![alias] = Absent,
                        !.bridge_observe = [bridgeObserve(r.doc) EXCEPT ![target] = a]])
     ELSE failed(r)

migrateNodeAlias(r, alias, target) ==
  LET a == r.doc[alias]
  IN IF ~r.ok \/ a = Absent THEN r
     ELSE IF r.doc[target] \in {Absent, a}
       THEN moved(r, [r.doc EXCEPT ![target] = a, ![alias] = Absent])
     ELSE failed(r)

\* A rewritten document must decode.
MigrateData(d) ==
  LET r0 == [ok |-> TRUE, changed |-> FALSE, doc |-> d]
      r1 == migrateScalarAlias(r0, "controller", "controller_url")
      r2 == migrateScalarAlias(r1, "inform_url", "controller_url")
      r3 == migrateOperationMode(r2)
      r4 == migrateBridgeAlias(r3, "observe_bridge", "bridge")
      r5 == migrateBridgeAlias(r4, "observe_interface", "uplink_interface")
      r6 == migrateNodeAlias(r5, "port_map", "port_mappings")
  IN IF r6.changed /\ ~Decode(r6.doc) THEN failed(r6) ELSE r6
----------------------------------------------------------------------------
(* MigrateFile.                                                            *)

Init ==
  /\ config \in Documents
  /\ backups = <<>>
  /\ now = 0
  /\ pc = [p \in Proc |-> "idle"]
  /\ data = [p \in Proc |-> config]
  /\ name = [p \in Proc |-> 0]
  /\ placed = {config}
  /\ excused = {}
  /\ results = {}

Goto(p, to) == pc' = [pc EXCEPT ![p] = to]

\* The run ends, with or without an error.
Return(p) == Goto(p, "idle")

\* Read and migrate; a dry run, an ambiguous or an unchanged document ends here.
Read(p) ==
  /\ pc[p] = "idle"
  /\ data' = [data EXCEPT ![p] = config]
  /\ LET r == MigrateData(config)
     IN IF r.ok /\ r.changed THEN Goto(p, "backup") ELSE Return(p)
  /\ UNCHANGED <<config, backups, now, name, placed, excused, results>>

\* The backups once the one called n is created.
withPartial(n) ==
  [m \in DOMAIN backups \cup {n} |-> IF m = n THEN Partial ELSE backups[m]]

\* Mutant: the file is opened without O_EXCL.
CreateBackup_overwrites(p) ==
  /\ pc[p] = "backup"
  /\ name' = [name EXCEPT ![p] = now]
  /\ backups' = withPartial(name'[p])
  /\ Goto(p, "writing")
  /\ UNCHANGED <<config, now, data, placed, excused, results>>

\* writeMigrationBackup.  When the name is taken the error of O_EXCL is wrapped
\* (writeExclusiveFile), os.IsExist does not look inside, and the call fails
\* without trying the numbered names.
CreateBackup(p) ==
  /\ pc[p] = "backup"
  /\ name' = [name EXCEPT ![p] = now]
  /\ IF name'[p] \in DOMAIN backups
       THEN Return(p) /\ UNCHANGED backups
       ELSE Goto(p, "writing") /\ backups' = withPartial(name'[p])
  /\ UNCHANGED <<config, now, data, placed, excused, results>>

\* Write and close.
WriteBackup(p) ==
  /\ pc[p] = "writing"
  /\ backups' = [backups EXCEPT ![name[p]] = data[p]]
  /\ Goto(p, "replacing")
  /\ UNCHANGED <<config, now, data, name, placed, excused, results>>

\* writeMigrationFile: a temporary file is written, closed and renamed.
Replace(p) ==
  /\ pc[p] = "replacing"
  /\ config' = MigrateData(data[p]).doc
  /\ results' = results \cup {config'}
  /\ excused' = IF config = data[p] THEN excused ELSE excused \cup {config}
  /\ Return(p)
  /\ UNCHANGED <<backups, now, data, name, placed>>

\* A step fails, or the run is killed; what it has written stays.
Fails(p) ==
  /\ pc[p] # "idle"
  /\ Return(p)
  /\ UNCHANGED <<config, backups, now, data, name, placed, excused, results>>

Tick ==
  /\ now < MaxNow
  /\ now' = now + 1
  /\ UNCHANGED <<config, backups, pc, data, name, placed, excused, results>>

\* The operator saves another document.
Edit(d) ==
  /\ d # config
  /\ config' = d
  /\ placed' = placed \cup {d}
  /\ excused' = excused \cup {config}
  /\ UNCHANGED <<backups, now, pc, data, name, results>>

Next ==
  \/ \E p \in Proc :
       Read(p) \/ CreateBackup(p) \/ WriteBackup(p) \/ Replace(p) \/ Fails(p)
  \/ Tick
  \/ \E d \in Edits : Edit(d)

Spec == Init /\ [][Next]_vars
----------------------------------------------------------------------------
(* Properties.                                                             *)

\* No document an operator wrote is lost to a migration that had read it: it is
\* in place or in a complete backup, through failures, kills and two runs in
\* the same second (MigrateFile, writeExclusiveFile).
NothingIsLost ==
  placed \subseteq {config} \cup excused \cup {backups[n] : n \in DOMAIN backups}

\* What a migration writes is final: the daemon can load it, and a second
\* migration finds nothing left to change (MigrateData).
ResultsAreFinal ==
  \A d \in results : Decode(d) /\ MigrateData(d).ok /\ ~MigrateData(d).changed

\* A migration of a document the daemon could load changes nothing the daemon
\* makes of it, whichever of the old and new names it used.
ObservationIsKept ==
  \A p \in Proc :
    (pc[p] = "replacing" /\ Decode(data[p])) =>
      Runtime(MigrateData(data[p]).doc) = Runtime(data[p])

\* MigrateData normalizes aliases "without changing runtime behavior"
\* (migrate.go:19): the interface that gives a host-direct daemon its MAC
\* address is the same afterwards.
RuntimeBehaviorIsKept ==
  \A p \in Proc :
    (pc[p] = "replacing" /\ Decode(data[p])) =>
      hostInterfaceMAC(MigrateData(data[p]).doc) = hostInterfaceMAC(data[p])
=============================================================================

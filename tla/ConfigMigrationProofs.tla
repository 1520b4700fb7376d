----------------------- MODULE ConfigMigrationProofs -----------------------
(***************************************************************************)
(* Proofs about ConfigMigration.tla, for every set of documents, every     *)
(* number of runs at once and every clock.  First what one step of         *)
(* MigrateData does to a document, then what MigrateData does, then the    *)
(* files.                                                                  *)
(***************************************************************************)
EXTENDS ConfigMigration, TLAPS

Result == [ok : BOOLEAN, changed : BOOLEAN, doc : Document]

\* Two documents agree on everything but the names of the controller and of
\* the port mappings.
SameObservation(d, e) ==
  /\ e.operation_mode = d.operation_mode /\ e.observe_bridge = d.observe_bridge
  /\ e.observe_interface = d.observe_interface

(***************************************************************************)
(* The steps of MigrateData.                                               *)
(***************************************************************************)

\* A step that gives up, and one that rewrites, return a result.
LEMMA Outcomes ==
  ASSUME NEW r \in Result, NEW d \in Document
  PROVE  /\ r.doc \in Document /\ r.ok \in BOOLEAN
         /\ failed(r) \in Result /\ failed(r).ok = FALSE /\ failed(r).doc = r.doc
         /\ moved(r, d) \in Result /\ moved(r, d).doc = d
<1>1. r.doc \in Document /\ r.ok \in BOOLEAN /\ r.changed \in BOOLEAN
  BY DEF Result
<1>2. failed(r) \in Result /\ failed(r).ok = FALSE /\ failed(r).doc = r.doc
  BY <1>1 DEF failed, Result
<1>3. moved(r, d) \in Result /\ moved(r, d).doc = d
  BY DEF moved, Result
<1>4. QED BY <1>1, <1>2, <1>3

\* The scalar aliases touch the controller's names only.
LEMMA ScalarStep ==
  ASSUME NEW r \in Result, NEW alias \in {"controller", "inform_url"}
  PROVE  LET s == migrateScalarAlias(r, alias, "controller_url")
         IN  /\ s \in Result /\ (s.ok => r.ok)
             /\ SameObservation(r.doc, s.doc) /\ s.doc.port_map = r.doc.port_map
             /\ r.doc[alias] = Absent => s = r
<1> DEFINE e == [r.doc EXCEPT !["controller_url"] = r.doc[alias], ![alias] = Absent]
           s == migrateScalarAlias(r, alias, "controller_url")
<1>1. r.doc \in Document
  BY DEF Result
<1>2. /\ e \in Document
      /\ SameObservation(r.doc, e) /\ e.port_map = r.doc.port_map
  BY <1>1, DocumentAssumption DEF Document, Field, SameObservation
<1>3. \/ s = r
      \/ s = moved(r, e) /\ r.ok /\ r.doc[alias] # Absent
      \/ s = failed(r) /\ r.doc[alias] # Absent
  BY DEF migrateScalarAlias
<1> HIDE DEF e, s
<1>4. s \in Result /\ (s.ok => r.ok)
  <2>1. moved(r, e) \in Result /\ failed(r) \in Result /\ failed(r).ok = FALSE
    BY <1>2, Outcomes
  <2>2. QED BY <1>3, <2>1
<1>5. s.doc = r.doc \/ s.doc = e
  BY <1>2, <1>3, Outcomes
<1>6. SameObservation(r.doc, s.doc) /\ s.doc.port_map = r.doc.port_map
  BY <1>2, <1>5 DEF SameObservation
<1>7. r.doc[alias] = Absent => s = r
  BY <1>3
<1>8. QED BY <1>2, <1>4, <1>6, <1>7 DEF s

\* The mode "observe" is renamed, which the daemon does too.
LEMMA ModeStep ==
  ASSUME NEW r \in Result
  PROVE  LET s == migrateOperationMode(r)
         IN  /\ s \in Result /\ (s.ok => r.ok)
             /\ s.ok => s.doc.operation_mode # "observe"
             /\ s.doc.port_map = r.doc.port_map
             /\ Runtime(s.doc) = Runtime(r.doc)
<1> DEFINE e == [r.doc EXCEPT !.operation_mode = "bridge-observe"]
           s == migrateOperationMode(r)
<1>1. r.doc \in Document
  BY DEF Result
<1>2. /\ e \in Document /\ e.operation_mode = "bridge-observe"
      /\ e.port_map = r.doc.port_map /\ e.controller_url = r.doc.controller_url
      /\ e.bridge_observe = r.doc.bridge_observe /\ e.observe_bridge = r.doc.observe_bridge
      /\ e.observe_interface = r.doc.observe_interface /\ e.port_mappings = r.doc.port_mappings
  BY <1>1, DocumentAssumption DEF Document, Node
<1>3. \/ s = r /\ (~r.ok \/ r.doc.operation_mode # "observe")
      \/ s = moved(r, e) /\ r.ok /\ r.doc.operation_mode = "observe"
  BY DEF migrateOperationMode
<1> HIDE DEF e, s
<1>4. s \in Result /\ (s.ok => r.ok)
  BY <1>2, <1>3, Outcomes
<1>5. \/ s.doc = r.doc /\ (s.ok => r.doc.operation_mode # "observe")
      \/ s.doc = e /\ r.doc.operation_mode = "observe"
  <2>1. moved(r, e).doc = e
    BY <1>2, Outcomes
  <2>2. QED BY <1>3, <2>1
<1>6. r.doc.operation_mode = "observe" => Runtime(e) = Runtime(r.doc)
  <2>1. SUFFICES ASSUME r.doc.operation_mode = "observe" PROVE Runtime(e) = Runtime(r.doc)
    OBVIOUS
  <2>2. "observe" # Absent /\ "bridge-observe" # Absent
    BY DocumentAssumption
  <2>3. normalizeMode(e.operation_mode) = normalizeMode(r.doc.operation_mode)
    BY <1>2, <2>1, <2>2 DEF normalizeMode, text
  <2>4. effectiveBridgeObserve(e) = effectiveBridgeObserve(r.doc)
    BY <1>2 DEF effectiveBridgeObserve, bridgeObserve, Structured
  <2>5. QED BY <1>2, <2>3, <2>4 DEF Runtime
<1>7. QED BY <1>2, <1>4, <1>5, <1>6 DEF s

\* What the daemon observes through one field: the new name, or else the old one.
\* Moving a text from the old name to the new one leaves it alone.
LEMMA MovedText ==
  ASSUME NEW a, NEW t, a \notin {Absent, ""}, t \in {Absent, "", a}
  PROVE  firstText(a, Absent) = firstText(t, a)
<1>1. text(a) = a /\ text(t) \in {"", a} /\ (text(t) # "" => t = a)
  BY DEF text
<1>2. QED BY <1>1 DEF firstText

\* The old and the new names of the bridge and of its uplink.
BridgeAlias(alias, target) ==
  \/ alias = "observe_bridge" /\ target = "bridge"
  \/ alias = "observe_interface" /\ target = "uplink_interface"

\* An alias moves into the structured node, and the daemon observes the same
\* bridge and uplink.
LEMMA BridgeStep ==
  ASSUME NEW r \in Result, NEW alias, NEW target, BridgeAlias(alias, target)
  PROVE  LET s == migrateBridgeAlias(r, alias, target)
         IN  /\ s \in Result /\ (s.ok => r.ok)
             /\ s.ok /\ alias = "observe_bridge" => s.doc.observe_bridge \in {Absent, ""}
             /\ s.ok /\ alias = "observe_interface" => s.doc.observe_interface \in {Absent, ""}
             /\ s.doc.operation_mode = r.doc.operation_mode
             /\ s.doc.port_map = r.doc.port_map
             /\ Runtime(s.doc) = Runtime(r.doc)
             /\ alias = "observe_interface" => s.doc.observe_bridge = r.doc.observe_bridge
<1> DEFINE a == r.doc[alias]
           t == bridgeObserve(r.doc)[target]
           n == [bridgeObserve(r.doc) EXCEPT ![target] = a]
           e == [r.doc EXCEPT ![alias] = Absent, !.bridge_observe = n]
           s == migrateBridgeAlias(r, alias, target)
<1>1. r.doc \in Document
  BY DEF Result
<1>2. \/ alias = "observe_bridge" /\ target = "bridge"
      \/ alias = "observe_interface" /\ target = "uplink_interface"
  BY DEF BridgeAlias
<1>3. bridgeObserve(r.doc) \in BridgeNode /\ a \in Field
  BY <1>1, <1>2 DEF Document, bridgeObserve, Structured, BridgeNode, Field
<1>4. /\ n \in BridgeNode /\ n[target] = a
      /\ target # "bridge" => n.bridge = bridgeObserve(r.doc).bridge
      /\ target # "uplink_interface" =>
           n.uplink_interface = bridgeObserve(r.doc).uplink_interface
  BY <1>2, <1>3 DEF BridgeNode
<1>5. \/ s = r /\ (~r.ok \/ a \in {Absent, ""})
      \/ s = moved(r, e) /\ r.ok /\ a \notin {Absent, ""} /\ t \in {Absent, "", a}
      \/ s = failed(r)
  BY DEF migrateBridgeAlias
<1> HIDE DEF n, a, t
<1>6. /\ e \in Document /\ e[alias] = Absent /\ e.bridge_observe = n
      /\ e.port_map = r.doc.port_map /\ e.controller_url = r.doc.controller_url
      /\ e.operation_mode = r.doc.operation_mode /\ e.port_mappings = r.doc.port_mappings
      /\ alias # "observe_bridge" => e.observe_bridge = r.doc.observe_bridge
      /\ alias # "observe_interface" => e.observe_interface = r.doc.observe_interface
  BY <1>1, <1>2, <1>4, DocumentAssumption DEF Document, Field
<1> HIDE DEF e, s
<1>7. s \in Result /\ (s.ok => r.ok)
  <2>1. moved(r, e) \in Result /\ failed(r) \in Result /\ failed(r).ok = FALSE
    BY <1>6, Outcomes
  <2>2. QED BY <1>5, <2>1
<1>8. \/ s.doc = r.doc /\ (s.ok => a \in {Absent, ""})
      \/ s.doc = e /\ a \notin {Absent, ""} /\ t \in {Absent, "", a}
  <2>1. moved(r, e).doc = e /\ failed(r).doc = r.doc /\ failed(r).ok = FALSE
    BY <1>6, Outcomes
  <2>2. QED BY <1>5, <2>1
<1>9. ASSUME a \notin {Absent, ""}, t \in {Absent, "", a}
      PROVE  Runtime(e) = Runtime(r.doc)
  <2>1. bridgeObserve(e) = n
    BY <1>4, <1>6, DocumentAssumption DEF bridgeObserve, Structured
  <2>2. firstText(n[target], Absent) = firstText(t, a)
    BY <1>4, <1>9, MovedText
  <2>3. /\ firstText(n.bridge, e.observe_bridge)
             = firstText(bridgeObserve(r.doc).bridge, r.doc.observe_bridge)
        /\ firstText(n.uplink_interface, e.observe_interface)
             = firstText(bridgeObserve(r.doc).uplink_interface, r.doc.observe_interface)
    BY <1>2, <1>4, <1>6, <2>2 DEF a, t
  <2>4. effectiveBridgeObserve(e) = effectiveBridgeObserve(r.doc)
    BY <2>1, <2>3 DEF effectiveBridgeObserve
  <2>5. QED BY <1>6, <2>4 DEF Runtime
<1>10. alias = "observe_interface" => s.doc.observe_bridge = r.doc.observe_bridge
  BY <1>6, <1>8
<1>11. /\ s.ok /\ alias = "observe_bridge" => s.doc.observe_bridge \in {Absent, ""}
       /\ s.ok /\ alias = "observe_interface" => s.doc.observe_interface \in {Absent, ""}
  BY <1>6, <1>8 DEF a
<1>12. /\ s.doc.operation_mode = r.doc.operation_mode /\ s.doc.port_map = r.doc.port_map
       /\ Runtime(s.doc) = Runtime(r.doc)
  BY <1>6, <1>8, <1>9
<1>13. QED BY <1>7, <1>10, <1>11, <1>12 DEF s

\* The same for each of the two names.
LEMMA BridgeSteps ==
  ASSUME NEW r \in Result
  PROVE  LET s == migrateBridgeAlias(r, "observe_bridge", "bridge")
             u == migrateBridgeAlias(r, "observe_interface", "uplink_interface")
         IN  /\ s \in Result /\ (s.ok => r.ok) /\ (s.ok => s.doc.observe_bridge \in {Absent, ""})
             /\ s.doc.operation_mode = r.doc.operation_mode
             /\ s.doc.port_map = r.doc.port_map /\ Runtime(s.doc) = Runtime(r.doc)
             /\ u \in Result /\ (u.ok => r.ok) /\ (u.ok => u.doc.observe_interface \in {Absent, ""})
             /\ u.doc.operation_mode = r.doc.operation_mode
             /\ u.doc.observe_bridge = r.doc.observe_bridge
             /\ u.doc.port_map = r.doc.port_map /\ Runtime(u.doc) = Runtime(r.doc)
<1>1. BridgeAlias("observe_bridge", "bridge") /\ BridgeAlias("observe_interface", "uplink_interface")
  BY DEF BridgeAlias
<1> DEFINE s == migrateBridgeAlias(r, "observe_bridge", "bridge")
           u == migrateBridgeAlias(r, "observe_interface", "uplink_interface")
<1>2. /\ s \in Result /\ (s.ok => r.ok) /\ (s.ok => s.doc.observe_bridge \in {Absent, ""})
      /\ s.doc.operation_mode = r.doc.operation_mode
      /\ s.doc.port_map = r.doc.port_map /\ Runtime(s.doc) = Runtime(r.doc)
  BY <1>1, BridgeStep
<1>3. /\ u \in Result /\ (u.ok => r.ok) /\ (u.ok => u.doc.observe_interface \in {Absent, ""})
      /\ u.doc.operation_mode = r.doc.operation_mode
      /\ u.doc.observe_bridge = r.doc.observe_bridge
      /\ u.doc.port_map = r.doc.port_map /\ Runtime(u.doc) = Runtime(r.doc)
  BY <1>1, BridgeStep
<1>4. QED BY <1>2, <1>3

\* The node's alias touches the port mappings only.
LEMMA NodeStep ==
  ASSUME NEW r \in Result
  PROVE  LET s == migrateNodeAlias(r, "port_map", "port_mappings")
         IN  /\ s \in Result /\ (s.ok => r.ok)
             /\ SameObservation(r.doc, s.doc)
             /\ r.doc.port_map = Absent => s = r
<1> DEFINE e == [r.doc EXCEPT !["port_mappings"] = r.doc["port_map"], !["port_map"] = Absent]
           s == migrateNodeAlias(r, "port_map", "port_mappings")
<1>1. r.doc \in Document
  BY DEF Result
<1>2. e \in Document /\ SameObservation(r.doc, e)
  BY <1>1, DocumentAssumption DEF Document, Node, SameObservation
<1>3. \/ s = r
      \/ s = moved(r, e) /\ r.ok /\ r.doc.port_map # Absent
      \/ s = failed(r) /\ r.doc.port_map # Absent
  BY DEF migrateNodeAlias
<1> HIDE DEF e, s
<1>4. /\ moved(r, e) \in Result /\ failed(r) \in Result /\ failed(r).ok = FALSE
      /\ moved(r, e).doc = e /\ failed(r).doc = r.doc
  BY <1>2, Outcomes
<1>5. s \in Result /\ (s.ok => r.ok) /\ (s.doc = r.doc \/ s.doc = e)
  BY <1>3, <1>4
<1>6. SameObservation(r.doc, s.doc)
  BY <1>2, <1>5 DEF SameObservation
<1>7. QED BY <1>3, <1>5, <1>6 DEF s

(***************************************************************************)
(* MigrateData.                                                            *)
(***************************************************************************)

start(d) == [ok |-> TRUE, changed |-> FALSE, doc |-> d]

\* A document that uses the new names only is left alone.
LEMMA NothingToMigrate ==
  ASSUME NEW d \in Document,
         d.controller = Absent, d.inform_url = Absent, d.port_map = Absent,
         d.operation_mode # "observe",
         d.observe_bridge \in {Absent, ""}, d.observe_interface \in {Absent, ""}
  PROVE  MigrateData(d).ok = TRUE /\ MigrateData(d).changed = FALSE
<1>1. start(d).ok = TRUE /\ start(d).changed = FALSE /\ start(d).doc = d
  BY DEF start
<1>2. /\ migrateScalarAlias(start(d), "controller", "controller_url") = start(d)
      /\ migrateScalarAlias(start(d), "inform_url", "controller_url") = start(d)
      /\ migrateOperationMode(start(d)) = start(d)
      /\ migrateBridgeAlias(start(d), "observe_bridge", "bridge") = start(d)
      /\ migrateBridgeAlias(start(d), "observe_interface", "uplink_interface") = start(d)
      /\ migrateNodeAlias(start(d), "port_map", "port_mappings") = start(d)
  <2>1. /\ migrateScalarAlias(start(d), "controller", "controller_url") = start(d)
        /\ migrateScalarAlias(start(d), "inform_url", "controller_url") = start(d)
    BY <1>1 DEF migrateScalarAlias
  <2>2. migrateOperationMode(start(d)) = start(d)
    BY <1>1 DEF migrateOperationMode
  <2>3. /\ migrateBridgeAlias(start(d), "observe_bridge", "bridge") = start(d)
        /\ migrateBridgeAlias(start(d), "observe_interface", "uplink_interface") = start(d)
    BY <1>1 DEF migrateBridgeAlias
  <2>4. migrateNodeAlias(start(d), "port_map", "port_mappings") = start(d)
    BY <1>1 DEF migrateNodeAlias
  <2>5. QED BY <2>1, <2>2, <2>3, <2>4
<1>3. MigrateData(d) = IF start(d).changed /\ ~Decode(start(d).doc) THEN failed(start(d)) ELSE start(d)
  BY <1>2 DEF MigrateData, start
<1>4. MigrateData(d) = start(d)
  BY <1>1, <1>3
<1>5. QED BY <1>1, <1>4

\* A successful rewriting is final.
LEMMA RewritingIsFinal ==
  ASSUME NEW d \in Document, MigrateData(d).ok, MigrateData(d).changed
  PROVE  LET e == MigrateData(d).doc
         IN  e \in Document /\ Decode(e) /\ MigrateData(e).ok /\ ~MigrateData(e).changed
<1> DEFINE r1 == migrateScalarAlias(start(d), "controller", "controller_url")
           r2 == migrateScalarAlias(r1, "inform_url", "controller_url")
           r3 == migrateOperationMode(r2)
           r4 == migrateBridgeAlias(r3, "observe_bridge", "bridge")
           r5 == migrateBridgeAlias(r4, "observe_interface", "uplink_interface")
           r6 == migrateNodeAlias(r5, "port_map", "port_mappings")
<1>1. MigrateData(d) = IF r6.changed /\ ~Decode(r6.doc) THEN failed(r6) ELSE r6
  BY DEF MigrateData, start
<1>2. start(d) \in Result
  BY DEF start, Result
<1>3. r1 \in Result
  BY <1>2, ScalarStep
<1> HIDE DEF r1
<1>4. r2 \in Result
  BY <1>3, ScalarStep
<1> HIDE DEF r2
<1>5. r3 \in Result /\ (r3.ok => r3.doc.operation_mode # "observe")
  BY <1>4, ModeStep
<1> HIDE DEF r3
<1>6. /\ r4 \in Result /\ (r4.ok => r3.ok) /\ (r4.ok => r4.doc.observe_bridge \in {Absent, ""})
      /\ r4.doc.operation_mode = r3.doc.operation_mode
  BY <1>5, BridgeSteps
<1> HIDE DEF r4
<1>7. /\ r5 \in Result /\ (r5.ok => r4.ok) /\ (r5.ok => r5.doc.observe_interface \in {Absent, ""})
      /\ r5.doc.operation_mode = r4.doc.operation_mode
      /\ r5.doc.observe_bridge = r4.doc.observe_bridge
  BY <1>6, BridgeSteps
<1> HIDE DEF r5
<1>8. r6 \in Result /\ (r6.ok => r5.ok) /\ SameObservation(r5.doc, r6.doc)
  BY <1>7, NodeStep
<1> HIDE DEF r6
<1>9. r6.doc \in Document /\ failed(r6).ok = FALSE
  BY <1>8, Outcomes
<1>10. MigrateData(d) = r6 /\ r6.ok /\ r6.changed /\ Decode(r6.doc)
  BY <1>1, <1>9
<1>11. /\ r6.doc.operation_mode # "observe"
       /\ r6.doc.observe_bridge \in {Absent, ""} /\ r6.doc.observe_interface \in {Absent, ""}
  BY <1>5, <1>6, <1>7, <1>8, <1>10 DEF SameObservation
<1>12. r6.doc.controller = Absent /\ r6.doc.inform_url = Absent /\ r6.doc.port_map = Absent
  BY <1>10 DEF Decode
<1>13. MigrateData(r6.doc).ok = TRUE /\ MigrateData(r6.doc).changed = FALSE
  BY <1>9, <1>11, <1>12, NothingToMigrate
<1>14. QED BY <1>9, <1>10, <1>13

\* A document the daemon can load keeps its meaning.
LEMMA RewritingKeepsRuntime ==
  ASSUME NEW d \in Document, Decode(d)
  PROVE  Runtime(MigrateData(d).doc) = Runtime(d)
<1> DEFINE r1 == migrateScalarAlias(start(d), "controller", "controller_url")
           r2 == migrateScalarAlias(r1, "inform_url", "controller_url")
           r3 == migrateOperationMode(r2)
           r4 == migrateBridgeAlias(r3, "observe_bridge", "bridge")
           r5 == migrateBridgeAlias(r4, "observe_interface", "uplink_interface")
           r6 == migrateNodeAlias(r5, "port_map", "port_mappings")
<1>1. MigrateData(d) = IF r6.changed /\ ~Decode(r6.doc) THEN failed(r6) ELSE r6
  BY DEF MigrateData, start
<1>2. start(d) \in Result /\ start(d).doc = d
  BY DEF start, Result
<1>3. d.controller = Absent /\ d.inform_url = Absent /\ d.port_map = Absent
  BY DEF Decode
<1>4. r1 = start(d)
  BY <1>2, <1>3 DEF migrateScalarAlias
<1> HIDE DEF r1
<1>5. r2 = start(d)
  BY <1>2, <1>3, <1>4 DEF migrateScalarAlias
<1> HIDE DEF r2
<1>6. r3 \in Result /\ Runtime(r3.doc) = Runtime(d) /\ r3.doc.port_map = Absent
  BY <1>2, <1>3, <1>5, ModeStep
<1> HIDE DEF r3
<1>7. r4 \in Result /\ Runtime(r4.doc) = Runtime(d) /\ r4.doc.port_map = Absent
  BY <1>6, BridgeSteps
<1> HIDE DEF r4
<1>8. r5 \in Result /\ Runtime(r5.doc) = Runtime(d) /\ r5.doc.port_map = Absent
  BY <1>7, BridgeSteps
<1> HIDE DEF r5
<1>9. r6 = r5
  BY <1>8, NodeStep
<1> HIDE DEF r6
<1>10. failed(r6).doc = r6.doc
  BY <1>8, <1>9, Outcomes
<1>11. MigrateData(d).doc = r6.doc
  BY <1>1, <1>10
<1>12. QED BY <1>8, <1>9, <1>11

(***************************************************************************)
(* The files.                                                              *)
(***************************************************************************)

AtWork == {"backup", "writing", "replacing"}

FileTypes ==
  /\ config \in Document /\ placed \subseteq Document
  /\ data \in [Proc -> Document] /\ name \in [Proc -> Int] /\ now \in Int
  /\ pc \in [Proc -> {"idle"} \cup AtWork]
  /\ backups \in [DOMAIN backups -> Document \cup {Partial}]

\* A run at work has read a document that migrates.
ReadMigrates == \A p \in Proc : pc[p] \in AtWork => MigrateData(data[p]).ok /\ MigrateData(data[p]).changed

\* A run owns its backup from its creation to the replacement: no other run
\* writes there, and it is complete before the file is replaced.
OwnsBackup(p) ==
  /\ pc[p] \in {"writing", "replacing"} => name[p] \in DOMAIN backups
  /\ pc[p] = "writing" => backups[name[p]] = Partial
  /\ pc[p] = "replacing" => backups[name[p]] = data[p]

BackupsOwned ==
  /\ \A p \in Proc : OwnsBackup(p)
  /\ \A p, q \in Proc :
       (p # q /\ pc[p] = "writing" /\ pc[q] \in {"writing", "replacing"}) => name[p] # name[q]

MInv == FileTypes /\ ReadMigrates /\ BackupsOwned /\ NothingIsLost /\ ResultsAreFinal

\* The first state satisfies the invariant.
LEMMA InitMInv == Init => MInv
<1> SUFFICES ASSUME Init PROVE MInv
  OBVIOUS
<1>1. config \in Document
  BY DocumentAssumption DEF Init
<1>2. FileTypes
  BY <1>1 DEF Init, FileTypes
<1>3. ReadMigrates /\ BackupsOwned /\ NothingIsLost /\ ResultsAreFinal
  BY DEF Init, ReadMigrates, BackupsOwned, OwnsBackup, AtWork, NothingIsLost, ResultsAreFinal
<1>4. QED BY <1>2, <1>3 DEF MInv

\* Every step keeps the invariant.
LEMMA NextMInv == MInv /\ [Next]_vars => MInv'
<1> SUFFICES ASSUME MInv, [Next]_vars PROVE MInv'
  OBVIOUS
<1> USE DEF MInv
<1>1. ASSUME NEW p \in Proc, Read(p) PROVE MInv'
  <2>1. /\ pc[p] = "idle" /\ data' = [data EXCEPT ![p] = config]
        /\ UNCHANGED <<config, backups, now, name, placed, excused, results>>
    BY <1>1 DEF Read
  <2>2. \/ pc' = [pc EXCEPT ![p] = "idle"]
        \/ /\ pc' = [pc EXCEPT ![p] = "backup"]
           /\ MigrateData(config).ok /\ MigrateData(config).changed
    BY <1>1 DEF Read, Goto, Return
  <2>3. FileTypes'
    BY <2>1, <2>2 DEF FileTypes, AtWork
  <2>4. ReadMigrates'
    BY <2>1, <2>2 DEF FileTypes, ReadMigrates, AtWork
  <2>5. BackupsOwned'
    BY <2>1, <2>2 DEF FileTypes, BackupsOwned, OwnsBackup
  <2>6. NothingIsLost' /\ ResultsAreFinal'
    BY <2>1 DEF NothingIsLost, ResultsAreFinal
  <2>7. QED BY <2>3, <2>4, <2>5, <2>6
<1>2. ASSUME NEW p \in Proc, CreateBackup(p) PROVE MInv'
  <2>1. /\ pc[p] = "backup" /\ name' = [name EXCEPT ![p] = now]
        /\ UNCHANGED <<config, now, data, placed, excused, results>>
    BY <1>2 DEF CreateBackup
  <2>2. name'[p] = now
    BY <2>1 DEF FileTypes
  <2>3. CASE now \in DOMAIN backups
    <3>1. pc' = [pc EXCEPT ![p] = "idle"] /\ backups' = backups
      BY <1>2, <2>2, <2>3 DEF CreateBackup, Return, Goto
    <3>2. FileTypes' /\ ReadMigrates'
      BY <2>1, <3>1 DEF FileTypes, ReadMigrates, AtWork
    <3>3. BackupsOwned'
      BY <2>1, <3>1 DEF FileTypes, BackupsOwned, OwnsBackup
    <3>4. NothingIsLost' /\ ResultsAreFinal'
      BY <2>1, <3>1 DEF NothingIsLost, ResultsAreFinal
    <3>5. QED BY <3>2, <3>3, <3>4
  <2>4. CASE now \notin DOMAIN backups
    <3>1. pc' = [pc EXCEPT ![p] = "writing"] /\ backups' = withPartial(now)
      BY <1>2, <2>2, <2>4 DEF CreateBackup, Goto
    <3>2. /\ DOMAIN backups' = DOMAIN backups \cup {now} /\ backups'[now] = Partial
          /\ \A n \in DOMAIN backups : backups'[n] = backups[n]
          /\ backups' \in [DOMAIN backups' -> Document \cup {Partial}]
      <4>1. \A n \in DOMAIN backups : backups[n] \in Document \cup {Partial}
        BY DEF FileTypes
      <4>2. QED BY <2>4, <3>1, <4>1 DEF withPartial
    <3>3. FileTypes' /\ ReadMigrates'
      BY <2>1, <3>1, <3>2 DEF FileTypes, ReadMigrates, AtWork
    <3>4. BackupsOwned'
      BY <2>1, <2>2, <2>4, <3>1, <3>2 DEF FileTypes, BackupsOwned, OwnsBackup
    <3>5. NothingIsLost' /\ ResultsAreFinal'
      BY <2>1, <3>2 DEF NothingIsLost, ResultsAreFinal
    <3>6. QED BY <3>3, <3>4, <3>5
  <2>5. QED BY <2>3, <2>4
<1>3. ASSUME NEW p \in Proc, WriteBackup(p) PROVE MInv'
  <2>1. /\ pc[p] = "writing" /\ backups' = [backups EXCEPT ![name[p]] = data[p]]
        /\ pc' = [pc EXCEPT ![p] = "replacing"]
        /\ UNCHANGED <<config, now, data, name, placed, excused, results>>
    BY <1>3 DEF WriteBackup, Goto
  <2>2. name[p] \in DOMAIN backups /\ backups[name[p]] = Partial /\ data[p] \in Document
    BY <2>1 DEF FileTypes, BackupsOwned, OwnsBackup
  <2>3. /\ DOMAIN backups' = DOMAIN backups /\ backups'[name[p]] = data[p]
        /\ \A n \in DOMAIN backups : n # name[p] => backups'[n] = backups[n]
        /\ backups' \in [DOMAIN backups' -> Document \cup {Partial}]
    BY <2>1, <2>2 DEF FileTypes
  <2>4. FileTypes' /\ ReadMigrates'
    BY <2>1, <2>3 DEF FileTypes, ReadMigrates, AtWork
  <2>5. BackupsOwned'
    BY <2>1, <2>2, <2>3 DEF FileTypes, BackupsOwned, OwnsBackup
  <2>6. NothingIsLost'
    <3>1. SUFFICES ASSUME NEW d \in placed
                   PROVE  d \in {config} \cup excused \cup {backups'[n] : n \in DOMAIN backups'}
      BY <2>1 DEF NothingIsLost
    <3>2. d \in Document
      BY DEF FileTypes
    <3>3. d \in {config} \cup excused \/ \E n \in DOMAIN backups : d = backups[n]
      BY DEF NothingIsLost
    <3>4. ASSUME NEW n \in DOMAIN backups, d = backups[n]
          PROVE  n # name[p] /\ d = backups'[n]
      BY <2>2, <2>3, <3>2, <3>4, DocumentAssumption
    <3>5. QED BY <2>3, <3>3, <3>4
  <2>7. ResultsAreFinal'
    BY <2>1 DEF ResultsAreFinal
  <2>8. QED BY <2>4, <2>5, <2>6, <2>7
<1>4. ASSUME NEW p \in Proc, Replace(p) PROVE MInv'
  <2>1. /\ pc[p] = "replacing" /\ config' = MigrateData(data[p]).doc
        /\ results' = results \cup {config'}
        /\ excused' = IF config = data[p] THEN excused ELSE excused \cup {config}
        /\ pc' = [pc EXCEPT ![p] = "idle"]
        /\ UNCHANGED <<backups, now, data, name, placed>>
    BY <1>4 DEF Replace, Return, Goto
  <2>2. /\ data[p] \in Document /\ MigrateData(data[p]).ok /\ MigrateData(data[p]).changed
        /\ name[p] \in DOMAIN backups /\ backups[name[p]] = data[p]
    BY <2>1 DEF FileTypes, ReadMigrates, AtWork, BackupsOwned, OwnsBackup
  <2>3. config' \in Document /\ Decode(config') /\ MigrateData(config').ok /\ ~MigrateData(config').changed
    BY <2>1, <2>2, RewritingIsFinal
  <2>4. FileTypes' /\ ReadMigrates'
    BY <2>1, <2>3 DEF FileTypes, ReadMigrates, AtWork
  <2>5. BackupsOwned'
    BY <2>1 DEF FileTypes, BackupsOwned, OwnsBackup
  <2>6. NothingIsLost'
    BY <2>1, <2>2 DEF NothingIsLost
  <2>7. ResultsAreFinal'
    BY <2>1, <2>3 DEF ResultsAreFinal
  <2>8. QED BY <2>4, <2>5, <2>6, <2>7
<1>5. ASSUME NEW p \in Proc, Fails(p) PROVE MInv'
  <2>1. /\ pc' = [pc EXCEPT ![p] = "idle"]
        /\ UNCHANGED <<config, backups, now, data, name, placed, excused, results>>
    BY <1>5 DEF Fails, Return, Goto
  <2>2. FileTypes' /\ ReadMigrates'
    BY <2>1 DEF FileTypes, ReadMigrates, AtWork
  <2>3. BackupsOwned'
    BY <2>1 DEF FileTypes, BackupsOwned, OwnsBackup
  <2>4. NothingIsLost' /\ ResultsAreFinal'
    BY <2>1 DEF NothingIsLost, ResultsAreFinal
  <2>5. QED BY <2>2, <2>3, <2>4
<1>6. CASE Tick
  <2>1. now' \in Int /\ UNCHANGED <<config, backups, pc, data, name, placed, excused, results>>
    BY <1>6 DEF Tick, FileTypes
  <2>2. QED
    BY <2>1 DEF FileTypes, ReadMigrates, AtWork, BackupsOwned, OwnsBackup, NothingIsLost,
                ResultsAreFinal
<1>7. ASSUME NEW d \in Edits, Edit(d) PROVE MInv'
  <2>1. /\ config' = d /\ placed' = placed \cup {d} /\ excused' = excused \cup {config}
        /\ UNCHANGED <<backups, now, pc, data, name, results>> /\ d \in Document
    BY <1>7, DocumentAssumption DEF Edit
  <2>2. QED
    BY <2>1 DEF FileTypes, ReadMigrates, AtWork, BackupsOwned, OwnsBackup, NothingIsLost,
                ResultsAreFinal
<1>8. CASE UNCHANGED vars
  BY <1>8 DEF vars, FileTypes, ReadMigrates, AtWork, BackupsOwned, OwnsBackup, NothingIsLost,
              ResultsAreFinal
<1>9. QED
  BY <1>1, <1>2, <1>3, <1>4, <1>5, <1>6, <1>7, <1>8 DEF Next

\* The invariant holds throughout.
LEMMA MigrationInvariance == Spec => []MInv
BY InitMInv, NextMInv, PTL DEF Spec

(***************************************************************************)
(* The theorems.                                                           *)
(***************************************************************************)

\* No document somebody wrote is lost to a migration that had read it, for any
\* number of runs at once, killed or failing anywhere (MigrateFile,
\* writeExclusiveFile).
THEOREM NoDocumentIsLost == Spec => []NothingIsLost
<1>1. MInv => NothingIsLost  BY DEF MInv
<1>2. QED BY <1>1, MigrationInvariance, PTL

\* Whatever a migration writes, the daemon can load and a second migration
\* leaves alone, for every document (MigrateData).
THEOREM MigrationIsFinal == Spec => []ResultsAreFinal
<1>1. MInv => ResultsAreFinal  BY DEF MInv
<1>2. QED BY <1>1, MigrationInvariance, PTL

\* A migration of a document the daemon could load leaves the controller, the
\* mode, the observed bridge and uplink and the port mappings as they were, for
\* every document (MigrateData, EffectiveBridgeObserve).
THEOREM MigrationKeepsObservation == Spec => []ObservationIsKept
<1>1. MInv => ObservationIsKept
  BY RewritingKeepsRuntime DEF MInv, FileTypes, ObservationIsKept
<1>2. QED BY <1>1, MigrationInvariance, PTL
=============================================================================

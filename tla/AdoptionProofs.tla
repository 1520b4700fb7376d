--------------------------- MODULE AdoptionProofs ---------------------------
(***************************************************************************)
(* Proofs about Adoption.tla for every set of sessions, keys, URLs,        *)
(* versions and initial files.                                             *)
(***************************************************************************)
EXTENDS Adoption, TLAPS

(***************************************************************************)
(* Facts about the store operators.                                        *)
(***************************************************************************)

\* ResetEnv's store has the type of a store and is always accepted by SaveEnv
\* and LoadEnv.
LEMMA FactoryAccepted ==
  FactoryStore \in Store /\ validateStoreForPersistence(FactoryStore) /\ ZeroStore \in Store
BY TextAssumption
   DEF FactoryStore, ZeroStore, Store, State, validateStoreForPersistence,
       validatePersistedField, validatePersistedStore

\* Merge yields a store.
LEMMA MergeType ==
  ASSUME NEW base \in Store, NEW update \in Store
  PROVE  Merge(base, update) \in Store
<1>1. mergeState(base, update) \in State
  BY DEF mergeState, phaseRestarts, phaseIgnored, State, Store
<1>2. over(base.state, mergeState(base, update)) \in State
  BY <1>1 DEF over, Store
<1>3. QED
  BY <1>2 DEF Merge, over, Store

\* A merge never drops a field of its base.
LEMMA MergeForgetsNothing ==
  ASSUME NEW base \in Store, NEW update \in Store
  PROVE  ~Forgets(base, Merge(base, update))
BY DEF Forgets, Merge, over, Store

\* When a merge ends in the connected phase it has changed neither the key
\* nor the URL, and the phase comes from the base or from a controller.
LEMMA MergeConnected ==
  ASSUME NEW base \in Store, NEW update \in Store,
         update.state \in {"connected", "adopting", "provisioning"},
         Merge(base, update).state = "connected",
         validateStoreForPersistence(Merge(base, update))
  PROVE  /\ Identity(Merge(base, update)) = Identity(base)
         /\ update.state = "connected" \/ base.state = "connected"
<1> DEFINE m == Merge(base, update)
<1>1. ~keyChanged(base, update) /\ ~urlChanged(base, update)
  BY DEF Merge, mergeState, phaseRestarts, phaseIgnored, over
<1>2. update.state = "connected" \/ base.state = "connected"
  BY DEF Merge, mergeState, phaseRestarts, phaseIgnored, over
<1>3. m.informURL = base.informURL
  BY <1>1 DEF Merge, over, urlChanged
<1>4. m.authKey = over(base.authKey, update.authKey)
  BY DEF Merge
<1>5. informAuthKey(m) = informAuthKey(base)
  <2>1. CASE update.authKey = ""
    BY <2>1, <1>4 DEF over, informAuthKey
  <2>2. CASE update.authKey # ""
    <3>1. authKeysEqual(update.authKey, base.authKey) /\ m.authKey = update.authKey
      BY <2>2, <1>1, <1>4 DEF keyChanged, over
    <3>2. update.authKey \in DOMAIN KeyBytes
      BY <3>1, <2>2, TextAssumption
         DEF validateStoreForPersistence, validatePersistedField,
             validateIndividualAuthKeyText
    <3>3. base.authKey # "" /\ KeyBytes[update.authKey] = KeyBytes[base.authKey]
      BY <3>1, <3>2, <2>2, TextAssumption DEF authKeysEqual, KeyText
    <3>4. QED
      BY <3>1, <3>3, <2>2 DEF informAuthKey
  <2>3. QED BY <2>1, <2>2
<1>6. QED
  BY <1>2, <1>3, <1>5 DEF Identity, effectiveInformURL

\* The update a reply or an SSH command carries is a store, in one of the
\* phases MergeConnected speaks of.
LEMMA UpdateTypes ==
  ASSUME TypeOK
  PROVE  /\ \A reply \in Reply :
              /\ responseUpdate(reply) \in Store
              /\ (HasStateUpdate(reply) /\ ~ResetRequested(reply)) =>
                   responseUpdate(reply).state = "connected"
         /\ \A cmd \in Command :
              /\ sshUpdate(cmd.informURL, cmd.authKey) \in Store
              /\ sshUpdate(cmd.informURL, cmd.authKey).state \in {"adopting", "provisioning"}
<1>1. ASSUME NEW reply \in Reply
      PROVE  /\ responseUpdate(reply) \in Store
             /\ (HasStateUpdate(reply) /\ ~ResetRequested(reply)) =>
                  responseUpdate(reply).state = "connected"
  <2> DEFINE u == ParseControllerResponseInfo(reply)
  <2>1. noMgmtCFG \in MgmtCFG
    BY DEF noMgmtCFG, MgmtCFG
  <2>2. reply.mgmtCFG \in MgmtCFG
    BY <1>1, <2>1 DEF Reply, PlainReply, SetParam
  <2>3. /\ u \in Store
        /\ (HasStateUpdate(reply) /\ ~ResetRequested(reply)) => u.state = "connected"
    <3>1. \A mgmt \in MgmtCFG : /\ parseMgmtCFG(mgmt) \in Store
                                /\ parseMgmtCFG(mgmt).state = "connected"
      BY DEF parseMgmtCFG, MgmtCFG, Store, State
    <3>2. QED
      BY <2>1, <2>2, <3>1, FactoryAccepted
         DEF ParseControllerResponseInfo, HasStateUpdate, ResetRequested
  <2>4. requestGCM(store) \in BOOLEAN
    BY DEF requestGCM, TypeOK, Store
  <2>5. QED
    BY <2>3, <2>4 DEF responseUpdate, Store
<1>2. ASSUME NEW cmd \in Command
      PROVE  /\ sshUpdate(cmd.informURL, cmd.authKey) \in Store
             /\ sshUpdate(cmd.informURL, cmd.authKey).state \in {"adopting", "provisioning"}
  BY <1>2 DEF sshUpdate, Command, Store, State
<1>3. QED BY <1>1, <1>2

\* What the loop may write back is a store.
LEMMA UpdatedStoreType ==
  ASSUME TypeOK, NEW reply \in Reply
  PROVE  updatedStore(reply) \in Store
<1>1. requestGCM(store) \in BOOLEAN /\ store \in Store
  BY DEF requestGCM, TypeOK, Store
<1>2. [store EXCEPT !.useAESGCM = @ \/ requestGCM(store)] \in Store
  BY <1>1 DEF Store
<1>3. Merge(store, responseUpdate(reply)) \in Store
  BY <1>1, UpdateTypes, MergeType
<1>4. QED
  BY <1>2, <1>3, FactoryAccepted DEF updatedStore

\* The store a session merges is a store.
LEMMA MergedType ==
  ASSUME TypeOK, NEW s \in Session
  PROVE  Merge(sess[s].base, sshUpdate(sess[s].cmd.informURL, sess[s].cmd.authKey)) \in Store
BY UpdateTypes, MergeType DEF TypeOK

(***************************************************************************)
(* The inductive invariant.                                                *)
(***************************************************************************)

\* A copy in the connected phase is one of a confirmed identity.
ConfirmedCopy(s) ==
  (validateStoreForPersistence(s) /\ s.state = "connected") => Identity(s) \in confirmed

\* Everything a copy of the store can be: accepted, of a permitted key when a
\* request is in flight, and of a confirmed identity when it is connected.
SentStore ==
  pc = "sent" => /\ validateStoreForPersistence(store)
                 /\ informAuthKeyOK(store)
                 /\ ConfirmedCopy(store)

SessionBases ==
  \A s \in Session : sess[s].pc = "loaded" =>
    /\ sess[s].base = ZeroStore \/ validateStoreForPersistence(sess[s].base)
    /\ ConfirmedCopy(sess[s].base)

DiskCopy == disk # NoFile => ConfirmedCopy(disk)

\* The session that has loaded the store holds the mutex.
LockHeld == \A s \in Session : sess[s].pc = "loaded" => mu = s

IInv == TypeOK /\ SentStore /\ SessionBases /\ DiskCopy /\ LockHeld /\ CopiesAreCurrent

(***************************************************************************)
(* Lemmas the steps share.                                                 *)
(***************************************************************************)

\* SaveEnv leaves the file alone or puts an accepted store in its place.
LEMMA SavedCases ==
  ASSUME NEW s, NEW w
  PROVE  \/ SavedDisk(s, w) = disk
         \/ SavedDisk(s, w) = s /\ validateStoreForPersistence(s)
BY DEF SavedDisk

\* An accepted store that may be sent has a well-typed identity.
LEMMA IdentityType ==
  ASSUME NEW s \in Store,
         validateStoreForPersistence(s) \/ informAuthKeyOK(s)
  PROVE  Identity(s) \in ({DefaultBytes} \cup {KeyBytes[k] : k \in DOMAIN KeyBytes})
                         \X (Url \cup {""})
<1>1. s.authKey # "" => s.authKey \in DOMAIN KeyBytes
  BY TextAssumption DEF validateStoreForPersistence, validatePersistedField,
     validateIndividualAuthKeyText, informAuthKeyOK
<1>2. informAuthKey(s) \in {DefaultBytes} \cup {KeyBytes[k] : k \in DOMAIN KeyBytes}
  BY <1>1 DEF informAuthKey
<1>3. effectiveInformURL(s) \in Url \cup {""}
  BY TextAssumption DEF effectiveInformURL, over, Store
<1>4. QED BY <1>2, <1>3 DEF Identity

\* When the process ends, what remains to be shown is about the file.
LEMMA EndProcessKeeps ==
  ASSUME NEW how \in {"failed", "stopped"}, EndProcess(how)
  PROVE  /\ pc' \in {"load", "sent", "wait", "failed", "stopped"} /\ store' \in Store
         /\ sess' \in [Session -> [pc : {"idle", "want", "loaded"}, cmd : Command, base : Store]]
         /\ mu' \in Session \cup {NoSession} /\ stale' \subseteq Session \cup {Daemon}
         /\ SentStore' /\ SessionBases' /\ LockHeld' /\ CopiesAreCurrent'
<1>1. noCommand \in Command
  BY DEF noCommand, Command
<1>2. idleSession \in [pc : {"idle", "want", "loaded"}, cmd : Command, base : Store]
  BY <1>1, FactoryAccepted DEF idleSession
<1>3. /\ pc' = how /\ store' = ZeroStore /\ mu' = NoSession /\ stale' = {}
      /\ sess' = [s \in Session |-> idleSession]
  BY DEF EndProcess
<1>4. \A s \in Session : sess'[s].pc = "idle"
  BY <1>3 DEF idleSession
<1>5. QED
  BY <1>2, <1>3, <1>4, FactoryAccepted
     DEF SentStore, SessionBases, LockHeld, CopiesAreCurrent

\* The store a reply leads to is of a confirmed identity when it is connected.
LEMMA UpdatedIsConfirmed ==
  ASSUME IInv, pc = "sent", NEW reply \in Reply,
         validateStoreForPersistence(updatedStore(reply)),
         updatedStore(reply).state = "connected"
  PROVE  Identity(updatedStore(reply)) \in
           IF HasStateUpdate(reply) /\ ~ResetRequested(reply)
             THEN confirmed \cup {Identity(store)} ELSE confirmed
<1>1. store \in Store /\ TypeOK
  BY DEF IInv, TypeOK
<1>2. ~ResetRequested(reply)
  BY DEF updatedStore, FactoryStore
<1>3. CASE HasStateUpdate(reply)
  <2>1. updatedStore(reply) = Merge(store, responseUpdate(reply))
    BY <1>2, <1>3 DEF updatedStore
  <2>2. responseUpdate(reply) \in Store /\ responseUpdate(reply).state = "connected"
    BY <1>1, <1>2, <1>3, UpdateTypes
  <2>3. Identity(updatedStore(reply)) = Identity(store)
    BY <1>1, <2>1, <2>2, MergeConnected
  <2>4. QED BY <1>2, <1>3, <2>3
<1>4. CASE ~HasStateUpdate(reply)
  <2> DEFINE u == [store EXCEPT !.useAESGCM = @ \/ requestGCM(store)]
  <2>1. updatedStore(reply) = u
    BY <1>2, <1>4 DEF updatedStore
  <2>2. u.state = store.state /\ u.authKey = store.authKey /\ u.informURL = store.informURL
    BY <1>1 DEF Store
  <2>3. Identity(u) = Identity(store)
    BY <2>2 DEF Identity, informAuthKey, effectiveInformURL
  <2>4. Identity(store) \in confirmed
    BY <2>1, <2>2 DEF IInv, SentStore, ConfirmedCopy
  <2>5. QED BY <1>2, <1>4, <2>1, <2>3, <2>4
<1>5. QED BY <1>3, <1>4

\* So is the store a session saves.
LEMMA MergedIsConfirmed ==
  ASSUME IInv, NEW s \in Session, sess[s].pc = "loaded"
  PROVE  ConfirmedCopy(Merge(sess[s].base,
                             sshUpdate(sess[s].cmd.informURL, sess[s].cmd.authKey)))
<1> DEFINE base == sess[s].base
           update == sshUpdate(sess[s].cmd.informURL, sess[s].cmd.authKey)
<1>1. base \in Store /\ sess[s].cmd \in Command /\ TypeOK
  BY DEF IInv, TypeOK
<1>2. update \in Store /\ update.state \in {"adopting", "provisioning"}
  BY <1>1, UpdateTypes
<1>3. ASSUME validateStoreForPersistence(Merge(base, update)),
             Merge(base, update).state = "connected"
      PROVE  Identity(Merge(base, update)) \in confirmed
  <2>1. Identity(Merge(base, update)) = Identity(base) /\ base.state = "connected"
    BY <1>1, <1>2, <1>3, MergeConnected
  <2>2. base # ZeroStore
    <3>1. ZeroStore.state = ""  BY DEF ZeroStore
    <3>2. QED BY <2>1, <3>1
  <2>3. validateStoreForPersistence(base) /\ ConfirmedCopy(base)
    BY <2>2 DEF IInv, SessionBases
  <2>4. QED
    BY <2>1, <2>3 DEF ConfirmedCopy
<1>4. QED
  BY <1>3 DEF ConfirmedCopy

(***************************************************************************)
(* The invariant is inductive.                                             *)
(***************************************************************************)

\* The invariant holds when the daemon first starts, whatever file it finds.
LEMMA InitIInv == Init => IInv
<1> SUFFICES ASSUME Init PROVE IInv
  OBVIOUS
<1>1. noCommand \in Command
  BY DEF noCommand, Command
<1>2. idleSession \in [pc : {"idle", "want", "loaded"}, cmd : Command, base : Store]
  BY <1>1, FactoryAccepted DEF idleSession
<1>3. /\ disk \in Store \cup {NoFile} /\ pc = "load" /\ store \in Store
      /\ mu = NoSession /\ erased = "" /\ stale = {}
      /\ sess = [s \in Session |-> idleSession]
  BY InitialDiskAssumption, FactoryAccepted DEF Init
<1>4. \A s \in Session : sess[s].pc = "idle"
  BY <1>3 DEF idleSession
<1>5. confirmed \subseteq ({DefaultBytes} \cup {KeyBytes[k] : k \in DOMAIN KeyBytes})
                          \X (Url \cup {""})
  BY <1>3, IdentityType DEF Init, LoadEnvAccepts
<1>6. TypeOK
  BY <1>2, <1>3, <1>5 DEF TypeOK
<1>7. DiskCopy
  BY DEF Init, DiskCopy, ConfirmedCopy, LoadEnvAccepts
<1>8. QED
  BY <1>3, <1>4, <1>6, <1>7
     DEF IInv, SentStore, SessionBases, LockHeld, CopiesAreCurrent

\* Loading a readable file gives the loop a store it may send.
LEMMA LoadKeeps ==
  ASSUME IInv, DaemonLoad
  PROVE  IInv'
<1> DEFINE loaded == loadAdoptionState
<1>1. loaded \in Store /\ validateStoreForPersistence(loaded) /\ ConfirmedCopy(loaded)
  <2>1. CASE disk = NoFile
    <3>1. FactoryStore.state = "factory"
      BY DEF FactoryStore
    <3>2. QED
      BY <2>1, <3>1, FactoryAccepted DEF loadAdoptionState, ConfirmedCopy
  <2>2. CASE disk # NoFile
    BY <2>2 DEF IInv, TypeOK, DiskCopy, DaemonLoad, Readable, LoadEnvAccepts, loadAdoptionState
  <2>3. QED BY <2>1, <2>2
<1>2. /\ pc' = "sent" => store' = loaded /\ informAuthKeyOK(loaded)
      /\ pc' \in {"sent", "wait"} /\ store' \in {loaded, ZeroStore}
      /\ erased' = "" /\ UNCHANGED <<disk, sess, mu, confirmed, stale>>
  BY DEF DaemonLoad
<1>3. TypeOK'
  BY <1>1, <1>2, FactoryAccepted DEF IInv, TypeOK
<1>4. SentStore'
  BY <1>1, <1>2 DEF SentStore, ConfirmedCopy
<1>5. SessionBases' /\ DiskCopy' /\ LockHeld'
  BY <1>2 DEF IInv, SessionBases, DiskCopy, LockHeld, ConfirmedCopy
<1>6. CopiesAreCurrent'
  BY <1>2 DEF IInv, CopiesAreCurrent, loadAdoptionState
<1>7. QED
  BY <1>3, <1>4, <1>5, <1>6 DEF IInv

\* Applying a reply: the file holds the old or the updated store, the sessions
\* that hold a copy of an overwritten one are known, or the process has ended.
LEMMA ApplyKeeps ==
  ASSUME IInv, NEW reply \in Reply, NEW w \in WriteOutcome, DaemonApply(reply, w)
  PROVE  IInv'
<1> DEFINE u == updatedStore(reply)
<1>1. TypeOK /\ pc = "sent" /\ u \in Store
  BY UpdatedStoreType DEF IInv, DaemonApply
<1>2. /\ confirmed \subseteq confirmed'
      /\ confirmed' = IF HasStateUpdate(reply) /\ ~ResetRequested(reply)
                        THEN confirmed \cup {Identity(store)} ELSE confirmed
      /\ erased' = erased
  BY DEF DaemonApply
<1>3. disk' = disk \/ (disk' = u /\ validateStoreForPersistence(u))
  BY SavedCases DEF DaemonApply
<1>4. disk' \in Store \cup {NoFile} /\ erased' \in KeyText \cup {""}
  BY <1>1, <1>2, <1>3 DEF TypeOK
<1>5. confirmed' \subseteq ({DefaultBytes} \cup {KeyBytes[k] : k \in DOMAIN KeyBytes})
                           \X (Url \cup {""})
  <2>1. store \in Store /\ informAuthKeyOK(store)
    BY <1>1 DEF IInv, SentStore, TypeOK
  <2>2. QED
    BY <1>1, <1>2, <2>1, IdentityType DEF TypeOK
<1>6. DiskCopy'
  <2>1. CASE disk' = disk
    BY <1>2, <2>1 DEF IInv, DiskCopy, ConfirmedCopy
  <2>2. CASE disk' = u /\ validateStoreForPersistence(u)
    BY <1>1, <1>2, <2>2, UpdatedIsConfirmed DEF DiskCopy, ConfirmedCopy
  <2>3. QED BY <1>3, <2>1, <2>2
<1>7. CASE EndProcess("failed")
  BY <1>4, <1>5, <1>6, <1>7, EndProcessKeeps DEF IInv, TypeOK
<1>8. CASE ~EndProcess("failed")
  <2>1. /\ pc' = "wait" /\ store' = ZeroStore /\ sess' = sess /\ mu' = mu
        /\ stale' = (stale \ {Daemon}) \cup (IF disk' # disk THEN Loaded ELSE {})
    BY <1>8 DEF DaemonApply
  <2>2. TypeOK'
    BY <1>1, <1>4, <1>5, <2>1, FactoryAccepted DEF TypeOK, Loaded
  <2>3. SentStore' /\ SessionBases' /\ LockHeld'
    BY <1>2, <2>1 DEF IInv, SentStore, SessionBases, LockHeld, ConfirmedCopy
  <2>4. CopiesAreCurrent'
    BY <2>1, DaemonAssumption DEF IInv, CopiesAreCurrent, Loaded
  <2>5. QED
    BY <1>6, <2>2, <2>3, <2>4 DEF IInv
<1>9. QED BY <1>7, <1>8

\* Taking the lock and loading: no other session holds a copy.
LEMMA SSHLoadKeeps ==
  ASSUME IInv, NEW s \in Session, SSHLoad(s)
  PROVE  IInv'
<1> DEFINE base == IF disk = NoFile THEN ZeroStore ELSE disk
<1>1. TypeOK /\ mu = NoSession /\ sess[s].pc = "want"
  BY DEF IInv, SSHLoad, Acquire
<1>2. /\ sess' = [sess EXCEPT ![s].pc = "loaded", ![s].base = base]
      /\ mu' = s /\ UNCHANGED <<disk, pc, store, confirmed, erased, stale>>
  BY DEF SSHLoad
<1>3. base \in Store
  BY <1>1, FactoryAccepted DEF TypeOK
<1>4. /\ sess'[s].pc = "loaded" /\ sess'[s].base = base
      /\ \A t \in Session \ {s} : sess'[t] = sess[t]
      /\ sess' \in [Session -> [pc : {"idle", "want", "loaded"}, cmd : Command, base : Store]]
  BY <1>1, <1>2, <1>3 DEF TypeOK
<1>5. \A t \in Session \ {s} : sess'[t].pc # "loaded"
  BY <1>1, <1>4, SessionAssumption DEF IInv, LockHeld
<1>6. base = ZeroStore \/ validateStoreForPersistence(base)
  BY DEF SSHLoad, Readable, LoadEnvAccepts
<1>7. ConfirmedCopy(base)
  <2>1. ZeroStore.state = ""
    BY DEF ZeroStore
  <2>2. QED BY <2>1 DEF IInv, DiskCopy, ConfirmedCopy
<1>8. TypeOK'
  BY <1>1, <1>2, <1>4 DEF TypeOK
<1>9. SentStore' /\ DiskCopy' /\ LockHeld'
  BY <1>2, <1>5 DEF IInv, SentStore, DiskCopy, LockHeld, ConfirmedCopy
<1>10. SessionBases'
  BY <1>2, <1>4, <1>5, <1>6, <1>7 DEF SessionBases, ConfirmedCopy
<1>11. CopiesAreCurrent'
  BY <1>2, <1>4, <1>5 DEF IInv, CopiesAreCurrent, loadAdoptionState
<1>12. QED
  BY <1>8, <1>9, <1>10, <1>11 DEF IInv

\* A session that ends its command without a copy of the store left behind,
\* having written a confirmed store or nothing.
LEMMA SessionEndKeeps ==
  ASSUME IInv, NEW s \in Session, NEW new \in Store,
         mu = s \/ mu = NoSession,
         ConfirmedCopy(new),
         disk' = disk \/ (disk' = new /\ validateStoreForPersistence(new)),
         sess' = [sess EXCEPT ![s] = idleSession],
         mu' = NoSession,
         erased' \in KeyText \cup {""},
         stale' \in SUBSET (Session \cup {Daemon}),
         Daemon \notin stale' => Daemon \notin stale,
         (pc = "sent" /\ disk' # disk) => Daemon \in stale',
         UNCHANGED <<pc, store, confirmed>>
  PROVE  IInv'
<1>1. TypeOK
  BY DEF IInv
<1>2. idleSession \in [pc : {"idle", "want", "loaded"}, cmd : Command, base : Store]
  <2>1. noCommand \in Command
    BY DEF noCommand, Command
  <2>2. QED BY <2>1, FactoryAccepted DEF idleSession
<1>3. sess' \in [Session -> [pc : {"idle", "want", "loaded"}, cmd : Command, base : Store]]
  BY <1>1, <1>2 DEF TypeOK
<1>4. \A t \in Session : sess'[t].pc # "loaded"
  <2>1. sess'[s].pc = "idle"
    BY <1>1 DEF TypeOK, idleSession
  <2>2. \A t \in Session \ {s} : sess'[t] = sess[t]
    BY <1>1 DEF TypeOK
  <2>3. QED BY <2>1, <2>2, SessionAssumption DEF IInv, LockHeld
<1>5. TypeOK'
  BY <1>1, <1>3 DEF TypeOK
<1>6. SentStore' /\ SessionBases' /\ LockHeld'
  BY <1>4 DEF IInv, SentStore, SessionBases, LockHeld, ConfirmedCopy
<1>7. DiskCopy'
  BY DEF IInv, DiskCopy, ConfirmedCopy
<1>8. CopiesAreCurrent'
  BY <1>4 DEF IInv, CopiesAreCurrent, loadAdoptionState
<1>9. QED
  BY <1>5, <1>6, <1>7, <1>8 DEF IInv

\* Every step keeps the invariant.
LEMMA NextIInv == IInv /\ [Next]_vars => IInv'
<1> SUFFICES ASSUME IInv, [Next]_vars PROVE IInv'
  OBVIOUS
<1>1. TypeOK
  BY DEF IInv
<1>2. CASE DaemonLoad
  BY <1>2, LoadKeeps
<1>3. CASE DaemonLoadFails \/ DaemonStop \/ Crash
  <2>1. \E how \in {"failed", "stopped"} : EndProcess(how)
    BY <1>3 DEF DaemonLoadFails, DaemonStop, Crash
  <2>2. UNCHANGED <<disk, confirmed, erased>>
    BY <1>3 DEF DaemonLoadFails, DaemonStop, Crash
  <2>3. DiskCopy'
    BY <2>2 DEF IInv, DiskCopy, ConfirmedCopy
  <2>4. QED
    BY <1>1, <2>1, <2>2, <2>3, EndProcessKeeps DEF IInv, TypeOK
<1>4. ASSUME NEW reply \in Reply, DaemonNoResponse(reply) PROVE IInv'
  <2>1. /\ pc' = "wait" /\ store' = ZeroStore /\ stale' = stale \ {Daemon}
        /\ UNCHANGED <<disk, sess, mu, confirmed, erased>>
    BY <1>4 DEF DaemonNoResponse
  <2>2. TypeOK'
    BY <1>1, <2>1, FactoryAccepted DEF TypeOK
  <2>3. SentStore' /\ SessionBases' /\ DiskCopy' /\ LockHeld'
    BY <2>1 DEF IInv, SentStore, SessionBases, DiskCopy, LockHeld, ConfirmedCopy
  <2>4. CopiesAreCurrent'
    BY <2>1, DaemonAssumption DEF IInv, CopiesAreCurrent
  <2>5. QED BY <2>2, <2>3, <2>4 DEF IInv
<1>5. ASSUME NEW reply \in Reply, NEW w \in WriteOutcome, DaemonApply(reply, w) PROVE IInv'
  BY <1>5, ApplyKeeps
<1>6. CASE DaemonTimer \/ Start
  <2>1. pc' = "load" /\ UNCHANGED <<disk, store, sess, mu, confirmed, erased, stale>>
    BY <1>6 DEF DaemonTimer, Start
  <2>2. TypeOK'
    BY <1>1, <2>1 DEF TypeOK
  <2>3. QED
    BY <2>1, <2>2 DEF IInv, SentStore, SessionBases, DiskCopy, LockHeld, ConfirmedCopy,
                      CopiesAreCurrent
<1>7. ASSUME NEW s \in Session, NEW cmd \in Command, SSHCommand(s, cmd) PROVE IInv'
  <2>1. /\ sess[s].pc = "idle" /\ UNCHANGED <<disk, pc, store, mu, confirmed, erased, stale>>
        /\ sess' = [sess EXCEPT ![s] = [pc |-> "want", cmd |-> cmd, base |-> ZeroStore]]
    BY <1>7 DEF SSHCommand
  <2>2. /\ sess' \in [Session -> [pc : {"idle", "want", "loaded"}, cmd : Command, base : Store]]
        /\ sess'[s].pc = "want" /\ \A t \in Session \ {s} : sess'[t] = sess[t]
    BY <1>1, <2>1, FactoryAccepted DEF TypeOK
  <2>3. TypeOK'
    BY <1>1, <2>1, <2>2 DEF TypeOK
  <2>4. SentStore' /\ SessionBases' /\ DiskCopy' /\ LockHeld'
    BY <2>1, <2>2 DEF IInv, SentStore, SessionBases, DiskCopy, LockHeld, ConfirmedCopy
  <2>5. CopiesAreCurrent'
    BY <2>1, <2>2 DEF IInv, CopiesAreCurrent, loadAdoptionState
  <2>6. QED BY <2>3, <2>4, <2>5 DEF IInv
<1>8. ASSUME NEW s \in Session, SSHNothing(s) \/ SSHLoadFails(s) PROVE IInv'
  <2>1. /\ mu = NoSession /\ sess' = [sess EXCEPT ![s] = idleSession] /\ mu' = NoSession
        /\ UNCHANGED <<disk, pc, store, confirmed, erased, stale>>
    BY <1>8 DEF SSHNothing, SSHLoadFails, Acquire
  <2>2. ConfirmedCopy(ZeroStore)
    <3>1. ZeroStore.state = ""  BY DEF ZeroStore
    <3>2. QED BY <3>1 DEF ConfirmedCopy
  <2>3. erased' \in KeyText \cup {""} /\ stale' \in SUBSET (Session \cup {Daemon})
    BY <1>1, <2>1 DEF TypeOK
  <2>4. ZeroStore \in Store
    BY FactoryAccepted
  <2>5. QED
    BY <2>1, <2>2, <2>3, <2>4, SessionEndKeeps
<1>9. ASSUME NEW s \in Session, SSHLoad(s) PROVE IInv'
  BY <1>9, SSHLoadKeeps
<1>10. ASSUME NEW s \in Session, NEW w \in WriteOutcome, SSHSave(s, w) PROVE IInv'
  <2> DEFINE new == Merge(sess[s].base, sshUpdate(sess[s].cmd.informURL, sess[s].cmd.authKey))
  <2>1. /\ sess[s].pc = "loaded" /\ mu = s /\ mu' = NoSession
        /\ sess' = [sess EXCEPT ![s] = idleSession]
        /\ disk' = SavedDisk(new, w) /\ erased' \in {"", erased}
        /\ stale' = (stale \ {s}) \cup StaleDaemon
        /\ UNCHANGED <<pc, store, confirmed>>
    BY <1>10 DEF SSHSave
  <2>2. new \in Store /\ ConfirmedCopy(new)
    BY <1>1, <2>1, MergedType, MergedIsConfirmed
  <2>3. disk' = disk \/ (disk' = new /\ validateStoreForPersistence(new))
    BY <2>1, SavedCases
  <2>4. erased' \in KeyText \cup {""} /\ stale' \in SUBSET (Session \cup {Daemon})
    BY <1>1, <2>1 DEF TypeOK, StaleDaemon
  <2>5. /\ Daemon \notin stale' => Daemon \notin stale
        /\ (pc = "sent" /\ disk' # disk) => Daemon \in stale'
    BY <2>1, DaemonAssumption DEF StaleDaemon
  <2> HIDE DEF new
  <2>6. QED
    BY <2>1, <2>2, <2>3, <2>4, <2>5, SessionEndKeeps
<1>11. ASSUME NEW s \in Session, NEW w \in WriteOutcome, SSHReset(s, w) PROVE IInv'
  <2>1. /\ mu = NoSession /\ mu' = NoSession
        /\ sess' = [sess EXCEPT ![s] = idleSession]
        /\ disk' = SavedDisk(FactoryStore, w)
        /\ erased' = IF disk # NoFile /\ SaveOK(FactoryStore, w)
                       THEN over(erased, disk.authKey) ELSE erased
        /\ stale' = stale \cup StaleDaemon
        /\ UNCHANGED <<pc, store, confirmed>>
    BY <1>11 DEF SSHReset, Acquire
  <2>2. FactoryStore \in Store /\ ConfirmedCopy(FactoryStore)
    <3>1. FactoryStore.state = "factory"  BY DEF FactoryStore
    <3>2. QED BY <3>1, FactoryAccepted DEF ConfirmedCopy
  <2>3. disk' = disk \/ (disk' = FactoryStore /\ validateStoreForPersistence(FactoryStore))
    BY <2>1, SavedCases
  <2>4. erased' \in KeyText \cup {""}
    BY <1>1, <2>1 DEF TypeOK, Store, over
  <2>5. stale' \in SUBSET (Session \cup {Daemon})
    BY <1>1, <2>1 DEF TypeOK, StaleDaemon
  <2>6. /\ Daemon \notin stale' => Daemon \notin stale
        /\ (pc = "sent" /\ disk' # disk) => Daemon \in stale'
    BY <2>1 DEF StaleDaemon
  <2>7. QED
    BY <2>1, <2>2, <2>3, <2>4, <2>5, <2>6, SessionEndKeeps
<1>12. CASE UNCHANGED vars
  BY <1>12 DEF vars, IInv, TypeOK, SentStore, SessionBases, DiskCopy, LockHeld, ConfirmedCopy,
               CopiesAreCurrent, loadAdoptionState
<1>13. QED
  BY <1>2, <1>3, <1>4, <1>5, <1>6, <1>7, <1>8, <1>9, <1>10, <1>11, <1>12
     DEF Next, DaemonExchange, SSHStep

\* The inductive invariant holds of every behaviour.
LEMMA Invariance == Spec => []IInv
BY InitIInv, NextIInv, PTL DEF Spec

(***************************************************************************)
(* The theorems.                                                           *)
(***************************************************************************)

\* Every behaviour of the daemon and its sessions is well typed; no session
\* merges into the error value of a missing file.
THEOREM TypeCorrect == Spec => []TypeOK
<1>1. IInv => TypeOK  BY DEF IInv
<1>2. QED BY <1>1, Invariance, PTL

\* A request claims the managed wire state only for a key and a URL that a
\* controller has confirmed, however replies and SSH sessions interleave.
THEOREM ManagedOnlyWhenConfirmed == Spec => []ManagedIsConfirmed
<1>1. IInv => ManagedIsConfirmed
  BY DEF IInv, SentStore, ConfirmedCopy, ManagedIsConfirmed, controllerInformState
<1>2. QED BY <1>1, Invariance, PTL

\* The mutex of the SSH handler serialises any number of sessions.
THEOREM CopiesStayCurrent == Spec => []CopiesAreCurrent
<1>1. IInv => CopiesAreCurrent  BY DEF IInv
<1>2. QED BY <1>1, Invariance, PTL

\* What a step writes: the store a reply leads to, the one a session merged
\* (the session then ends), or the factory store.
LEMMA Writers ==
  ASSUME IInv, [Next]_vars, disk' # disk
  PROVE  /\ validateStoreForPersistence(disk') /\ disk' \in Store
         /\ \/ disk' = FactoryStore
            \/ \E reply \in Reply : /\ pc = "sent" /\ pc' # "sent"
                                     /\ disk' = updatedStore(reply)
            \/ \E s \in Session :
                 /\ sess[s].pc = "loaded" /\ sess'[s].pc # "loaded"
                 /\ disk' = Merge(sess[s].base,
                                  sshUpdate(sess[s].cmd.informURL, sess[s].cmd.authKey))
<1>1. TypeOK
  BY DEF IInv
<1>2. ASSUME NEW reply \in Reply, NEW w \in WriteOutcome, DaemonApply(reply, w)
      PROVE  /\ validateStoreForPersistence(disk') /\ disk' \in Store
             /\ pc = "sent" /\ pc' # "sent" /\ disk' = updatedStore(reply)
  BY <1>1, <1>2, SavedCases, UpdatedStoreType DEF DaemonApply, EndProcess
<1>3. ASSUME NEW s \in Session, NEW w \in WriteOutcome, SSHSave(s, w)
      PROVE  /\ validateStoreForPersistence(disk') /\ disk' \in Store
             /\ sess[s].pc = "loaded" /\ sess'[s].pc # "loaded"
             /\ disk' = Merge(sess[s].base,
                              sshUpdate(sess[s].cmd.informURL, sess[s].cmd.authKey))
  <2>1. sess'[s].pc = "idle"
    BY <1>1, <1>3 DEF SSHSave, TypeOK, idleSession
  <2>2. QED
    BY <1>1, <1>3, <2>1, SavedCases, MergedType DEF SSHSave
<1>4. ASSUME NEW s \in Session, NEW w \in WriteOutcome, SSHReset(s, w)
      PROVE  validateStoreForPersistence(disk') /\ disk' = FactoryStore
  BY <1>4, SavedCases DEF SSHReset
<1>5. \/ \E reply \in Reply, w \in WriteOutcome : DaemonApply(reply, w)
      \/ \E s \in Session, w \in WriteOutcome : SSHSave(s, w) \/ SSHReset(s, w)
  BY DEF Next, vars, DaemonLoad, DaemonLoadFails, DaemonExchange, DaemonNoResponse, DaemonTimer,
         DaemonStop, Crash, Start, SSHStep, SSHCommand, SSHNothing, SSHLoad, SSHLoadFails
<1>6. QED
  BY <1>2, <1>3, <1>4, <1>5, FactoryAccepted

\* The daemon and its sessions only write what LoadEnv accepts.
THEOREM SavedStoresLoad == Spec => SavesAreLoadable
<1>1. IInv /\ [Next]_vars => (disk' # disk => disk' # NoFile /\ LoadEnvAccepts(disk'))
  BY Writers, NoFileAssumption DEF LoadEnvAccepts
<1>2. IInv /\ [Next]_vars => [disk' # disk => disk' # NoFile /\ LoadEnvAccepts(disk')]_vars
  BY <1>1
<1>3. QED
  BY <1>2, Invariance, PTL DEF Spec, SavesAreLoadable

\* Nothing learned is lost but in a reset or in a write from an outdated copy.
THEOREM ForgettingNeedsResetOrRace == Spec => ForgetsOnlyInResetOrRace
<1> DEFINE A == (disk # NoFile /\ disk' # disk /\ Forgets(disk, disk')) =>
                  disk' = FactoryStore \/ StaleWriter
<1>1. ASSUME IInv, [Next]_vars, disk # NoFile, disk' # disk, Forgets(disk, disk'),
             disk' # FactoryStore
      PROVE  StaleWriter
  <2>1. TypeOK /\ disk \in Store
    BY <1>1 DEF IInv, TypeOK
  <2>2. ASSUME NEW reply \in Reply, pc = "sent", pc' # "sent", disk' = updatedStore(reply)
        PROVE  StaleWriter
    <3>1. ~Forgets(store, updatedStore(reply))
      <4>1. store \in Store
        BY <2>1 DEF TypeOK
      <4>2. ~Forgets(store, Merge(store, responseUpdate(reply)))
        BY <2>1, <4>1, UpdateTypes, MergeForgetsNothing
      <4>3. ~Forgets(store, [store EXCEPT !.useAESGCM = @ \/ requestGCM(store)])
        BY <4>1 DEF Forgets, Store
      <4>4. QED
        BY <1>1, <2>2, <4>2, <4>3 DEF updatedStore
    <3>2. store # disk
      BY <1>1, <2>2, <3>1
    <3>3. Daemon \in stale
      BY <1>1, <2>2, <3>2 DEF IInv, CopiesAreCurrent, loadAdoptionState
    <3>4. QED BY <2>2, <3>3 DEF StaleWriter
  <2>3. ASSUME NEW s \in Session, sess[s].pc = "loaded", sess'[s].pc # "loaded",
               disk' = Merge(sess[s].base,
                             sshUpdate(sess[s].cmd.informURL, sess[s].cmd.authKey))
        PROVE  StaleWriter
    <3>1. ~Forgets(sess[s].base, disk')
      BY <2>1, <2>3, UpdateTypes, MergeForgetsNothing DEF TypeOK
    <3>2. sess[s].base # disk
      BY <1>1, <3>1
    <3>3. s \in stale
      BY <1>1, <2>3, <3>2 DEF IInv, CopiesAreCurrent
    <3>4. QED BY <2>3, <3>3 DEF StaleWriter
  <2>4. QED
    BY <1>1, <2>2, <2>3, Writers
<1>2. IInv /\ [Next]_vars => [A]_vars
  BY <1>1
<1>3. QED
  BY <1>2, Invariance, PTL DEF Spec, ForgetsOnlyInResetOrRace
=============================================================================

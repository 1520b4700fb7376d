--------------------------- MODULE InstanceProofs ---------------------------
(***************************************************************************)
(* Proofs about Instance.tla for any number of processes and host keys.    *)
(***************************************************************************)
EXTENDS Instance, TLAPS

Guarding(p) == pc[p] \in {"locked", "truncated"} \/ Active(p)

\* A process that writes its metadata holds the lock, and in fail mode it does
\* until it closes the guard.
GuardHeld ==
  \A p \in Proc :
    (pc[p] \in {"locked", "truncated"} \/ (mode[p] = "fail" /\ Active(p))) => lock = p

\* The lock is held only there, by a process of any mode.
HolderGuards == \A p \in Proc : lock = p => Guarding(p)

\* Only a process in the loop listens.
ListenerServes == \A p \in Proc : port = p => pc[p] = "serving"

\* A process that goes on to listen has a key, generated or parsed.
KeyLoaded == \A p \in Proc : pc[p] \in {"creating", "listening"} => key[p] \in Key

GInv ==
  /\ TypeOK /\ GuardHeld /\ HolderGuards /\ ListenerServes /\ KeyLoaded
  /\ MetadataNamesHolder

\* The invariant holds when no process runs.
LEMMA InitGInv == Init => GInv
BY InstanceAssumption
   DEF Init, GInv, TypeOK, GuardHeld, HolderGuards, ListenerServes, KeyLoaded, MetadataNamesHolder,
       Phase, Mode, Guarding, Active

\* A process that ends takes its lock and its listener with it.
LEMMA EndsKeeps ==
  ASSUME GInv, NEW p \in Proc, Ends(p), mode' = mode, metadata' = metadata,
         hostKey' \in Key \cup {NoKey, TornKey}, shown' = shown, wrote' \in Proc \cup {NoProc}
  PROVE  GInv'
<1>1. /\ pc'[p] = "down" /\ \A q \in Proc \ {p} : pc'[q] = pc[q]
      /\ lock' = (IF lock = p THEN NoProc ELSE lock)
      /\ port' = (IF port = p THEN NoProc ELSE port)
      /\ \A q \in Proc \ {p} : key'[q] = key[q]
  BY DEF Ends, Go, GInv, TypeOK
<1>2. TypeOK'
  BY DEF Ends, Go, GInv, TypeOK, Phase
<1>3. QED
  BY <1>1, <1>2, InstanceAssumption
     DEF GInv, GuardHeld, HolderGuards, ListenerServes, KeyLoaded, MetadataNamesHolder, Guarding, Active

\* A process without the guard ends, or (warn) goes on without the lock.
LEMMA UnguardedKeeps ==
  ASSUME GInv, NEW p \in Proc, Unguarded(p),
         pc[p] \in {"opened", "locked", "truncated"},
         mode' = mode, metadata' = metadata, hostKey' = hostKey, shown' = shown,
         wrote' \in Proc \cup {NoProc}
  PROVE  GInv'
<1>1. CASE mode[p] = "warn"
  <2>1. /\ pc' = [pc EXCEPT ![p] = "ready"] /\ UNCHANGED <<port, session, key>>
        /\ lock' = (IF lock = p THEN NoProc ELSE lock)
    BY <1>1 DEF Unguarded, Go
  <2>2. pc'[p] = "ready" /\ \A q \in Proc \ {p} : pc'[q] = pc[q]
    BY <2>1 DEF GInv, TypeOK
  <2>3. TypeOK'
    BY <2>1 DEF GInv, TypeOK, Phase
  <2>4. QED
    BY <1>1, <2>1, <2>2, <2>3, InstanceAssumption
       DEF GInv, GuardHeld, HolderGuards, ListenerServes, KeyLoaded, MetadataNamesHolder, Guarding, Active
<1>2. CASE mode[p] # "warn"
  <2>1. Ends(p)
    BY <1>2 DEF Unguarded
  <2>2. hostKey' \in Key \cup {NoKey, TornKey}
    BY DEF GInv, TypeOK
  <2>3. QED BY <2>1, <2>2, EndsKeeps
<1>3. QED BY <1>1, <1>2

\* A process moves on while the lock, the listener and the metadata stay.
LEMMA MovesKeep ==
  ASSUME GInv, NEW p \in Proc, NEW to \in Phase, pc' = [pc EXCEPT ![p] = to],
         TypeOK', KeyLoaded', UNCHANGED <<mode, lock, metadata, port>>,
         port # p,
         \/ pc[p] = "down" /\ (to = "opened" \/ (to = "ready" /\ mode[p] = "off"))
         \/ Active(p) /\ to \in {"ready", "keyless", "creating", "listening", "serving", "closing"}
  PROVE  GInv'
<1>1. pc'[p] = to /\ \A q \in Proc \ {p} : pc'[q] = pc[q]
  BY DEF GInv, TypeOK
<1>2. QED
  BY <1>1 DEF GInv, GuardHeld, HolderGuards, ListenerServes, KeyLoaded, MetadataNamesHolder, Guarding, Active

\* Every step keeps the invariant.
LEMMA NextGInv == GInv /\ [Next]_vars => GInv'
<1> SUFFICES ASSUME GInv, [Next]_vars PROVE GInv'
  OBVIOUS
<1>1. TypeOK
  BY DEF GInv
<1>2. ASSUME NEW p \in Proc, Start(p) PROVE GInv'
  <2>1. /\ pc[p] = "down" /\ UNCHANGED <<mode, lock, metadata, port>>
        /\ \E to \in Phase : /\ pc' = [pc EXCEPT ![p] = to]
                             /\ to = "opened" \/ (to = "ready" /\ mode[p] = "off")
    BY <1>2 DEF Start, Go, Phase
  <2>2. TypeOK'
    BY <1>1, <1>2 DEF Start, Go, TypeOK, Phase
  <2>3. port # p
    BY <2>1 DEF GInv, ListenerServes
  <2>4. KeyLoaded'
    BY <1>1, <1>2 DEF GInv, Start, Go, KeyLoaded, TypeOK
  <2>5. QED BY <2>1, <2>2, <2>3, <2>4, MovesKeep
<1>3. ASSUME NEW p \in Proc, OpenFails(p) \/ MetadataFails(p) PROVE GInv'
  BY <1>1, <1>3, UnguardedKeeps DEF OpenFails, MetadataFails, TypeOK
<1>4. ASSUME NEW p \in Proc, Flock(p) PROVE GInv'
  <2>1. CASE lock = NoProc
    <3>1. /\ lock' = p /\ pc' = [pc EXCEPT ![p] = "locked"] /\ pc[p] = "opened"
          /\ UNCHANGED <<mode, metadata, port, hostKey, key, session, shown>> /\ wrote' = NoProc
      BY <1>4, <2>1 DEF Flock, Go
    <3>2. pc'[p] = "locked" /\ \A q \in Proc \ {p} : pc'[q] = pc[q]
      BY <1>1, <3>1 DEF TypeOK
    <3>3. TypeOK'
      BY <1>1, <3>1 DEF TypeOK, Phase
    <3>4. \A q \in Proc : /\ pc[q] \notin {"locked", "truncated"}
                          /\ mode[q] = "fail" => ~Active(q)
      BY <2>1, InstanceAssumption DEF GInv, GuardHeld
    <3>5. QED
      BY <3>1, <3>2, <3>3, <3>4
         DEF GInv, GuardHeld, HolderGuards, ListenerServes, KeyLoaded, MetadataNamesHolder, Guarding, Active
  <2>2. CASE lock # NoProc
    BY <1>1, <1>4, <2>2, UnguardedKeeps DEF Flock, TypeOK
  <2>3. QED BY <2>1, <2>2
<1>5. ASSUME NEW p \in Proc, Truncate(p) \/ WriteMetadata(p) PROVE GInv'
  <2>1. /\ pc[p] \in {"locked", "truncated"}
        /\ UNCHANGED <<mode, lock, port, hostKey, key, session, shown, wrote>>
        /\ \/ pc' = [pc EXCEPT ![p] = "truncated"] /\ metadata' = NoProc
           \/ pc' = [pc EXCEPT ![p] = "ready"] /\ metadata' = p
    BY <1>5 DEF Truncate, WriteMetadata, Go
  <2>2. TypeOK'
    BY <1>1, <2>1 DEF TypeOK, Phase
  <2>3. /\ \A q \in Proc \ {p} : pc'[q] = pc[q]
        /\ pc'[p] = "truncated" \/ (pc'[p] = "ready" /\ metadata' = p)
    BY <1>1, <2>1 DEF TypeOK
  <2>4. lock = p
    BY <2>1 DEF GInv, GuardHeld
  <2>5. QED
    BY <2>1, <2>2, <2>3, <2>4
       DEF GInv, GuardHeld, HolderGuards, ListenerServes, KeyLoaded, MetadataNamesHolder, Guarding, Active
<1>6. ASSUME NEW p \in Proc,
             LoadHostKey(p) \/ CreateHostKey(p) \/ WriteHostKey(p) \/ SkipSSH(p)
      PROVE  GInv'
  <2>1. /\ UNCHANGED <<mode, lock, metadata, port>>
        /\ pc[p] \in {"ready", "keyless", "creating"}
        /\ \E to \in {"keyless", "creating", "listening", "serving"} :
             pc' = [pc EXCEPT ![p] = to]
    BY <1>6 DEF LoadHostKey, CreateHostKey, WriteHostKey, SkipSSH, Go
  <2>2. TypeOK'
    <3>1. pc' \in [Proc -> Phase]
      BY <1>1, <2>1 DEF TypeOK, Phase
    <3>2. hostKey' \in Key \cup {NoKey, TornKey} /\ key' \in [Proc -> Key \cup {NoKey}]
      <4>1. CASE LoadHostKey(p)
        BY <1>1, <4>1 DEF LoadHostKey, TypeOK
      <4>2. CASE CreateHostKey(p)
        BY <1>1, <4>2 DEF CreateHostKey, TypeOK
      <4>3. CASE WriteHostKey(p)
        BY <1>1, <4>3 DEF WriteHostKey, TypeOK
      <4>4. CASE SkipSSH(p)
        BY <1>1, <4>4 DEF SkipSSH, TypeOK
      <4>5. QED BY <1>6, <4>1, <4>2, <4>3, <4>4
    <3>3. UNCHANGED <<session, shown, wrote>>
      BY <1>6 DEF LoadHostKey, CreateHostKey, WriteHostKey, SkipSSH
    <3>4. QED BY <1>1, <2>1, <3>1, <3>2, <3>3 DEF TypeOK
  <2>3. port # p /\ Active(p)
    BY <2>1 DEF GInv, ListenerServes, Active
  <2>4. PICK to \in {"keyless", "creating", "listening", "serving"} : pc' = [pc EXCEPT ![p] = to]
    BY <2>1
  <2>5. to \in Phase
    BY DEF Phase
  <2>6. KeyLoaded'
    <3>1. CASE LoadHostKey(p)
      BY <1>1, <3>1 DEF LoadHostKey, Go, TypeOK, GInv, KeyLoaded
    <3>2. CASE CreateHostKey(p)
      BY <1>1, <3>2 DEF CreateHostKey, Go, TypeOK, GInv, KeyLoaded
    <3>3. CASE WriteHostKey(p)
      BY <1>1, <3>3 DEF WriteHostKey, Go, TypeOK, GInv, KeyLoaded
    <3>4. CASE SkipSSH(p)
      BY <1>1, <3>4 DEF SkipSSH, Go, TypeOK, GInv, KeyLoaded
    <3>5. QED BY <1>6, <3>1, <3>2, <3>3, <3>4
  <2>7. QED BY <2>1, <2>2, <2>3, <2>4, <2>5, <2>6, MovesKeep
<1>7. ASSUME NEW p \in Proc, Listen(p) PROVE GInv'
  <2>1. /\ pc[p] = "listening" /\ port' = p /\ pc' = [pc EXCEPT ![p] = "serving"]
        /\ shown' = shown \cup {key[p]}
        /\ UNCHANGED <<mode, lock, metadata, hostKey, key, session, wrote>>
    BY <1>7 DEF Listen, Go
  <2>2. key[p] \in Key
    BY <2>1 DEF GInv, KeyLoaded
  <2>3. TypeOK'
    BY <1>1, <2>1, <2>2 DEF TypeOK, Phase
  <2>4. pc'[p] = "serving" /\ \A q \in Proc \ {p} : pc'[q] = pc[q]
    BY <1>1, <2>1 DEF TypeOK
  <2>5. QED
    BY <2>1, <2>3, <2>4
       DEF GInv, GuardHeld, HolderGuards, ListenerServes, KeyLoaded, MetadataNamesHolder, Guarding, Active
<1>8. ASSUME NEW p \in Proc, StartFails(p) \/ Exit(p) PROVE GInv'
  <2>1. /\ Ends(p)
        /\ UNCHANGED <<mode, metadata, hostKey, shown, wrote>>
    BY <1>8 DEF StartFails, Exit
  <2>2. QED BY <1>1, <2>1, EndsKeeps DEF TypeOK
<1>9. ASSUME NEW p \in Proc, Connect(p) \/ LoopWrites(p) \/ SessionWrites(p) PROVE GInv'
  <2>1. /\ UNCHANGED <<mode, pc, lock, metadata, port, hostKey, key, shown>>
        /\ session' \in SUBSET Proc /\ wrote' \in Proc \cup {NoProc}
    BY <1>1, <1>9 DEF Connect, LoopWrites, SessionWrites, TypeOK
  <2>2. QED
    BY <2>1
       DEF GInv, TypeOK, GuardHeld, HolderGuards, ListenerServes, KeyLoaded,
           MetadataNamesHolder, Guarding, Active
<1>10. ASSUME NEW p \in Proc, CloseSSH(p) \/ CloseGuard(p) PROVE GInv'
  <2>1. UNCHANGED <<mode, metadata, hostKey, key, session, shown>> /\ wrote' \in {wrote, NoProc}
    BY <1>10 DEF CloseSSH, CloseGuard
  <2>2. \/ /\ pc[p] = "serving" /\ pc' = [pc EXCEPT ![p] = "closing"] /\ lock' = lock
           /\ port' = (IF port = p THEN NoProc ELSE port)
        \/ /\ pc[p] = "closing" /\ pc' = [pc EXCEPT ![p] = "exiting"] /\ port' = port
           /\ lock' = (IF lock = p THEN NoProc ELSE lock)
    BY <1>10 DEF CloseSSH, CloseGuard, Go
  <2>3. TypeOK'
    BY <1>1, <2>1, <2>2 DEF TypeOK, Phase
  <2>4. /\ pc'[p] \in {"closing", "exiting"}
        /\ \A q \in Proc \ {p} : pc'[q] = pc[q]
    BY <1>1, <2>2 DEF TypeOK
  <2>5. CASE pc[p] = "serving"
    <3>1. /\ pc'[p] = "closing" /\ lock' = lock
          /\ port' = (IF port = p THEN NoProc ELSE port)
      BY <1>1, <2>2, <2>5 DEF TypeOK
    <3>2. QED
      BY <2>1, <2>3, <2>4, <2>5, <3>1, InstanceAssumption
         DEF GInv, GuardHeld, HolderGuards, ListenerServes, KeyLoaded, MetadataNamesHolder,
             Guarding, Active
  <2>6. CASE pc[p] = "closing"
    <3>1. /\ pc'[p] = "exiting" /\ port' = port
          /\ lock' = (IF lock = p THEN NoProc ELSE lock)
      BY <1>1, <2>2, <2>6 DEF TypeOK
    <3>2. QED
      BY <2>1, <2>3, <2>4, <2>6, <3>1, InstanceAssumption
         DEF GInv, GuardHeld, HolderGuards, ListenerServes, KeyLoaded, MetadataNamesHolder,
             Guarding, Active
  <2>7. QED BY <2>2, <2>5, <2>6
<1>11. CASE UNCHANGED vars
  BY <1>11
     DEF vars, GInv, TypeOK, GuardHeld, HolderGuards, ListenerServes, KeyLoaded,
         MetadataNamesHolder, Guarding, Active
<1>12. QED
  BY <1>2, <1>3, <1>4, <1>5, <1>6, <1>7, <1>8, <1>9, <1>10, <1>11 DEF Next

\* The invariant holds in every reachable state.
LEMMA GuardInvariance == Spec => []GInv
<1>1. QED BY InitGInv, NextGInv, PTL DEF Spec

\* However many processes start, crash and start again, at most one of those in
\* fail mode is ever past the guard (acquireInstanceGuard).
THEOREM OneInstancePastGuard == Spec => []OneGuardedInstance
<1>1. GInv => OneGuardedInstance
  BY DEF GInv, GuardHeld, OneGuardedInstance, Active
<1>2. QED BY <1>1, GuardInvariance, PTL

\* A refused process always reads the name of the active holder of the lock
\* (writeInstanceGuardMetadata).
THEOREM MetadataAlwaysNamesHolder == Spec => []MetadataNamesHolder
<1>1. GInv => MetadataNamesHolder
  BY DEF GInv
<1>2. QED BY <1>1, GuardInvariance, PTL

\* A guarded successor never finds the listener of a guarded predecessor: it is
\* closed before the guard is released (serve.go's deferred calls).
THEOREM ListenerClosesBeforeGuard == Spec => []ListenerGoneBeforeGuard
<1>1. GInv => ListenerGoneBeforeGuard
  BY DEF GInv, GuardHeld, ListenerServes, ListenerGoneBeforeGuard, Active
<1>2. QED BY <1>1, GuardInvariance, PTL

\* All ten variables keep their types through every start, failure and crash of
\* any number of processes; in particular no process shows a torn host key.
THEOREM InstanceTypes == Spec => []TypeOK
<1>1. GInv => TypeOK
  BY DEF GInv
<1>2. QED BY <1>1, GuardInvariance, PTL
----------------------------------------------------------------------------
(***************************************************************************)
(* The host key.  When every process is guarded, the one past the guard is *)
(* alone with the host key file: what it found there is still there, and   *)
(* the file agrees with every key a client has seen.                       *)
(***************************************************************************)

AllGuarded == \A p \in Proc : mode[p] = "fail"

\* Once a client has seen a key the file has it; before, the file is what it is.
ShownIsStored == \A k \in shown : hostKey = k

\* What the process past the guard knows of the file.
KeyMatchesFile ==
  \A p \in Proc :
    /\ pc[p] = "keyless" => hostKey = NoKey
    /\ pc[p] = "creating" => hostKey = TornKey
    /\ pc[p] = "listening" => hostKey = key[p]

KInv == AllGuarded => ShownIsStored /\ KeyMatchesFile

\* There is no key file and nobody has seen a key.
LEMMA InitKInv == Init => KInv
BY DEF Init, KInv, ShownIsStored, KeyMatchesFile

\* A guarded process past the guard is the only one there.
LEMMA AlonePastGuard ==
  ASSUME GInv, AllGuarded, NEW p \in Proc, NEW q \in Proc, Active(p), Active(q)
  PROVE  p = q
BY DEF GInv, GuardHeld, AllGuarded

\* A step that leaves the keys alone, and brings nobody to one of the places
\* where a key is known, keeps them.
LEMMA KeysUntouched ==
  ASSUME GInv, KInv, NEW p \in Proc, mode' = mode, hostKey' = hostKey, shown' = shown,
         \A q \in Proc \ {p} : pc'[q] = pc[q] /\ key'[q] = key[q],
         pc'[p] \notin {"keyless", "creating", "listening"}
  PROVE  KInv'
BY DEF KInv, AllGuarded, ShownIsStored, KeyMatchesFile

\* Every step keeps what is known of the host key.
LEMMA NextKInv == GInv /\ KInv /\ [Next]_vars => KInv'
<1> SUFFICES ASSUME GInv, KInv, [Next]_vars PROVE KInv'
  OBVIOUS
<1>1. TypeOK
  BY DEF GInv
<1>2. ASSUME NEW p \in Proc, Start(p) \/ Truncate(p) \/ WriteMetadata(p) \/ SkipSSH(p)
      PROVE  KInv'
  <2>1. /\ UNCHANGED <<mode, hostKey, key, shown>>
        /\ \E to \in {"ready", "opened", "truncated", "serving"} : pc' = [pc EXCEPT ![p] = to]
    BY <1>2 DEF Start, Truncate, WriteMetadata, SkipSSH, Go
  <2>2. /\ \A q \in Proc \ {p} : pc'[q] = pc[q] /\ key'[q] = key[q]
        /\ pc'[p] \notin {"keyless", "creating", "listening"}
    BY <1>1, <2>1 DEF TypeOK
  <2>3. QED BY <2>1, <2>2, KeysUntouched
<1>3. ASSUME NEW p \in Proc, OpenFails(p) \/ MetadataFails(p) \/ Flock(p) \/ StartFails(p) \/ Exit(p)
      PROVE  KInv'
  <2>1. /\ UNCHANGED <<mode, hostKey, shown>>
        /\ \/ key' = key \/ key' = [key EXCEPT ![p] = NoKey]
        /\ \E to \in {"ready", "locked", "down"} : pc' = [pc EXCEPT ![p] = to]
    BY <1>3 DEF OpenFails, MetadataFails, Flock, StartFails, Exit, Unguarded, Ends, Go
  <2>2. /\ \A q \in Proc \ {p} : pc'[q] = pc[q] /\ key'[q] = key[q]
        /\ pc'[p] \notin {"keyless", "creating", "listening"}
    BY <1>1, <2>1 DEF TypeOK
  <2>3. QED BY <2>1, <2>2, KeysUntouched
<1>4. ASSUME NEW p \in Proc, CloseSSH(p) \/ CloseGuard(p)
      PROVE  KInv'
  <2>1. /\ UNCHANGED <<mode, hostKey, key, shown>>
        /\ \E to \in {"closing", "exiting"} : pc' = [pc EXCEPT ![p] = to]
    BY <1>4 DEF CloseSSH, CloseGuard, Go
  <2>2. /\ \A q \in Proc \ {p} : pc'[q] = pc[q] /\ key'[q] = key[q]
        /\ pc'[p] \notin {"keyless", "creating", "listening"}
    BY <1>1, <2>1 DEF TypeOK
  <2>3. QED BY <2>1, <2>2, KeysUntouched
<1>5. ASSUME NEW p \in Proc, Connect(p) \/ LoopWrites(p) \/ SessionWrites(p)
      PROVE  KInv'
  BY <1>5 DEF Connect, LoopWrites, SessionWrites, KInv, AllGuarded, ShownIsStored, KeyMatchesFile
<1>6. ASSUME NEW p \in Proc, LoadHostKey(p) PROVE KInv'
  <2>1. /\ UNCHANGED <<mode, hostKey, shown>> /\ key'[p] = hostKey
        /\ \A q \in Proc \ {p} : pc'[q] = pc[q] /\ key'[q] = key[q]
        /\ pc'[p] = IF hostKey = NoKey THEN "keyless" ELSE "listening"
    BY <1>1, <1>6 DEF LoadHostKey, Go, TypeOK
  <2>2. QED BY <2>1 DEF KInv, AllGuarded, ShownIsStored, KeyMatchesFile
<1>7. ASSUME NEW p \in Proc, CreateHostKey(p), AllGuarded PROVE ShownIsStored' /\ KeyMatchesFile'
  <2>1. /\ pc[p] = "keyless" /\ hostKey' = TornKey /\ shown' = shown
        /\ \A q \in Proc \ {p} : pc'[q] = pc[q] /\ key'[q] = key[q]
        /\ pc'[p] = "creating"
    BY <1>1, <1>7 DEF CreateHostKey, Go, TypeOK
  <2>2. hostKey = NoKey /\ shown = {}
    BY <1>1, <1>7, <2>1, InstanceAssumption DEF KInv, ShownIsStored, KeyMatchesFile, TypeOK
  <2>3. \A q \in Proc \ {p} : ~ Active(q)
    BY <1>7, <2>1, AlonePastGuard DEF Active
  <2>4. QED BY <2>1, <2>2, <2>3 DEF ShownIsStored, KeyMatchesFile, Active
<1>8. ASSUME NEW p \in Proc, WriteHostKey(p), AllGuarded PROVE ShownIsStored' /\ KeyMatchesFile'
  <2>1. /\ pc[p] = "creating" /\ hostKey' = key[p] /\ shown' = shown /\ key' = key
        /\ \A q \in Proc \ {p} : pc'[q] = pc[q]
        /\ pc'[p] = "listening"
    BY <1>1, <1>8 DEF WriteHostKey, Go, TypeOK
  <2>2. hostKey = TornKey /\ shown = {}
    BY <1>1, <1>8, <2>1, InstanceAssumption DEF KInv, ShownIsStored, KeyMatchesFile, TypeOK
  <2>3. \A q \in Proc \ {p} : ~ Active(q)
    BY <1>8, <2>1, AlonePastGuard DEF Active
  <2>4. QED BY <2>1, <2>2, <2>3 DEF ShownIsStored, KeyMatchesFile, Active
<1>9. ASSUME NEW p \in Proc, Listen(p) PROVE KInv'
  <2>1. /\ pc[p] = "listening" /\ shown' = shown \cup {key[p]} /\ UNCHANGED <<mode, hostKey, key>>
        /\ \A q \in Proc \ {p} : pc'[q] = pc[q]
        /\ pc'[p] = "serving"
    BY <1>1, <1>9 DEF Listen, Go, TypeOK
  <2>2. QED BY <2>1 DEF KInv, AllGuarded, ShownIsStored, KeyMatchesFile
<1>10. ASSUME NEW p \in Proc, CreateHostKey(p) \/ WriteHostKey(p) PROVE KInv'
  <2>1. mode' = mode
    BY <1>10 DEF CreateHostKey, WriteHostKey
  <2>2. QED BY <1>7, <1>8, <1>10, <2>1 DEF KInv, AllGuarded
<1>11. CASE UNCHANGED vars
  BY <1>11 DEF vars, KInv, AllGuarded, ShownIsStored, KeyMatchesFile
<1>12. QED
  BY <1>2, <1>3, <1>4, <1>5, <1>6, <1>9, <1>10, <1>11 DEF Next

\* SSH clients see one host key for ever, through any number of guarded
\* processes that start, crash while they create the key, and start again
\* (loadOrCreateHostKey).
THEOREM OneHostKey == Spec => []HostKeyIsStable
<1>1. KInv => HostKeyIsStable
  BY DEF KInv, AllGuarded, ShownIsStored, HostKeyIsStable
<1>2. QED BY <1>1, InitKInv, NextKInv, GuardInvariance, PTL DEF Spec
----------------------------------------------------------------------------
(***************************************************************************)
(* Who writes adoption.env.                                                *)
(***************************************************************************)

\* A session belongs to a process that has listened and not ended.
SessionsLive == \A p \in session : p \in Proc /\ pc[p] \in {"serving", "closing", "exiting"}

\* Nobody is connected before anything runs.
LEMMA InitSessions == Init => SessionsLive
BY DEF Init, SessionsLive

\* A session ends with its process at the latest.
LEMMA NextSessions == GInv /\ SessionsLive /\ [Next]_vars => SessionsLive'
<1> SUFFICES ASSUME GInv, SessionsLive, [Next]_vars PROVE SessionsLive'
  OBVIOUS
<1>1. TypeOK
  BY DEF GInv
<1>2. ASSUME NEW p \in Proc, Start(p) \/ Truncate(p) \/ WriteMetadata(p) \/ LoadHostKey(p)
                              \/ CreateHostKey(p) \/ WriteHostKey(p) \/ Listen(p) \/ SkipSSH(p)
      PROVE  SessionsLive'
  <2>1. /\ session' = session /\ pc[p] \notin {"serving", "closing", "exiting"}
        /\ \A q \in Proc \ {p} : pc'[q] = pc[q]
    BY <1>1, <1>2 DEF Start, Truncate, WriteMetadata, LoadHostKey, CreateHostKey, WriteHostKey, Listen,
                      SkipSSH, Go, TypeOK
  <2>2. QED BY <2>1 DEF SessionsLive
<1>3. ASSUME NEW p \in Proc, Ends(p) PROVE SessionsLive'
  <2>1. session' = session \ {p} /\ \A q \in Proc \ {p} : pc'[q] = pc[q]
    BY <1>1, <1>3 DEF Ends, Go, TypeOK
  <2>2. QED BY <2>1 DEF SessionsLive
<1>4. ASSUME NEW p \in Proc, OpenFails(p) \/ MetadataFails(p) \/ Flock(p) PROVE SessionsLive'
  <2>1. \/ Ends(p)
        \/ /\ session' = session /\ pc[p] \in {"opened", "locked", "truncated"}
           /\ \A q \in Proc \ {p} : pc'[q] = pc[q]
    BY <1>1, <1>4 DEF OpenFails, MetadataFails, Flock, Unguarded, Go, TypeOK
  <2>2. QED BY <1>3, <2>1 DEF SessionsLive
<1>5. ASSUME NEW p \in Proc, StartFails(p) \/ Exit(p) PROVE SessionsLive'
  BY <1>3, <1>5 DEF StartFails, Exit
<1>6. ASSUME NEW p \in Proc, Connect(p) \/ LoopWrites(p) \/ SessionWrites(p) PROVE SessionsLive'
  BY <1>6 DEF Connect, LoopWrites, SessionWrites, SessionsLive
<1>7. ASSUME NEW p \in Proc, CloseSSH(p) \/ CloseGuard(p) PROVE SessionsLive'
  <2>1. /\ session' = session /\ pc'[p] \in {"closing", "exiting"}
        /\ \A q \in Proc \ {p} : pc'[q] = pc[q]
    BY <1>1, <1>7 DEF CloseSSH, CloseGuard, Go, TypeOK
  <2>2. QED BY <2>1 DEF SessionsLive
<1>8. CASE UNCHANGED vars
  BY <1>8 DEF vars, SessionsLive
<1>9. QED
  BY <1>2, <1>4, <1>5, <1>6, <1>7, <1>8 DEF Next

\* A guarded process writes adoption.env while it holds the lock, or from a
\* session that has outlived the guard and not yet the process (handleConn).
LEMMA WritersAreGuarded ==
  ASSUME GInv, SessionsLive, [Next]_vars, NEW p \in Proc,
         wrote' = p, wrote # p, mode[p] = "fail", lock # p
  PROVE  p \in session /\ pc[p] = "exiting"
<1>1. LoopWrites(p) \/ SessionWrites(p)
  BY InstanceAssumption
     DEF Next, vars, Start, OpenFails, Flock, Truncate, WriteMetadata, MetadataFails, LoadHostKey,
         CreateHostKey, WriteHostKey, Listen, StartFails, SkipSSH, Connect, LoopWrites, SessionWrites,
         CloseSSH, CloseGuard, Exit
<1>2. ~ Active(p)
  BY DEF GInv, GuardHeld
<1>3. QED
  BY <1>1, <1>2 DEF LoopWrites, SessionWrites, SessionsLive, Active

\* Two guarded processes write the same adoption.env only in one window, the
\* session of the old one that outlives its guard (serve.go, handleConn).
THEOREM WritersHoldTheGuard == Spec => WriterIsGuarded
<1>1. GInv /\ SessionsLive /\ [Next]_vars =>
        [\A p \in Proc : (wrote' = p /\ wrote # p /\ mode[p] = "fail" /\ lock # p) =>
                            p \in session /\ pc[p] = "exiting"]_vars
  BY WritersAreGuarded
<1>2. QED
  BY <1>1, InitSessions, NextSessions, GuardInvariance, PTL DEF Spec, WriterIsGuarded
=============================================================================

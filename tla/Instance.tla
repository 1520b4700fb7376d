------------------------------ MODULE Instance ------------------------------
(***************************************************************************)
(* The life of a daemon process, from the instance guard                   *)
(* (cmd/unifi-stubd/instance_guard.go) over the adoption SSH server and    *)
(* its host key (internal/adoptionssh/server.go, hostkey.go) to the        *)
(* presence loop and back (serve.go), next to other processes on the host  *)
(* that share the lock file, the SSH address and the state files.          *)
(*                                                                         *)
(* External: flock, which the kernel releases with the process, and the    *)
(* TCP address, which one process at a time can listen on.                 *)
(***************************************************************************)
CONSTANTS
  Proc,      \* processes; one may be started again after it has ended
  NoProc,    \* nobody
  Key,       \* host keys a process may generate
  NoKey,     \* there is no host key file
  TornKey    \* the host key file has been created but not written

ASSUME InstanceAssumption ==
  NoProc \notin Proc /\ NoKey \notin Key /\ TornKey \notin Key

VARIABLES
  mode,      \* instance_guard of each process
  pc,        \* where each process is
  lock,      \* the process that holds the lock
  metadata,  \* whom the lock file names; NoProc when it is empty
  port,      \* the process that listens on the SSH address
  hostKey,   \* the host key file
  key,       \* the host key each process uses
  session,   \* the processes with an SSH session under way
  shown,     \* history: the host keys SSH clients have seen
  wrote      \* history: the last writer of adoption.env since the lock was taken
             \* or released

vars == <<mode, pc, lock, metadata, port, hostKey, key, session, shown, wrote>>

Mode == {"off", "warn", "fail"}

Phase == {"down", "opened", "locked", "truncated", "ready", "keyless", "creating", "listening",
          "serving", "closing", "exiting"}

Init ==
  /\ mode \in [Proc -> Mode]
  /\ pc = [p \in Proc |-> "down"]
  /\ lock = NoProc
  /\ metadata = NoProc
  /\ port = NoProc
  /\ hostKey = NoKey
  /\ key = [p \in Proc |-> NoKey]
  /\ session = {}
  /\ shown = {}
  /\ wrote = NoProc

Go(p, to) == pc' = [pc EXCEPT ![p] = to]

\* The process is gone: the kernel closes its files and its sockets.
Ends(p) ==
  /\ Go(p, "down")
  /\ lock' = IF lock = p THEN NoProc ELSE lock
  /\ port' = IF port = p THEN NoProc ELSE port
  /\ session' = session \ {p}
  /\ key' = [key EXCEPT ![p] = NoKey]
----------------------------------------------------------------------------
(* acquireInstanceGuard.                                                   *)

\* Mutant: fail mode goes on as well.
Unguarded_goesOn(p) ==
  /\ Go(p, "ready")
  /\ lock' = IF lock = p THEN NoProc ELSE lock
  /\ UNCHANGED <<port, session, key>>

\* A guard that could not be acquired: fail mode ends the process, warn mode
\* logs and goes on without it.
Unguarded(p) ==
  IF mode[p] = "warn"
    THEN /\ Go(p, "ready")
         /\ lock' = IF lock = p THEN NoProc ELSE lock
         /\ UNCHANGED <<port, session, key>>
    ELSE Ends(p)

Start(p) ==
  /\ pc[p] = "down"
  /\ Go(p, IF mode[p] = "off" THEN "ready" ELSE "opened")
  /\ wrote' = NoProc
  /\ UNCHANGED <<mode, lock, metadata, port, hostKey, key, session, shown>>

\* The directory or the lock file cannot be opened.
OpenFails(p) ==
  /\ pc[p] = "opened"
  /\ Unguarded(p)
  /\ UNCHANGED <<mode, metadata, hostKey, shown, wrote>>

\* Mutant: the lock is shared.
Flock_shared(p) ==
  /\ pc[p] = "opened"
  /\ lock' = p /\ Go(p, "locked")
  /\ UNCHANGED <<mode, metadata, port, hostKey, key, session, shown, wrote>>

\* Flock does not wait.
Flock(p) ==
  /\ pc[p] = "opened"
  /\ IF lock = NoProc
       THEN lock' = p /\ Go(p, "locked") /\ UNCHANGED <<port, session, key>>
       ELSE Unguarded(p)
  /\ wrote' = NoProc
  /\ UNCHANGED <<mode, metadata, hostKey, shown>>

\* writeInstanceGuardMetadata: truncate, then write.
Truncate(p) ==
  /\ pc[p] = "locked"
  /\ metadata' = NoProc
  /\ Go(p, "truncated")
  /\ UNCHANGED <<mode, lock, port, hostKey, key, session, shown, wrote>>

\* Mutant: a failed write is not reported.
WriteMetadata_unchecked(p) ==
  /\ pc[p] = "truncated"
  /\ metadata' \in {p, NoProc}
  /\ Go(p, "ready")
  /\ UNCHANGED <<mode, lock, port, hostKey, key, session, shown, wrote>>

WriteMetadata(p) ==
  /\ pc[p] = "truncated"
  /\ metadata' = p
  /\ Go(p, "ready")
  /\ UNCHANGED <<mode, lock, port, hostKey, key, session, shown, wrote>>

MetadataFails(p) ==
  /\ pc[p] \in {"locked", "truncated"}
  /\ Unguarded(p)
  /\ UNCHANGED <<mode, metadata, hostKey, shown, wrote>>
----------------------------------------------------------------------------
(* The adoption SSH server, when ssh_listen is set.                        *)

\* Mutant: a key that does not parse is used.
LoadHostKey_unparsed(p) ==
  /\ pc[p] = "ready"
  /\ key' = [key EXCEPT ![p] = hostKey]
  /\ Go(p, IF hostKey = NoKey THEN "keyless" ELSE "listening")
  /\ UNCHANGED <<mode, lock, metadata, port, hostKey, session, shown, wrote>>

\* Mutant: the stored key is not looked at.
LoadHostKey_ignoresFile(p) ==
  /\ pc[p] = "ready"
  /\ Go(p, "keyless")
  /\ UNCHANGED <<mode, lock, metadata, port, hostKey, key, session, shown, wrote>>

\* loadOrCreateHostKey reads the file; one that does not parse ends the start.
LoadHostKey(p) ==
  /\ pc[p] = "ready"
  /\ hostKey # TornKey
  /\ key' = [key EXCEPT ![p] = hostKey]
  /\ Go(p, IF hostKey = NoKey THEN "keyless" ELSE "listening")
  /\ UNCHANGED <<mode, lock, metadata, port, hostKey, session, shown, wrote>>

\* os.WriteFile creates (or truncates) the file and then writes it.
CreateHostKey(p) ==
  /\ pc[p] = "keyless"
  /\ hostKey' = TornKey
  /\ \E k \in Key \ (shown \cup {hostKey}) : key' = [key EXCEPT ![p] = k]
  /\ Go(p, "creating")
  /\ UNCHANGED <<mode, lock, metadata, port, session, shown, wrote>>

WriteHostKey(p) ==
  /\ pc[p] = "creating"
  /\ hostKey' = key[p]
  /\ Go(p, "listening")
  /\ UNCHANGED <<mode, lock, metadata, port, key, session, shown, wrote>>

\* net.Listen; serve accepts connections from here on.
Listen(p) ==
  /\ pc[p] = "listening"
  /\ port = NoProc
  /\ port' = p
  /\ shown' = shown \cup {key[p]}
  /\ Go(p, "serving")
  /\ UNCHANGED <<mode, lock, metadata, hostKey, key, session, wrote>>

\* The start ends with an error, and the deferred Close releases the guard: the
\* host key does not parse or cannot be written, or the address is in use.
StartFails(p) ==
  /\ \/ pc[p] = "ready" /\ hostKey = TornKey
     \/ pc[p] \in {"keyless", "creating"}
     \/ pc[p] = "listening" /\ port # NoProc
  /\ Ends(p)
  /\ UNCHANGED <<mode, metadata, hostKey, shown, wrote>>

\* ssh_listen is empty: no key and no listener.
SkipSSH(p) ==
  /\ pc[p] = "ready"
  /\ Go(p, "serving")
  /\ UNCHANGED <<mode, lock, metadata, port, hostKey, key, session, shown, wrote>>
----------------------------------------------------------------------------
(* The presence loop and the sessions write adoption.env.                  *)

Connect(p) ==
  /\ pc[p] = "serving" /\ port = p
  /\ session' = session \cup {p}
  /\ UNCHANGED <<mode, pc, lock, metadata, port, hostKey, key, shown, wrote>>

LoopWrites(p) ==
  /\ pc[p] = "serving"
  /\ wrote' = p
  /\ UNCHANGED <<mode, pc, lock, metadata, port, hostKey, key, session, shown>>

\* handleConn's goroutine lives until the connection or the process ends.
SessionWrites(p) ==
  /\ p \in session
  /\ wrote' = p
  /\ UNCHANGED <<mode, pc, lock, metadata, port, hostKey, key, session, shown>>

\* Mutant: the guard is released before the listener is closed.
CloseSSH_guardFirst(p) ==
  /\ pc[p] = "serving"
  /\ lock' = IF lock = p THEN NoProc ELSE lock
  /\ Go(p, "closing")
  /\ UNCHANGED <<mode, port, metadata, hostKey, key, session, shown, wrote>>

\* The loop returns; the deferred calls run last in, first out: the listener
\* is closed, then the guard, then the process exits.
CloseSSH(p) ==
  /\ pc[p] = "serving"
  /\ port' = IF port = p THEN NoProc ELSE port
  /\ Go(p, "closing")
  /\ UNCHANGED <<mode, lock, metadata, hostKey, key, session, shown, wrote>>

CloseGuard(p) ==
  /\ pc[p] = "closing"
  /\ lock' = IF lock = p THEN NoProc ELSE lock
  /\ Go(p, "exiting")
  /\ wrote' = NoProc
  /\ UNCHANGED <<mode, metadata, port, hostKey, key, session, shown>>

\* main returns, or the process is killed at any point.
Exit(p) ==
  /\ pc[p] # "down"
  /\ Ends(p)
  /\ UNCHANGED <<mode, metadata, hostKey, shown, wrote>>

Next ==
  \E p \in Proc :
    \/ Start(p) \/ OpenFails(p) \/ Flock(p) \/ Truncate(p) \/ WriteMetadata(p) \/ MetadataFails(p)
    \/ LoadHostKey(p) \/ CreateHostKey(p) \/ WriteHostKey(p) \/ Listen(p) \/ StartFails(p)
    \/ SkipSSH(p) \/ Connect(p) \/ LoopWrites(p) \/ SessionWrites(p)
    \/ CloseSSH(p) \/ CloseGuard(p) \/ Exit(p)

Spec == Init /\ [][Next]_vars
----------------------------------------------------------------------------
(* Properties.                                                             *)

TypeOK ==
  /\ mode \in [Proc -> Mode]
  /\ pc \in [Proc -> Phase]
  /\ lock \in Proc \cup {NoProc}
  /\ metadata \in Proc \cup {NoProc}
  /\ port \in Proc \cup {NoProc}
  /\ hostKey \in Key \cup {NoKey, TornKey}
  /\ key \in [Proc -> Key \cup {NoKey}]
  /\ session \in SUBSET Proc
  /\ shown \in SUBSET Key
  /\ wrote \in Proc \cup {NoProc}

Active(p) == pc[p] \in {"ready", "keyless", "creating", "listening", "serving", "closing"}

\* With instance_guard: fail at most one process gets past the guard, so no
\* second one starts SSH, discovery or inform traffic (acquireInstanceGuard).
OneGuardedInstance ==
  \A p, q \in Proc :
    (mode[p] = "fail" /\ mode[q] = "fail" /\ Active(p) /\ Active(q)) => p = q

\* A process that is refused is told the right culprit: while the holder of
\* the lock is active, the lock file names it and nobody else, whatever crashed
\* or warn-mode processes have left there (writeInstanceGuardMetadata).
MetadataNamesHolder ==
  \A p \in Proc : (lock = p /\ Active(p)) => metadata = p

\* A guarded successor never finds its predecessor still listening: the
\* deferred calls close the listener before the guard (serve.go).
ListenerGoneBeforeGuard ==
  \A p, q \in Proc :
    (mode[p] = "fail" /\ mode[q] = "fail" /\ lock = p /\ port = q) => p = q

\* SSH clients see one host key as long as every process is guarded, through
\* crashes in the middle of creating it (loadOrCreateHostKey).
HostKeyIsStable ==
  (\A p \in Proc : mode[p] = "fail") => \A k, l \in shown : k = l

\* Two guarded processes write the same adoption.env only in one window: a
\* session of the old one outlives its guard until main returns.
WriterIsGuarded ==
  [][\A p \in Proc :
       (wrote' = p /\ wrote # p /\ mode[p] = "fail" /\ lock # p) =>
         p \in session /\ pc[p] = "exiting"]_vars
=============================================================================

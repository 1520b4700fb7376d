------------------------------ MODULE Adoption ------------------------------
(***************************************************************************)
(* adoption.env and everybody who reads and writes it: the daemon's        *)
(* presence loop (cmd/unifi-stubd/serve_presence.go, serve_heartbeat.go,   *)
(* adoption.go, inform.go) and the sessions of the built-in adoption SSH   *)
(* server (internal/adoptionssh).                                          *)
(*                                                                         *)
(* The loop loads the store, sends one inform request and applies the      *)
(* reply to the store it loaded BEFORE the exchange.  SSH sessions load,   *)
(* merge and save under Handler.mu; the loop does not take that lock.  A   *)
(* write replaces the file atomically (internal/atomicfile), may fail      *)
(* before or after the replacement, and the process may be killed at any   *)
(* point.  The loop's volatile state (schedule, clock, block selection) is *)
(* the subject of other modules.                                           *)
(***************************************************************************)
EXTENDS AdoptionStore

CONSTANTS
  Session,      \* concurrent SSH sessions
  NoSession,    \* Handler.mu is free
  InitialDisk   \* what adoption.env may hold when the daemon first starts

ASSUME SessionAssumption == NoSession \notin Session
ASSUME InitialDiskAssumption == InitialDisk \subseteq Store \cup {NoFile}

VARIABLES
  disk,       \* adoption.env
  pc,         \* the presence loop
  store,      \* the loop's copy of the store, loaded before the exchange
  sess,       \* the SSH sessions
  mu,         \* the session that holds Handler.mu
  confirmed,  \* history: the <<key, URL>> identities a controller has answered
              \* a state-bearing response for
  erased,     \* history: the key an acknowledged SSH reset has cleared, until
              \* the next inform or the next SSH adoption
  stale       \* history: who holds a copy of a store that was overwritten
              \* after it was loaded

vars == <<disk, pc, store, sess, mu, confirmed, erased, stale>>

Daemon == "daemon"

ASSUME DaemonAssumption == Daemon \notin Session

Command == [op : {"save"}, informURL : Url \cup {""}, authKey : KeyText \cup {""}]
             \cup [op : {"reset"}, informURL : {""}, authKey : {""}]

noCommand == [op |-> "save", informURL |-> "", authKey |-> ""]

idleSession == [pc |-> "idle", cmd |-> noCommand, base |-> ZeroStore]

Alive == pc \in {"load", "sent", "wait"}

Identity(s) == <<informAuthKey(s), effectiveInformURL(s)>>

WriteOutcome == {"ok",        \* the file was replaced and synced
                 "kept",      \* an error before the rename: the old file stays
                 "replaced"}  \* an error after it: the new file is in place
----------------------------------------------------------------------------
Init ==
  /\ disk \in InitialDisk
  /\ pc = "load"
  /\ store = ZeroStore
  /\ sess = [s \in Session |-> idleSession]
  /\ mu = NoSession
  /\ confirmed = IF disk # NoFile /\ LoadEnvAccepts(disk) /\ disk.state = "connected"
                   THEN {Identity(disk)} ELSE {}
  /\ erased = ""
  /\ stale = {}

\* SaveEnv validates the store and then hands it to atomicfile.WriteFile.
SaveOK(s, w) == validateStoreForPersistence(s) /\ w = "ok"

\* Mutant: the store is written without being validated.
SavedDisk_unvalidated(s, w) == IF w # "kept" THEN s ELSE disk

SavedDisk(s, w) ==
  IF validateStoreForPersistence(s) /\ w # "kept" THEN s ELSE disk

\* The process ends: its goroutines, and the mutex, end with it.
EndProcess(how) ==
  /\ pc' = how
  /\ store' = ZeroStore
  /\ sess' = [s \in Session |-> idleSession]
  /\ mu' = NoSession
  /\ stale' = {}

\* LoadEnv succeeds, or fails because the file does not exist.
Readable == IF disk = NoFile THEN TRUE ELSE LoadEnvAccepts(disk)

Loaded == {s \in Session : sess[s].pc = "loaded"}
----------------------------------------------------------------------------
(* The presence loop.                                                      *)

loadAdoptionState == IF disk = NoFile THEN FactoryStore ELSE disk

\* One turn of the loop up to the HTTP request: an unreadable file ends the
\* daemon; without an inform URL, or with a store that permits no key, nothing
\* is sent and the loop waits.
DaemonLoad ==
  /\ pc = "load"
  /\ Readable
  /\ LET loaded == loadAdoptionState
         sends  == effectiveInformURL(loaded) # "" /\ informAuthKeyOK(loaded)
     IN /\ store' = IF sends THEN loaded ELSE ZeroStore
        /\ pc' = IF sends THEN "sent" ELSE "wait"
  /\ erased' = ""
  /\ UNCHANGED <<disk, sess, mu, confirmed, stale>>

DaemonLoadFails ==
  /\ pc = "load"
  /\ ~Readable
  /\ EndProcess("failed")
  /\ UNCHANGED <<disk, confirmed, erased>>

\* The exchange ended without an applicable response; the loop backs off (or,
\* after an empty 200, keeps its interval).
DaemonNoResponse(reply) ==
  /\ pc = "sent"
  /\ ~ParseOK(reply)
  /\ pc' = "wait"
  /\ store' = ZeroStore
  /\ stale' = stale \ {Daemon}
  /\ UNCHANGED <<disk, sess, mu, confirmed, erased>>

\* updateAdoptionState: the store the reply turns the loaded one into, and
\* whether it is written back.
responseUpdate(reply) ==
  LET update == ParseControllerResponseInfo(reply)
  IN [update EXCEPT !.useAESGCM = @ \/ requestGCM(store)]

updatedStore(reply) ==
  IF ResetRequested(reply) THEN FactoryStore
  ELSE IF HasStateUpdate(reply) THEN Merge(store, responseUpdate(reply))
  ELSE [store EXCEPT !.useAESGCM = @ \/ requestGCM(store)]

mustSave(reply) == ResetRequested(reply) \/ updatedStore(reply) # store

\* A response is applied to the copy loaded before the exchange.  When the new
\* store cannot be persisted the heartbeat's error ends the daemon.
DaemonApply(reply, w) ==
  /\ pc = "sent"
  /\ ParseOK(reply)
  /\ confirmed' = IF HasStateUpdate(reply) /\ ~ResetRequested(reply)
                    THEN confirmed \cup {Identity(store)} ELSE confirmed
  /\ disk' = IF mustSave(reply) THEN SavedDisk(updatedStore(reply), w) ELSE disk
  /\ IF mustSave(reply) /\ ~SaveOK(updatedStore(reply), w)
       THEN EndProcess("failed")
       ELSE /\ pc' = "wait"
            /\ store' = ZeroStore
            /\ stale' = (stale \ {Daemon}) \cup (IF disk' # disk THEN Loaded ELSE {})
            /\ UNCHANGED <<sess, mu>>
  /\ UNCHANGED erased

\* waitForNextHeartbeat: the timer, or SIGINT/SIGTERM (and --once).
DaemonTimer ==
  /\ pc = "wait"
  /\ pc' = "load"
  /\ UNCHANGED <<disk, store, sess, mu, confirmed, erased, stale>>

DaemonStop ==
  /\ pc = "wait"
  /\ EndProcess("stopped")
  /\ UNCHANGED <<disk, confirmed, erased>>

\* The process is killed, or the host loses power, at any point.
Crash ==
  /\ Alive
  /\ EndProcess("failed")
  /\ UNCHANGED <<disk, confirmed, erased>>

\* systemd restarts a failed daemon, an operator a stopped one.
Start ==
  /\ pc \in {"failed", "stopped"}
  /\ pc' = "load"
  /\ UNCHANGED <<disk, store, sess, mu, confirmed, erased, stale>>
----------------------------------------------------------------------------
(* SSH sessions.                                                           *)

\* A command reaches the handler: set-adopt and set-inform call saveState,
\* restore-default and reset call resetState, anything else saveState("", "").
SSHCommand(s, cmd) ==
  /\ Alive
  /\ sess[s].pc = "idle"
  /\ sess' = [sess EXCEPT ![s] = [pc |-> "want", cmd |-> cmd, base |-> ZeroStore]]
  /\ UNCHANGED <<disk, pc, store, mu, confirmed, erased, stale>>

\* Mutant: the handler does not take its mutex.
Acquire_unlocked(s) == sess[s].pc = "want"

Acquire(s) == sess[s].pc = "want" /\ mu = NoSession

\* Mutant: the early return forgets to unlock.
SSHNothing_keepsLock(s) ==
  /\ Acquire(s)
  /\ sess[s].cmd = noCommand
  /\ sess' = [sess EXCEPT ![s] = idleSession]
  /\ mu' = s
  /\ UNCHANGED <<disk, pc, store, confirmed, erased, stale>>

\* saveState("", "") returns under the lock without touching the file.
SSHNothing(s) ==
  /\ Acquire(s)
  /\ sess[s].cmd = noCommand
  /\ sess' = [sess EXCEPT ![s] = idleSession]
  /\ mu' = NoSession
  /\ UNCHANGED <<disk, pc, store, confirmed, erased, stale>>

\* Mutant: the error for a missing file is not told from a store.
SSHLoad_missing(s) ==
  /\ Acquire(s)
  /\ sess[s].cmd.op = "save" /\ sess[s].cmd # noCommand
  /\ Readable
  /\ sess' = [sess EXCEPT ![s].pc = "loaded", ![s].base = disk]
  /\ mu' = s
  /\ UNCHANGED <<disk, pc, store, confirmed, erased, stale>>

\* saveState loads the file; a missing file is the zero store.
SSHLoad(s) ==
  /\ Acquire(s)
  /\ sess[s].cmd.op = "save" /\ sess[s].cmd # noCommand
  /\ Readable
  /\ sess' = [sess EXCEPT ![s].pc = "loaded",
                          ![s].base = IF disk = NoFile THEN ZeroStore ELSE disk]
  /\ mu' = s
  /\ UNCHANGED <<disk, pc, store, confirmed, erased, stale>>

SSHLoadFails(s) ==
  /\ Acquire(s)
  /\ sess[s].cmd.op = "save" /\ sess[s].cmd # noCommand
  /\ ~Readable
  /\ sess' = [sess EXCEPT ![s] = idleSession]
  /\ mu' = NoSession
  /\ UNCHANGED <<disk, pc, store, confirmed, erased, stale>>

StaleDaemon == IF pc = "sent" /\ disk' # disk THEN {Daemon} ELSE {}

\* ... and saves the merged store, whether or not anything changed.
SSHSave(s, w) ==
  /\ sess[s].pc = "loaded" /\ mu = s
  /\ LET cmd    == sess[s].cmd
         merged == Merge(sess[s].base, sshUpdate(cmd.informURL, cmd.authKey))
     IN /\ disk' = SavedDisk(merged, w)
        /\ erased' = IF disk' # disk THEN "" ELSE erased
  /\ sess' = [sess EXCEPT ![s] = idleSession]
  /\ mu' = NoSession
  /\ stale' = (stale \ {s}) \cup StaleDaemon
  /\ UNCHANGED <<pc, store, confirmed>>

\* resetState overwrites the file without reading it.
SSHReset(s, w) ==
  /\ Acquire(s)
  /\ sess[s].cmd.op = "reset"
  /\ disk' = SavedDisk(FactoryStore, w)
  /\ erased' = IF disk # NoFile /\ SaveOK(FactoryStore, w)
                 THEN over(erased, disk.authKey) ELSE erased
  /\ sess' = [sess EXCEPT ![s] = idleSession]
  /\ mu' = NoSession
  /\ stale' = stale \cup StaleDaemon
  /\ UNCHANGED <<pc, store, confirmed>>
----------------------------------------------------------------------------
DaemonExchange ==
  \E reply \in Reply : \/ DaemonNoResponse(reply)
                       \/ \E w \in WriteOutcome : DaemonApply(reply, w)

SSHStep(s) ==
  \/ SSHNothing(s)
  \/ SSHLoad(s)
  \/ SSHLoadFails(s)
  \/ \E w \in WriteOutcome : SSHSave(s, w) \/ SSHReset(s, w)

Next ==
  \/ DaemonLoad
  \/ DaemonLoadFails
  \/ DaemonExchange
  \/ DaemonTimer
  \/ DaemonStop
  \/ Crash
  \/ Start
  \/ \E s \in Session : SSHStep(s) \/ \E cmd \in Command : SSHCommand(s, cmd)

Spec == Init /\ [][Next]_vars

(***************************************************************************)
(* Fairness.  The loop keeps turning (its timer fires, the HTTP client     *)
(* gives up after ten seconds), systemd restarts a failed daemon, and Go's *)
(* mutex hands the lock to every waiter.  Two assumptions are about the    *)
(* environment: the daemon is not killed before every load, and a          *)
(* controller that is asked again and again answers some request with a    *)
(* noop that can be persisted.                                             *)
(***************************************************************************)
NoopApplied ==
  \E reply \in PlainReply : reply.kind = "noop" /\ DaemonApply(reply, "ok")

Fairness ==
  /\ SF_vars(DaemonLoad)
  /\ WF_vars(DaemonLoadFails)
  /\ WF_vars(DaemonExchange)
  /\ WF_vars(DaemonTimer)
  /\ WF_vars(pc = "failed" /\ Start)
  /\ SF_vars(NoopApplied)
  /\ \A s \in Session : SF_vars(SSHStep(s))

FairSpec == Spec /\ Fairness
----------------------------------------------------------------------------
(* Properties.                                                             *)

\* Every variable holds a value of its type: in particular no session ever
\* merges into "no file", which is what LoadEnv's error leaves behind.
TypeOK ==
  /\ disk \in Store \cup {NoFile}
  /\ pc \in {"load", "sent", "wait", "failed", "stopped"}
  /\ store \in Store
  /\ sess \in [Session -> [pc : {"idle", "want", "loaded"}, cmd : Command, base : Store]]
  /\ mu \in Session \cup {NoSession}
  /\ confirmed \subseteq ({DefaultBytes} \cup {KeyBytes[k] : k \in DOMAIN KeyBytes})
                         \X (Url \cup {""})
  /\ erased \in KeyText \cup {""}
  /\ stale \subseteq Session \cup {Daemon}

\* Whatever replies and commands arrive, and however they interleave, the
\* daemon and the SSH server only ever write a store that LoadEnv accepts, so
\* the next start cannot trip over the previous one's file (SaveEnv, LoadEnv).
SavesAreLoadable == [][disk' # disk => disk' # NoFile /\ LoadEnvAccepts(disk')]_vars

\* A request that claims the managed wire state goes out under a key and to a
\* URL that a controller has already answered with a state-bearing response:
\* every change of either passes through wire state 0 again, also when an SSH
\* session and a reply race (Merge, controllerInformState).
ManagedIsConfirmed ==
  (pc = "sent" /\ controllerInformState(store) = "managed") => Identity(store) \in confirmed

\* Handler.mu serialises the SSH sessions: a session's copy of the store is
\* outdated only if the daemon wrote in between, and the daemon's only if a
\* session did (saveState, resetState).
CopiesAreCurrent ==
  /\ (pc = "sent" /\ Daemon \notin stale) => store = loadAdoptionState
  /\ \A s \in Session :
       (sess[s].pc = "loaded" /\ s \notin stale) =>
         sess[s].base = IF disk = NoFile THEN ZeroStore ELSE disk

\* Something the stub had learned is gone from the file.
Forgets(old, new) ==
  \/ old.authKey # "" /\ new.authKey = ""
  \/ old.informURL # "" /\ new.informURL = ""
  \/ old.cfgVersion # "" /\ new.cfgVersion = ""
  \/ old.useAESGCM /\ ~new.useAESGCM

\* The writer of this step held an outdated copy.
StaleWriter ==
  \/ pc = "sent" /\ pc' # "sent" /\ Daemon \in stale
  \/ \E s \in stale \cap Session : sess[s].pc = "loaded" /\ sess'[s].pc # "loaded"

\* The stub forgets a key, a URL, a configuration version or its move to
\* AES-GCM only in a reset, or through a write that was based on an outdated
\* copy.  Without the race between the daemon and an SSH session the cipher is
\* never downgraded and the default key never comes back (Merge).
ForgetsOnlyInResetOrRace ==
  [][(disk # NoFile /\ disk' # disk /\ Forgets(disk, disk')) =>
       disk' = FactoryStore \/ StaleWriter]_vars

\* The comment on resetState: an acknowledged SSH reset makes "the next inform
\* look factory-default", so it does not go out under the key the reset cleared.
NextInformIsFactoryAfterReset ==
  [][(pc = "load" /\ pc' = "sent" /\ erased # "") => store'.authKey # erased]_vars

Adopting ==
  IF disk = NoFile THEN FALSE
  ELSE /\ LoadEnvAccepts(disk)
       /\ disk.state = "adopting"
       /\ effectiveInformURL(disk) # ""

\* A keyed store in the adopting phase does not stay there: the daemon keeps
\* asking until a noop confirms the new identity, through crashes, failed
\* writes and racing sessions (updateAdoptionState, Merge).
AdoptingLeadsToConfirmation ==
  Adopting ~> (pc = "stopped" \/ ~Adopting)

\* Every SSH command that waits for Handler.mu is served (or dies with the
\* process): no path through saveState or resetState keeps the lock.
SSHCommandsAreServed ==
  \A s \in Session : sess[s].pc # "idle" ~> sess[s].pc = "idle"
=============================================================================

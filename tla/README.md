# A TLA+ verification of unifi-stubd

unifi-stubd is a daemon that presents a host as a UniFi switch or gateway to a
UniFi Network controller. It announces itself, is adopted, and then reports the
host's ports in a periodic *inform* exchange; it never changes the host. This
directory holds TLA+ models of the parts of the daemon that keep state or are
hard to test, TLC configurations that check them on small instances, and proofs
checked by TLAPS for instances of any size. Paths below are relative to `src/`.

## 1. Inventory

| Component | State it keeps | Operations | Hard behaviour | What makes it correct |
|---|---|---|---|---|
| Adoption store and controller responses (`internal/adoption`) | `adoption.env`: phase, inform URL, key, configuration version, cipher, firmware version | `LoadEnv`, `SaveEnv`, `ResetEnv`, `Merge`, `ParseControllerResponseInfo` | long sequences of replies and commands; two spellings of a key; files that a later start refuses | what is saved can be loaded; the connected phase is only for a confirmed key and URL; nothing is forgotten but by a reset |
| Presence loop (`cmd/unifi-stubd/serve_presence.go`, `serve_heartbeat.go`, `adoption.go`, `inform.go`) | a copy of the store for the length of one exchange; the status file | load, send, apply, save, wait | the copy is read before an HTTP exchange and written after it, without a lock | no update of somebody else is lost; the status file is true |
| Adoption SSH sessions (`internal/adoptionssh`) | `Handler.mu`, one goroutine per connection | set-adopt, set-inform, restore-default, read-only commands | concurrent sessions, sessions against the loop, sessions that outlive the listener | sessions are serialised; every command is served |
| SSH server and host key (`internal/adoptionssh/server.go`, `hostkey.go`) | the listener, the host key file | start, accept, close | a kill while the key is written; a listener still open when the next process starts | clients see one key |
| Inform schedule (`internal/inform/schedule.go`) | effective interval, failure count, immediate latch | `Success`, `Failure`, `Reset`, `Current` | 64-bit durations that overflow; bounds that do not overlap | delays are positive and bounded; backoff is exponential |
| Controller clock (`internal/inform/controller_clock.go`) | an offset in seconds | `Update`, `Reset`, `Now` | a difference that overflows | the offset saturates |
| Status file (`cmd/unifi-stubd/status_persist.go`) | the last exchange | record | assembled on nine paths | see the presence loop |
| Atomic file writer (`internal/atomicfile`) | a file and its temporary siblings | `WriteFile` | power loss between any two system calls, concurrent calls | the file is an atomic register; an acknowledged write is durable |
| Instance guard and process life (`cmd/unifi-stubd/instance_guard.go`, `serve.go`) | a lock file with metadata | acquire, release, start, stop | two starts at once, kills, three modes, order of deferred calls | one guarded instance; metadata names the holder |
| Configuration migration (`internal/config/migrate.go`, `migrate_file.go`) | the configuration file and its backups | rewrite aliases, back up, replace | duplicates and conflicts of names; two runs in one second; kills; an operator who edits | the result loads, is final and means the same; no document is lost |
| Configuration and settings (`internal/config`, `cmd/unifi-stubd/settings*.go`, `operation_*validate.go`) | none after start | load, layer flags over file over defaults, validate | precedence of three sources; limits | a value given explicitly wins; what is accepted can run |
| Bridge and interface observation (`internal/observe`) | none between heartbeats | snapshot, classify members, give them ports; read mapped interfaces and those overrides name | more members than ports; pins; members that are uplink, ignored or the bridge; reads that fail | clients behind the uplink are never claimed; pins are honoured; nothing synthetic is shown as observed; facts are those of this heartbeat |
| Port overrides, WAN health (`internal/device/override_apply.go`, `port_build.go`, `cmd/unifi-stubd/wan_health.go`) | ports under construction | apply in order | four writers of one port | the operator has the last word |
| Traffic rates (`internal/observe/rates.go`, `cmd/unifi-stubd/traffic_rates.go`) | the last sample of every interface | rate | counters that wrap or restart, time that stands still | rates are never negative or absurd |
| Topology (`internal/device/topology.go`, `port_neighbors.go`) | none | resolve one neighbour per port, upstream or downstream | configured and heard neighbours that contradict each other | what is configured survives; nothing that is heard can fail |
| Inform codec and client (`internal/inform/decode.go`, `encode.go`, `client.go`) | none | encode, decode, send, retry with another cipher | order of the checks of a packet | what is encoded decodes; nothing is used before it is authenticated |
| Discovery (`internal/discovery`) | none | encode an announcement | – | – |
| Payload builder (`internal/device/payload`) | none | select ports, roles, networks and neighbours for every table | every table has a rule of its own | the tables of one payload agree |
| Profiles (`internal/device`) | static data | validate | – | – |
| OPNsense importer (`internal/opnsense`, `cmd/unifi-stubd-opnsense`) | none; its output is the input of the next run | look up, generate overrides, merge | rows with equal names; imports on top of imports | the operator's values win; a port has the facts of its own interface |
| Platform access (`internal/platform`) | none | read the operating system | – | – |
| Lab tool (`lab/stub/tools/controller-adoption`) | a session with a controller | poll, adopt, reset | timeouts | – |

**How they interact.** `serve` acquires the instance guard, starts the SSH
server, and runs the presence loop until a signal; deferred calls close the
server and then the guard. Every turn of the loop loads `adoption.env`, builds a
payload from the profile, the observed ports and the overrides, sends it, applies
the reply to the store and to the volatile state (schedule, clock, block
selection), writes the status file, and waits for as long as the schedule says.
SSH sessions run at the same time and read, merge and write the same
`adoption.env` under a mutex the loop does not take. Both write through
`atomicfile.WriteFile`. The migration is a separate invocation on the
configuration file, run by hand and by package upgrades.

`PROJECT.json` lists the hazards this gives rise to, each at its line with the
properties that cover it.

## 2. Modules

| Module | Models | Composition |
|---|---|---|
| `AdoptionStore` | the adoption store as data: which texts are accepted, `Merge`, the response parsers | constant operators, used by `Adoption` |
| `Adoption` | everybody who reads and writes `adoption.env` | EXTENDS `AdoptionStore` |
| `InformSchedule` | the schedule, on integers of width `MaxInt` | – |
| `Heartbeat` | volatile state and status file of one turn of the loop | EXTENDS `InformSchedule`, every action conjoined with one of the schedule |
| `AtomicRegister` | what callers of `WriteFile` may rely on (abstract) | – |
| `AtomicFile` | `WriteFile`, system call by system call | implements `AtomicRegister` (INSTANCE with a refinement mapping) |
| `Instance` | processes, guard, lock file, host key, listener | – |
| `ConfigMigration` | the rewrite of a document and the handling of its files | – |
| `BridgeObserve` | which bridge member, and which learned addresses, each port shows | – |
| `ListFold` | a loop over a list, with its body `Step` as parameter, and what the proofs need to know of it | – |
| `Lists` | the elements of a list at some places, in their order | instantiates `ListFold` |
| `PortOverrides` | profile ports, overrides, host facts filled into overrides, WAN probes | constant operators; EXTENDS `Lists`, its loops are instances of `ListFold` |
| `Topology` | neighbours of ports, and the resolution of the topology | EXTENDS `Lists`, its loops are instances of `ListFold` |
| `Payload` | the tables of a switch's and of a gateway's payload | EXTENDS `PortOverrides`, `Topology` |
| `TrafficRates` | the host's counters and the rate tracker | – |
| `Opnsense` | the importer's lookup, generation and merge | EXTENDS `PortOverrides` |
| `PortReport` | a heartbeat's report, from the reads of the host to the payload, and the import of a configuration | EXTENDS `BridgeObserve`, `TrafficRates`, `Payload`, `Opnsense` |
| `MC…` | values of the constants for TLC | EXTENDS the module it is named after |
| `…Proofs` | theorems and proofs | EXTENDS the module and TLAPS |

### Adoption

`disk` is `adoption.env`, `pc`/`store` the presence loop and the copy it loaded,
`sess`/`mu` the SSH sessions and `Handler.mu`. `DaemonLoad` is one turn up to the
request, `DaemonApply` is `updateAdoptionState` with the reply, including the save
and the end of the daemon when it fails; `SSHLoad` and `SSHSave` are the two
halves of `saveState`, `SSHReset` is `resetState`. A write has three outcomes
(done, failed before the rename, failed after it), which is what `AtomicFile`
shows of `WriteFile`. `Crash` may happen anywhere, `Start` brings the daemon back.

Keys are texts with bytes behind them (`KeyBytes`), because the code compares
bytes in some places and texts in others: a raw key and its hexadecimal form
differ as text and agree as bytes. URLs, versions and configuration versions are
members of small sets with designated bad ones (not a URL, contains a control
character). A reply is one of the response types of `response.go` with the fields
that matter; a reply that cannot be parsed, an HTTP error and a timeout are one
outcome, because the store is treated alike.

`confirmed`, `erased` and `stale` are history: the identities a controller has
answered, the key an acknowledged reset has removed, and who holds a copy that
somebody else has since overwritten.

### InformSchedule and Heartbeat

The schedule's arithmetic is Go's: `Wrap` is two's complement at `MaxInt`, and
durations are scaled down so that 100 ms, 300 s and the overflow all lie within
255 units (8 bits). The doubling loop of `Failure` is one action per iteration, so that
the invariant of the loop can be stated. `Heartbeat` adds the clock, the block
selection and the status file and has one action per path through
`sendInformHeartbeat`; a heartbeat whose store cannot be saved is a failure that
also ends the daemon.

### AtomicFile

Each system call is an action. `file` is what a reader sees, `durable` the set of
contents a power loss may leave; syncing the directory shrinks that set to the
current content. The refinement maps a call to *writing* until its rename and to
*replaced* until its directory sync.

### Instance

One record of every process by `pc`: opened, locked, truncated, ready, keyless,
creating, listening, serving, closing, exiting. `flock` is released by the kernel
when a process ends (`Ends`), also when it is killed. `mode` is fixed for a
process; all combinations are initial states.

### ConfigMigration

A document is the record of the fields the migration looks at, each absent, of
the wrong kind, empty, or one of a few texts. `MigrateData` is the chain of six
rewrites with their early exits and the final decode. The file half is one action
per system call that matters: read, create the backup (O_EXCL), write it, rename;
a run may fail or be killed before each, and another run and an editor interleave.

### BridgeObserve

One heartbeat in bridge-observe or host-direct mode (`linuxBridge`, `Apply`,
`portsForRuntime`). The host is read three times, `ReadUplink`, `ReadFDB` and
`ReadMembers`, and each reading may fail or find something else than the one
before, so a member in the forwarding table may be silent a moment later. The
loop of `applyDeviceMACs` over the sorted members is `SkipMember`, `MapUplink` and
`MapMember`, with `access` for the unconsumed part of `accessIndexes` and `used`
for `usedPorts`; `Finish` clears the ports without a member and names the uplink's
interface. A port shows *whose* carrier, counters and name, not their values: a
wrong port can only show the wrong interface, or nobody's (`Down`), or the
profile's (`Profile`). Which names are virtual or physical is a constant; an
address is what it is under `net.ParseMAC`, and lists of them are sets.

### PortReport and the modules it composes

`Report` is one heartbeat of `maintainControllerPresence` up to the payload:
`RefreshOverrides` fills what is read now into a copy of the operator's overrides,
`portsForRuntime` lays host facts, overrides, WAN probes, LLDP and configured
neighbours over the profile's ports in the order of the code, `applyTrafficRates`
compares counters with the tracker's samples, and `Build` makes the tables. Its
parameters are what the heartbeat cannot choose: how each read of an interface
ended (everything, no counters, no carrier, nothing), what LLDP has heard and which
probes were answered. In the bridge modes `ObserveBridge` runs the steps of
`BridgeObserve` first. Between heartbeats `HostStep` moves counters, carriers, time
and restarts counters. `shown` is the report until it is `Sent`; only the tracker
(`previous`, `age`) and the configuration (`plan`, `overrides`) outlive it.

`PortOverrides`, `Topology` and `Payload` are functions. A port and an override are
records with one field per group of fields that the code always treats alike
(`ip` for MAC, IPv4 address and netmask, `conf` for the assignment ids, `wan` for
the four WAN values, `rx` and `tx` for all counters); one operator per setter, in
the order of `portOverrideSetters`. Every table of `Payload` has the fields that say
which port, role, network, address, link, counters and neighbour it shows; names
and constants of the JSON document are left out. `TrafficRates` keeps, as history,
the bytes that really went through an interface since it was sampled (`moved`) and
whether its counters started again (`restarted`).

`OperatorImports` is one use of the importer as its how-to describes it: generate
from the installed configuration, validate, install, restart. The answers of the
API differ from import to import, and of two rows with one name either may be the
one that is found, because the code fills a Go map in random order. The merge is the
code's loop over a map by port number: the generated overrides fill it
(`generatedByPort`), each base override is laid over the entry of its port
(`mergeOverride`), and the entries are listed by port (`inOrder`). `isConfigured`
says what an override of a file can be: the counters and the disabled mark are not
fields of the file (`yaml:"-"`). `plan.own` is history: what the operator had
configured before the first import. The properties of the ports speak of one field
at a time: of the overrides of a port that speak of the field, the last decides.

## 3. Runs

| Run | Checks | Bounds, and why they are enough |
|---|---|---|
| `adoption_loop` | the loop without SSH: `ManagedIsConfirmed`, `SavesAreLoadable` | a raw and a hexadecimal spelling of one key, a second key, the default key and a malformed one; two good URLs and a bad one; a version with a control character; initial files that are missing, keyed, failed and invalid. Every branch of `Merge` and of the validations is told apart by one of these values |
| `adoption_race` | the loop and two sessions: `TypeOK`, `CopiesAreCurrent`, `ForgetsOnlyInResetOrRace` | two sessions (a third would wait for the same mutex), symmetric; two keys, one URL |
| `adoption_live` | `AdoptingLeadsToConfirmation`, `SSHCommandsAreServed` | one session against the loop, one key, under `FairSpec` |
| `adoption_reset` | *violation* of `NextInformIsFactoryAfterReset` | one session |
| `heartbeat` | the schedule inside the loop: `EffectiveWithinPolicy`, `DelayWithinBounds`, `BackoffIsExponential`, `ImmediateNeverTwice`; and `ResetForgetsController`, `ClockOffsetSaturates`, `StatusTellsTheTruth` | 8-bit durations; configurations around every bound, among them ones the daemon refuses, and jitter whose window is empty, wide or overflows; three failures in a row, which pass the maximum from the long interval and reach the multiples between from the short one; all four reporting policies with the usual configurations (with the extreme ones clock and blocks are off: they do not touch the schedule); extreme clocks on both sides |
| `atomic_file` | `AcknowledgedIsDurable`, `ImplementsRegister` | three concurrent calls and three contents: a call, one that overtakes it and one that finishes in between |
| `instance` | guard, metadata, listener, host key, writers | two processes in all nine combinations of modes, restarted for ever; three keys |
| `migration` | `ResultsAreFinal`, `ObservationIsKept`, `NothingIsLost` | every combination of values within each group of related fields (the groups do not interact); two runs at once, symmetric, and an editor with one document, within two seconds, so that names of backups collide |
| `migration_host` | *violation* of `RuntimeBehaviorIsKept` | one document |
| `ports` | a heartbeat's report. Bridge: `RemoteIsNeverClaimed`, `EveryMemberIsShown`, `PinsAreReserved`, `OneInterfacePerPort`, `NothingSyntheticOnceLearned`. Ports: `RatesAreReal`, `OperatorHasTheLastWord`, `HostFactsAreCurrent`, `ImportKeepsOperator`. Topology: `LLDPNeverFails`, `ConfiguredEdgesSurvive`, `HeardOneWay`. Payload: `RootTrafficIsReal`, `EdgesAreToldOnce`, `GatewayTablesAgree` | some 800 configurations in seven families, see below |
| `bridge_unlearned` | *violation* of `UnmappedPortsAreDown` | the bridge alone, the table that is empty |
| `wan_vlan` | *violation* of `ProbesLeaveVLAN` | one gateway with a VLAN on its WAN port and a probe |

The families of `ports` share a device of three ports: the uplink, and two access
ports, too few for the four mappable bridge interfaces.

* *Bridges*: two addresses over uplink and virtual members (of the distributions
  that put both addresses on the second virtual member, those that differ from
  others), all readings, pins that are absent, good, shared, on the uplink port and
  out of range, with an operator who renames a port.
* *Fibre* profiles, whose uplink moves or is forgotten.
* *Port maps* and *stubs* with an interface whose counters, carrier and age take the
  values 0 to 2 (`MaxBytes`, `MaxMoved`, `MaxAge`): enough for a counter that stays,
  grows, restarts below and restarts to its old value, and for a rate that is
  rounded; on one port, on two, and named by overrides that agree, add or contradict.
* *Gateways*: all 512 combinations of eight kinds of roles on three ports, with and
  without probes.
* *Neighbours*: an uplink on each port, configured devices and clients, and every
  way to hear two devices on three interfaces.
* *Imports*: operators who left the mapped ports open, who set them, and who set
  another interface; answers that lack an interface, know it only in detail or under
  a description, have two rows for it, and change.

Deadlock is checked in every run. Every property has a mutant of the code that
breaks it (`PROJECT.json`, "mutants"); the mutants stand beside the definitions
they change and are used by nothing else.

**Fairness.** Only `adoption_live` assumes any. The timer of
the loop fires and the HTTP client gives up after its timeout, so the loop's steps
are weakly fair. `packaging/linux/usr/lib/systemd/system/unifi-stubd.service` has
`Restart=on-failure`, so a failed daemon is started again. Go's mutex is
starvation-free, so a session that can take the lock again and again does (strong
fairness). Two assumptions are about the world: the daemon is not killed before
every load, and a controller that is asked again and again some time answers with
a noop that can be stored. Nothing is assumed of SSH clients, of stopping, or of
an operator who starts a stopped daemon.

## 4. Findings

* **`adoption_reset`.** The loop merges a reply into the store it loaded before the
  exchange and saves it without the sessions' mutex. A reset that an SSH client
  was told had succeeded is undone, and the next inform goes out under the erased
  key; the comment on `resetState` says the next inform looks factory-default.
  The same race can undo a set-adopt; `ForgetsOnlyInResetOrRace` shows that there
  is no other way to lose an update.
* **`migration_host`.** The migration moves `observe_interface` into
  `bridge_observe` in every mode, but `mac: host` takes the address from
  `observe_interface` itself. A host-direct daemon that started before the
  migration refuses to start after it, although `MigrateData` promises not to
  change runtime behaviour.
* **`bridge_unlearned`.** `Apply` clears the ports without a member only when some
  address was learned. On a quiet bridge, or when its table cannot be read, every
  access port shows the profile's synthetic link, although `operation-modes.md`
  says such ports are reported as disconnected.

* **`wan_vlan`.** The result of a WAN probe is applied as one more override, and an
  override without a VLAN clears the VLAN. A probed WAN port loses the VLAN its
  operator gave it, although `wan_health.go` says VLAN and assignments are
  intentionally left untouched.

What the checks show besides is what the code does and nothing promises
otherwise, or is not in the models' data. When the name of a backup is taken, the next number is never tried,
because the error is wrapped and `os.IsExist` does not look inside; the second
migration in a second fails, and nothing is lost (`NothingIsLost`). With more
members than access ports the surplus ones overwrite each other, and the uplink,
on the uplink port; `EveryMemberIsShown` therefore speaks of members that fit
(`Fits`), and `OneInterfacePerPort` of all. A kill while the host key is written leaves a file that every later
start refuses (`HostKeyIsStable` shows that clients never meet a second key), and
a session may still write `adoption.env` in the moment between the release of the
guard and the end of the process (`WriterIsGuarded` shows that there is no other
window). A port with two sources of facts, a mapped interface and an override that
names another, shows the name of one with the counters of the other when the second
cannot be read; `HostFactsAreCurrent` speaks of ports with one source. The resolution
of the topology remembers one edge per device, so a device that is heard on two
downstream ports and configured on an uplink behind them is shown in both
directions; `HeardOneWay` speaks of devices that only LLDP knows. When `uplink_port`
moves the uplink, the uplink's speed and media stay on the profile's uplink port.
After a first import every generated value is a base value, and base values win: a
later import changes only what was empty before. The importer decides by the role
of its source file whether a port gets WAN status, before the operator's role
replaces it, and reads "2.5G" as 5000 Mbps because the case for "5g" comes first.

## 5. Proofs

All theorems are proved for every value of the constants under the named
assumptions of the modules (`SessionAssumption`, `ScheduleAssumption`,
`TornAssumption`, …), which say that special values are not members of the sets
they stand beside, and that the integers have some positive width. TLC evaluates
them in every run.

* **AdoptionProofs.** `IInv` joins `TypeOK`, `ManagedIsConfirmed` and
  `CopiesAreCurrent` with what makes them inductive: a connected store, wherever
  it is (in the file, in the loop's copy, in a session's copy), is of a confirmed
  identity; a session that has loaded holds the mutex; the loop's copy is one it
  could send. Without the first, a session could write back a connected store
  nobody has confirmed. Lemmas about `Merge` (its type, that it forgets nothing,
  when its result is connected) carry the argument; the steps of the two writers
  are lemmas of their own. The two action properties follow from the same
  invariant.
* **HeartbeatProofs.** All of it is about the presence loop's `Spec`: every
  heartbeat takes steps of the schedule and a restart makes a new one, so the
  schedule's invariant is one of the loop. `SInv` adds `LoopBounds`, that every
  iteration of the doubling loop stays between interval and maximum (so that
  doubling cannot wrap), and `LatchHeld`, that a granted immediate delay leaves the
  latch set. Wrapping is handled by one lemma: whatever the product or sum wraps to
  is a duration, and the clamp does the rest. `LoopDoubles` adds for
  `BackoffIsExponential` that the iterations of the loop are the powers of two; that
  the recursive function `powerOfTwo` has the values its equation gives is proved
  from the least number of a set of naturals, since the library's induction cannot
  be instantiated here. `Forgotten` says what a loop that no controller has accepted
  yet holds, and with it goes that the clock's offset is the saturated difference.
  `StatusTellsTheTruth` is an action property, proved path by path of a heartbeat.
* **AtomicFileProofs.** `AInv` adds that what is visible has been synced and that
  the file holds something put in place since every unfinished rename. The
  refinement is proved step by step: creating, writing, syncing and closing are
  stutters or the start of a write, the rename is the register's replacement, the
  directory sync its acknowledgement.
* **InstanceProofs.** `GInv` adds that a guarded active process holds the lock,
  that a holder is in a phase that owns the guard, that a listener is serving, and
  that its key is loaded. `KInv` adds for the host key that what clients have seen
  is what the file holds and that a loaded key is the file's: two processes past the
  guard could each create one. `SessionsLive`, that the process of a session has not
  ended, gives `WriterIsGuarded`.
* **ConfigMigrationProofs.** About documents: after the rewrites of `MigrateData`
  none of them applies again, and each leaves what the daemon makes of a loadable
  document as it is; one lemma per rewrite says what it does to the fields the later
  ones look at. About files: `MInv` adds that what a run has read is a document, that
  a run that is about to replace the configuration has its own complete backup of
  what it read, and that a backup under way belongs to one run.
* **BridgeObserveProofs.** `BInv` adds that ports are the profile's until members
  are mapped, that free access ports are neither pinned nor the uplink port
  (`AccessIsFree`, the reason why pins stay reserved), that used ports show no
  synthetic link, and `OwnInterface`: until `Finish` the uplink port may show the
  configured uplink before it names it, and every other port only what it names.
  One lemma covers a port that takes a member's observation; the uplink and every
  other member are instances of it. For `EveryMemberIsShown` `EInv` counts: the
  members still to be mapped that fit are at most as many as the free access ports,
  so none of them finds the list of ports empty. That needs finitely many members
  (`BridgeAssumption`).
* **ListFold.** The code builds its tables by loops over lists of overrides,
  neighbours, frames and edges. Each is a recursive function over the turns of the
  loop; `FoldedSteps` proves that such a function exists and has the values its
  equation gives. Induction goes over a *set* of turns instead of a predicate
  (`TurnByTurn`), from the least element of a set of naturals, because the library's
  induction theorems take an operator the provers cannot instantiate.
* **PortReportProofs**, the tables and the topology. `PInv` says that the report on
  the wire was built in one heartbeat from a table with exactly one uplink, well-formed
  lists of neighbours and a resolution that did not fail, and that the installed
  configuration is one startup would accept.
  - One uplink: `BuildPorts` sets one marker, and one lemma for each layer (port map,
    bridge, overrides, probes, frames, neighbours, rates) says it leaves the marker
    alone. `GatewayTellsOneStory` and `DevicesAreToldOnce` then go table by table: with
    one uplink every rule for choosing a port has one answer.
  - The direction of a device: `DirectionInv` is the invariant of the loop of
    `resolveDirectionConflicts`. After k turns the remembered edge of an address is one
    of the first k with that address; every edge that goes is a heard one
    (`KeepsConfigured`); while a heard edge of the uplink stays, it is the remembered
    one and the other ports that heard its device have lost theirs (`KeepsOneWay`: with
    one uplink, the only pair of opposite directions); and the loop fails only on two
    configured edges of opposite directions, and without LLDP on any two
    (`FailsRightly`).
    `DevicesHaveOneDirection` and `ConfigurationWins` follow.
  - `HearingNeverFails`: startup validates the configured neighbours over bare ports,
    a heartbeat resolves what is heard as well, over ports with everything laid over
    them. The two tables are followed in lockstep (`SameConfigured`: the same
    configured neighbours on every port), a heard neighbour joins no list of configured
    ones, and what fails with heard neighbours has failed without them
    (`FailsWithout`). An import changes neither neighbours nor uplink neighbour, but
    may move the uplink; a restart validates again (`Install`).
  - That the configuration stays a well-formed one over imports (`ImportedPlan`) is
    itself about a loop: what `MergeOverrides` lists has one complete record per port
    (`MergedList`).

  `PlanAssumption` says what parsing gives: a configuration is a record of lists, its
  numbers are integers, its overrides are ones a file can hold, and `own` starts as
  the overrides. `ReportAssumption` says that there is a port. Nothing is assumed of
  lengths, of the ports that overrides name or of what they set: that is what
  `Valid` checks, as startup does.
* **PortReportProofs**, the ports. `ApplyPortOverrides` is followed for one port
  (`PortAfter`): turn by turn either the setters of one override or nothing. What
  comes after the overrides, probes, frames, neighbours and rates, leaves the facts of
  a port alone (`SameFacts`).
  - `OperatorWins`: after each turn the field is what the last override so far that
    speaks of it gives (`OverridesShow`); the interface that an override names and
    that was read in between fills only what the override leaves open (`Refreshed`).
  - `FactsCurrent`: the invariant of the loop (`hasFacts`) is that interface, address,
    counters and link come from the interfaces the configuration gives the port;
    overrides and port map entries bring nothing else (`bringsFacts`). A port with one
    source then shows that one.
  - `RootTraffic` adds `RatesShown`: the rates in a report are the tracker's of this
    heartbeat, of links that are up.
  - `ImportsKeepOperator`: `Imported` is kept by every import. After one, each port
    has one record, which holds the last value of the operator's own overrides for
    every field they give (`MergedField`) and the port's mapping for the others. An
    import over such a list gives such a list again, whatever OPNsense answers.
    `AddressesShown` bounds where the address of a port can come from in every mode,
    the bridge included.
* **PortReportProofs**, the rates. `RInv` adds what the tracker never sees: a counter
  that has not restarted is its sample plus what has moved since, and one that has is
  at most what has moved. A restarted counter that is above its sample again therefore
  gives too small a rate, never too large a one. `RatesReal` is about `RatesSpec`,
  the tracker fed by ports that show an interface with its own counters, in any
  wiring. `HeartbeatRatesReal` is about `ReportSpec`: the ports of a heartbeat do so
  while each has one source of facts (`OneSource`, the condition of
  `HostFactsAreCurrent`; a port with two may show the counters of one under the name
  of the other, see section 4). The last port of an interface exists because the port
  numbers are bounded (`RatesAssumption`), by the well-founded order of the naturals.

**Only model-checked**: the two liveness properties `AdoptingLeadsToConfirmation` and
`SSHCommandsAreServed` (fairness and ENABLED are out of the prover's reach). Every
other property of a passing run is a theorem. In the bridge modes the model leaves out
the values of the counters, so nothing is said of rates there.

## 6. Not modelled

* The ciphers, compression and HTTP: libraries. An exchange succeeds or fails as
  a whole until the codec has its module.
* JSON names, static fields and wording of the payload, packet and error counters,
  host statistics, the printed status, log lines and warnings.
* Read-only SSH commands and the shell syntax they are written in; an SSH server
  without a host key path (a key in memory, nothing to keep).
* What the operating system and the API of OPNsense report, by its spelling: input.
* Configuration files as text, and the precedence of flags, file and defaults:
  tables of settings.
* Power loss during a migration: the code does not sync and nothing says it does.
* The lab tool, packaging, scripts, static profile data.

## 7. Plan

1. Inform codec and client: the order of the checks of a packet, the retry with
   the other cipher, and its effect on the exchange that `Adoption` treats as one
   step; discovery announcements.
2. SSH command parsing: which text becomes which of `Adoption`'s commands.
3. Configuration layering: flags over file over defaults, as an operator checked
   against precedence.
4. Profile validation, the lab tool's polling.

Theorems to add: that `Adoption`'s three outcomes of a write are the ones
`AtomicRegister` allows.

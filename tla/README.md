# Verification of zapret-mac

TLA+ models of zapret-mac, a daemon that makes macOS pf hand selected packets
to user space, rewrites them and sends them on. The modules are written from
the Go code under `src/`; TLC checks them on small instances and TLAPS proves
the most important facts for every instance.

What makes this program hard to get right is not the rewriting of packets. It
runs as root and changes things that outlive it: rules in a pf anchor, a
counted reference on pf, lines in `/etc/pf.conf` and `/etc/hosts`. While its
rules are loaded and nobody reads the packets they divert, the machine is
offline. So the questions here are about order, ownership and what is left
behind: after a crash, after a failed step, when two goroutines stop the same
thing, when a command arrives while another is half done.

## 1. Inventory

### Parts and their state

| part | code | state it keeps | operations |
|---|---|---|---|
| daemon | `cmd/zapretd/daemon.go` | `enabled`, `wake`, `running`, `tr`, `sessionCancel`, the shared `PF`, journal, config | `Run`, `supervise`, `session`, `Start`, `Stop`, `Reload`, `Use`, `watchPF`, `cleanup`, `rollbackPrevious`, hosts/ipset/VPN/doctor verbs |
| instance lock, guard | `instance.go`, `guard.go` | the flock | `acquireInstanceLock`, `runGuard` (a launchd job at boot and at intervals) |
| pf | `internal/netcfg/pf.go` | token in memory, token file, anchor mode, last ruleset (`haveBase`), in the kernel: rules and references | `ResolveAnchor`, `EnsureAnchorStatements`, `Enable`, `LoadRules`, `Verify`, `FlushRules`, `Release`, `Close` |
| journal | `journal.go` | append-only file, its open handle, sequence number | `OpenJournal`, `Record`, `Rollback`, `Clear`, `ClearExcept` |
| hosts and pf.conf | `hosts.go`, `anchor.go` | marked blocks in system files, backups | `Apply`, `Remove`, `planPfConf`, `planPfConfRemoval` |
| divert transport | `internal/transport/divert/` | handles of pf, pflog, injector, observer; `running`, `closed`, `lifeMu` | `Start` (setup, run, teardown), `Close`, `Reload`; `handle`, `emitPlan` |
| proxy transport | `internal/transport/proxy/` | listeners, `/dev/pf` descriptor, undo stack, pool of relays, `closed` | `Start` (setup, serve), accept loops, `handle`, `splice`, `Close`, `Reload` |
| engine | `internal/engine/` | flow table, strategy generation, counters | `OnTCP`, `OnUDP`, `OnInbound`, `PlanStream`, `Reload`, `GC` |
| desync operators | `internal/desync/` | none: plan in, plan out | `Apply`, `Degrade` |
| lists | `internal/lists/` | host tree, prefix arrays, failure counters | `Match`, `Reload`, `Fail`, `Retrans`, `Flush` |
| control socket | `internal/ctl/` | socket file, open connections, context | `Listen`, `Serve`, `dispatch`, `Close`; the client |
| VPN | `internal/vpn/` | state file of stopped jobs | `Detect`, `Stop`, `Start` |
| diagnosis | `internal/diag/` | none but files it repairs | doctor, self-test, `Pick` |
| strategy files | `internal/strategy/` | none | load, parse, compile |
| protocols | `internal/proto/` | none | parse, classify, fragment, modify |
| tools | `cmd/zaprctl`, `cmd/batconv`, `internal/launchd`, `internal/pfvar` | none | command line, conversion, launchd jobs, one ioctl |

### How they interact

launchd starts the daemon and, separately, the guard. The daemon takes the
instance lock, undoes what the journal says a previous run left, prepares
pf.conf, opens the control socket and starts the supervisor and the pf watcher.
The supervisor runs one *session* at a time: it builds a transport, calls its
`Start` in a goroutine and waits. Control commands run in goroutines of their
own; they set `enabled`, wake the supervisor through a channel with one slot,
cancel the session and close the transport, and flush the anchor. All of them,
the transport and the watcher share one `netcfg.PF`; the guard and the next
daemon have their own, and share with it only the state directory and the
kernel.

### What is hard, and what correctness means

* **Crashes.** `kill -9` at any moment, then a guard or a new daemon. Correct:
  what is in the kernel can be found in the state directory and is undone; a
  record is not dropped before its change is.
* **Two processes.** A guard can start at any moment of a daemon's life.
  Correct: only the owner of the lock touches pf.
* **Stop against start.** A stop can come before, in and after each step of
  setup, and from several goroutines. Correct: nothing stays installed, and
  every stop ends.
* **Commands against the supervisor.** Fields are copied under a lock and used
  after it. Correct: no start is lost, a stop takes down what it finds, the
  daemon exits.
* **Other programs.** An OS update or a VPN reloads pf. Correct: the loss is
  noticed.

`PROJECT.json` lists each hazard at the line where it bites.

## 2. Modules

| module | models | explored by |
|---|---|---|
| `PfLifecycle` | daemons with their capability probe, guards, repairs, the kernel's pf and the state directory; refines `PfReference` | `MCStateDir`, `MCTeardown`, `MCPfLifecycle` |
| `PfReference` | the abstract life of one pf reference: free, held, recorded, lost | |
| `Journal` | the journal file and its open handles, with a torn tail | |
| `SystemFiles` | when `/etc/hosts` and `/etc/pf.conf` are patched, by the daemon, a hosts command, repair and uninstall; extends `Journal` | `MCStateDir`, which extends it and `MCPfLifecycle` |
| `DivertLifecycle` | one divert transport and the goroutines around it | `MCTeardown` |
| `ProxyLifecycle` | the proxy transports of one daemon, their closers and their relays | `MCTeardown` |
| `Supervisor` | the goroutines of one daemon around its transports; uses the contract of `DivertLifecycle` | `MCSupervisor` |
| `Engine` | the flow table, the choice of a profile and its two callers | `MCEngine` |
| `Desync` | the operations of a profile and `engine.run` as operators on plans | |
| `Emit` | the packet loop of the divert transport: from a plan to packets; extends `Desync` | `MCDatapath` |
| `Relay` | the relays of the proxy: from a plan to writes, two copiers, the pool; extends `Desync` | `MCDatapath` |
| `PfRules` | the rules of both transports, what pf makes of a packet, reloads | `MCInterfaces` |
| `PfConf` | the lines of `/etc/pf.conf` and `/etc/hosts` under patches and foreign edits | `MCInterfaces` |
| `Control` | the control socket: servers, connections, clients | `MCInterfaces` |
| `LogTail` | the ring of log lines, its subscribers and one follower | `MCInterfaces` |
| `AutoList` | a self-learning list on its label tree, and its file | `MCInterfaces` |
| `CidrSet` | prefixes that are sorted when next read, under a reload | `MCInterfaces` |
| `IpsetSwitch` | the list file and its backup that change places | `MCInterfaces`, by itself |
| `Interfaces` | what the seven parts above promise together; extends them | `MCInterfaces`, which extends it |
| `Activation` | `use` and `reload` beside the session that builds the datapath | `MCHost` |
| `StrategyLoad` | compiling a strategy file and its lists; extends `Desync` | `MCHost` |
| `Vpn` | stopping and starting VPN software | `MCHost` |
| `SelfTest`, `Measure` | a run of the connectivity probes; classes and scores | `MCHost` |
| `Autopick` | the sweep over strategies; extends `Measure` | `MCHost` |
| `Probe` | the capability probe of `zaprctl`: stages, cleanup stack, signal handler | `MCProbe` |
| `StateDir_proofs` | theorems about `PfLifecycle` and `SystemFiles` | |
| `Transports_proofs` | theorems about `DivertLifecycle` and `ProxyLifecycle` | |
| `Desync_proofs` | lemmas about every operation of `Desync`, and what the engine makes of a payload | |
| `Datapath_proofs` | theorems about `Emit` and `Relay`; extends `Desync_proofs` | |
| `Host_proofs` | theorems about `Activation`, `Vpn`, `SelfTest`, `Autopick` and `Probe` | |
| `Interfaces_proofs` | theorems about the parts of `Interfaces` | |
| `Daemon_proofs` | theorems about `Supervisor` and `StrategyLoad`; extends `Desync_proofs` | |
| `Engine_proofs` | theorems about `Engine` | |

`MCStateDir`, `MCTeardown`, `MCDatapath`, `MCHost` and `MCInterfaces` run their
parts side by side, not together: a constant variable `part` says which one
moves, and the others stay at one initial state. They EXTEND the modules of their
parts, whose variables and operators therefore have different names (`TypeOK` of
`PfLifecycle`, `DivertTypeOK`, `ProxyTypeOK`), so that a theorem about a component
and the run speak of the same formula; the two datapaths share the operators of
`Desync`. Where the parts meet in the
code, one of the modules models the other's contract: `Supervisor` that of a
transport, `PfLifecycle` that of the daemon, `Engine` what a learned host does,
`SystemFiles` that a file is patched, `PfConf` how.

**PfLifecycle.** `refs` and `rules` are the kernel: the references taken with
`pfctl -E` and the anchors that hold rules of ours. `journal` and `tokenFile`
are the state directory. A process (`Daemon`, `Guard` or `Repairer`) has a program
counter, its copy of the token and the anchor mode it resolved. Each pfctl call and each write to the state
directory is a step, because a SIGKILL can fall between any two. `PfctlFails`,
`DiskFails` and `ReadFails` switch the failures on. In pf.conf mode the anchor
is our own; in wildcard mode (`MainMode = "apple"`) it is a sub-anchor of
`com.apple/*`, and a `PF` that has not looked yet (`mode = "unresolved"`) addresses
the plain one. `DetectEnable` to `DetectRelease` are the steering experiment of
`diag.Detect`, between the preflight and the control socket: a `PF` of its own
(`probeTok`) that records nothing and resolves no mode, with a cleanup stack that
is drained whatever failed. `RepairStart` to `RepairClose` are what `doctor
--repair` does to pf, without the instance lock; its own look for a running daemon
is the premise that no daemon lives or starts meanwhile (`NoDaemon`, `NoRepair`).

**DivertLifecycle.** `handles` are the fields of the transport that are not
nil, `claimed[a]` what the teardown of goroutine `a` took over from them.
Setup is one action for each privileged step, `LeaveRun` and `RunDies` are the
two ways the read loop ends. A teardown flushes, releases and closes one after the
other; each of the three may fail, the error is collected, and the next one is
done all the same, as in the code: `refused` is the history of what pfctl or the
kernel would not undo. `steering = "stray"` are rules that a `Reload` loaded
after a teardown had taken the handles: `Reload` does not take `lifeMu`. The
safety properties speak of `"loaded"` rules and say so.

**ProxyLifecycle.** `tr` holds the fields of each `Transport` behind `t.mu`
(`undo` is its stack, a set because setup pushes in one fixed order, `Above`),
`dev` the sockets and descriptors the kernel keeps for it, `pf` what the shared
`netcfg.PF` has installed. `undoing[g][a]` are the steps that actor `a` popped in
`unwind` and has yet to run. Each step of `setup` is an action, `AbortProxy` is
what `Start` does when one fails; `CloseProxy` is the part under the lock,
`ProxyWaited` the end of `closeWait` and the taking of the stack. `Undo` and
`UndoFails` are one round of the loop in `unwind`. A connection walks through
`handle`: the descriptor is read (`ReadDescriptor`), pf asked after the lock is
given back (`AskPF`), the server dialled, the first payload planned, and then
the relay alternates between `busy` and `splice` as bytes move and the watchdog
ticks. `overtaken` and `stuck` are history: transports for which the code
leaves something behind, and steps whose undoing failed.

**Supervisor.** `spc` is the supervisor and the session it runs, `dp` the
goroutine that runs `Start`, `pc[a]` each goroutine that runs a command, the
watcher and the shutdown. A copy of `d.tr` or `d.sessionCancel` is the
membership in `hasTr` or `hasCancel`; copies that name a finished transport are
forgotten because using them has no effect.

**Journal** and **SystemFiles.** `records` is what the file's lines say, `torn`
whether the last one is cut, an open handle either still names the file or one
that a rewrite has replaced. A system file is our block (there or not) and a
version number of everything else; `main` says whether the kernel's main
ruleset names our anchor. Each patch is a `job` that goes through the steps of
`Apply`, `EnsureAnchorStatements` or `RemoveAnchorStatements`: backup, record,
write, verify, restore, reload. The rollback at start and a repair replay the
records one by one. A foreign edit or `pfctl -f`, a SIGKILL and a power loss can
come between any two steps.

**Engine.** `table` is the flow map and `obj` its entries by identity, since a
relay may still hold an entry that the map has lost. A profile is the data its
filter reads; `Picked`, `HostGatedBefore` and `AutoCandidate` are `pick` and its
two helpers, `Decide` is the body of `OnTCP`, `OnUDP` and `PlanStream` under the
entry's lock. `mode` is the transport: one datapath goroutine with TCP or UDP
packets (`Capture`, `Forwarded`), or relays (`Accept`, `FirstPayload`,
`Hangup`). `chain` keeps every strategy so far: its length is the generation, and
a handler goes on with the one it read.

**Desync** and **Emit**, **Relay**. A payload of n bytes is the sequence of its
places, so a byte that is lost, doubled or moved shows; a decoy, a filler, an
inserted record header and a rewritten byte are marked. Each operation is an
operator on a packet (`c`: length, protocol, where the host name lies, what the
transport can do) and the plan so far; `Run` applies those of a profile in the
order of their phases, under one of the policies for what the transport lacks.
`Emit` turns a plan into packets as `BuildPlan` does, with sequence numbers, ip
ids, TTL, fragments and the size that the link takes, and injects them one by
one; any may fail. `Relay` flattens the same plan to the writes of a stream,
with the TTL of the socket lowered for some of them, and then copies both
directions until each has ended, the watchdog strikes or the transport stops.

**PfRules** and **PfConf.** A rule is what it matches and what it does with it;
the first that matches decides on a packet that goes out (`Outward`), and what goes
out by lo0, forced there or meant for an address of this machine, comes in there
and may meet a redirection (`Redirected`). The rules of the proxy name no interface.
Setup, `Reload` and `syncTable` are actions, with
a pfctl call that fails. `PfConf` keeps a file as lines of a kind and an
author that the code does not see; patching and removal are `planPfConf`,
`planPfConfRemoval` and `Hosts.planLocked`, between them third parties insert and
delete lines, markers included, and cut the final newline.

**Control** and **LogTail.** A path names the inode of the daemon that bound it, so a
socket of a dead daemon can stay in the way. `life` is how far a daemon is,
`cl`, `got` the client's end of a connection, `sv`, `read` the server's, `job` the
handler that a timeout may leave behind. `LogTail` numbers the lines of the log
and follows one reader through snapshot, history and subscription.

**AutoList**, **CidrSet**, **IpsetSwitch.** `tree` is the label tree with the nodes
that end an entry, `hosts` the table of counters with its sweep; a turn is a
new engine, an edit of the file or a failed write. In `CidrSet` an address is a sequence
of bits, compared from the left (`Lower`), and the binary search is the one that is
written, between a `Match` that sorts under one lock and reads
under the next. `IpsetSwitch` takes the switch file by file, with a kill or a
failing write between two of them.

**Activation.** A strategy is a name and the version of its file, and has up to
six homes (the remembered name, `d.stratPath`, `d.strat`, the engine, the
transport, the rules of pf); each section of `build`, `Use`, `Reload` and
`Transport.Reload` that runs under one lock is an action. `calm` is history: no
command has met another one or a build.

**StrategyLoad.** A compile takes its looks at the disk one by one (is the file
there, has it an entry, read it) while a user saves another version. Windows are
merged as `mergePorts` does, operations are checked as the loader does and
tried on packets by `Desync`: what is accepted is compared with what it does.

**Vpn**, **SelfTest**, **Autopick**, **Probe.** `Vpn` is `Stop` and `Start` step by
step, with launchd that starts jobs again, another program that holds a route, a
look that fails and a crash of the daemon. `SelfTest` has a goroutine for each
probe with its stages, deadline and slot, and says who made it fail. `Autopick`
is `Pick` over a daemon that does, refuses, or does and loses the answer.
`Probe` has the ten stages with what each changes on the machine and pushes on
the cleanup stack, the second goroutine that drains it on a signal, and the
reader of the utun. The undo of the utun is its three steps (`StopReader`,
`AwaitReader`, `RunUndo`), between which a stage can run beside a signal.

## 3. Runs

| run | instance | shows |
|---|---|---|
| `engine` | one 4-tuple, the datapath or two relays, two hosts, five strategies with a hostlist, a window, a self-learning list, a protocol; one reload | a cached verdict is final, valid and never inherited by another connection or strategy; the fast path is earned |
| `datapath` | divert: ten packets against about 800 profiles of up to three operations, one injection that fails; proxy: three requests, two relays, a pool of one, a TTL that can be read or not | the server gets the payload once and in order, in packets the link takes and under ids no other plan uses; decoys lead and fall short; every relay ends |
| `probe` | root or not, each kind of main ruleset, one failing call, a panic, a signal | what a quiet run leaves (nothing) and says; no rule steers into a utun that is gone; a reader that the undo finds ends before the utun |
| `state_dir` | pf: two daemons, a guard, a repair, three tokens, two crashes, every failure; files: a daemon, a hosts command, a repair or uninstall, one foreign edit, one crash | a running datapath can always be undone from the state directory; every block of ours in a file has its record; no foreign edit a backup has seen is overwritten; a record is dropped with its change only; rules are served under a ruleset that names the anchor |
| `teardown` | divert: two closers, one reloader; proxy: two closers, one reloader, two clients, a pool of one; pf: one daemon, a guard, two crashes; steps may fail | no rules without a reader, unless pfctl refused to flush them, or without what the relays need; `Start` and `Close` leave nothing else and end; relays end with their peers' silence or a shutdown, nobody queues behind them; a clean exit leaves nothing, each reference follows `PfReference`, the guard removes what a dead daemon left |
| `sup_live` | one command of any kind, two candidates, a signal, a failure, a foreign flush | a datapath can always be told to stop, no wake-up lost, a clean exit, commands have their effect |
| `host` | strategies: two, one handler, two commands, one failure, one edit of a file; compile: 32 combinations of list files, windows, operations, one edit; VPN: two jobs, an application, two calls, one crash; self-test: three probes, two at a time; autopick: four strategies of which three are tried in two rounds | the last `use` is in force in every home of a strategy; a compiled filter means what its files say and an accepted operation does what was promised; what VPN stop took down is on record; every probe has a result, a sweep leaves the winner or what ran before |
| `interfaces` | socket: two daemons or two calls, kills; log: six lines, a ring of four, one follower; files: two lines, two foreign edits; rules: three windows, three ports, one failing call, three reloads; lists: three hosts, four reports; prefixes of two bits, one reader; ipset: four switches, two faults | a request is answered once, as done only when it is; the socket leads to the daemon that serves; no line of a log reader is skipped; a patch of a file applies, settles and comes out again; a transport gets its window and no packet of its own; lists hold what they were given |
| `pf_rollback` | two daemons, no failure | **violated**: the rollback at start flushes the plain anchor in wildcard mode and drops the record |
| `sup_stop` | one stop | **violated**: a stop during the build of a datapath does not prevent it |
| `repair_record` | two daemons, a guard, a repair, two crashes, no failure | **violated**: a repair drops the record of a live reference |
| `ipset_race` | two callers, no fault | **violated**: two `ipset` commands at once lose the real list |

A property of a composed run is the conjunction of what its part promises; the
conjuncts are named and explained in the module of the part, and nearly each of
them has a mutant of its own in `PROJECT.json` that breaks it.

| run | property | conjuncts |
|---|---|---|
| `engine` | `VerdictSound` | `VerdictFinal`, `NotSealedWhileLearning` |
| `datapath` | `PayloadArrives` | `Delivered`, `Sendable`, `IdsReserved` |
| | `DecoysDeceive` | `DecoysLead`, `FallsShort`, `NameCut` |
| | `RelaysFaithful` | `WrittenOnce`, `WritesCut`, `RealTTL`, `PoolExact` |
| `probe` | `ProbeCleansUp` | `TypeOK`, `QuietExitUndoes`, `Stage10Honest`, `NoRouteIntoNothing`, `OthersKept`, `ChangesPushed` |
| | `ProbeWindsUp` | `ClosedAfterReader`, `ProbeEnds` |
| `state_dir` | `FilesBacked` | `FilesTypeOK`, `ChangesRecorded`, `ServedIsLoaded` of `SystemFiles` |
| `teardown` | `NothingLeft` | `ReturnedMeansUndone`, `ClosedStaysDown` |
| | `ProxyUndoes` | `ProxyTypeOK`, `UndoneUnlessStuck`, `RulesBacked` of `ProxyLifecycle` |
| | `TokensAccounted` | `ReferenceSpec`, `TokenRecordKept` |
| | `TransportsEnd` | `StopCompletes`, `CloseCompletes`; `CancelReturns`, `NobodyQueues`, `SilentRelayEnds`, `ShutdownEndsRelays` |
| | `OrphansUndone` | `OrphanRulesFlushed`, `OrphanReferenceReleased` |
| `sup_live` | `CommandsTakeEffect` | `EnabledComesUp`, `StopTakesDown`, `ShutdownCompletes` |
| `host` | `LastWordHolds`, `CompiledAsWritten`, `StopRecords`, `VpnHonest`, `ProbesReported`, `PickLeaves`, `CommandsEnd` | see `Activation`, `Vpn`, `SelfTest`, `Autopick`, and `MCHost` for the second and the last |
| `interfaces` | `SocketServes`, `PatchesApply`, `ForeignKept`, `RulesSteer`, `ListsHold`, `ListsLearn`, `InterfacesProgress` | see `Interfaces` |

The type invariants of `PfLifecycle`, `Engine`, `Supervisor` and
`DivertLifecycle` are proved (section 5) and checked by no run of their own.

**Bounds.** They are the smallest with every interesting case: two daemons are a
killed one and its successor; a third token is never in use together with two
others; two crashes are one in the run and one in the recovery; two closers are
the session and a command, next to `Start`'s own teardown; two candidates are
the automatic choice of transport (divert, then proxy). In `sup_live` the
watcher and the shutdown are two more goroutines that compete with the command.

In the proxy part of `teardown`, two clients and a pool of one fill the pool and
refuse a connection; one transport with `Start`, the session and one more closer
has every order of setup and `Close`. A divert or proxy transport may stop for
good; the run lets it stutter when every actor has returned (`Finished`), so any
other standstill is reported as a deadlock.

In the files of `state_dir` one edit and one crash are enough for an edit on
either side of each step and a recovery; `Beside = FALSE` keeps repair and daemon
apart, as the check `DaemonRunning` in `Repair` is meant to. In `engine` two
entries are what one 4-tuple and two relays can use; two payloads make a hostname
known late, a retransmission and a port reused; the counters stop at 3, above
every window; the threshold of 2 retransmissions is the smallest that takes two.

In `datapath` a payload has up to 12 bytes, enough for a name with a middle, a
record header and cuts before, in and after them; the limits that are larger in
the code (the longest payload that is faked whole, the MTU, the repetitions) are
lowered to be passed by some of the packets. Three operations are a change that
is undone by a second and read by a third.

In `interfaces`, `Small` allows two connections or two daemons, not both: a
connection belongs to one daemon, so a second daemon matters for the socket's
path and a second call for the daemon's end. `MaxBlockLines` is 4 where the code
has 8, since our blocks have at most four lines; two foreign edits damage either
marker, or one twice. The reader of the log asks for the three lines that
`Latest` keeps of a ring of four, and the channel of two is overrun. The three
windows of `PfRules` have a TCP part, a UDP part or both; one failing pfctl call
and three reloads are a failure, its repetition and what comes after. Two labels,
one of them empty, make the cases of the tree; addresses of two bits make
prefixes of every nesting.

In `host`, one strategy has two versions and the other another window, which
makes a reload with a restart and one without. Two launchd jobs are one that
comes back and one that does not. The menu of four strategies has one that lacks
an operator and one that `MaxCandidates` leaves out.

**Fairness.** Weak fairness of each goroutine's steps: everything a goroutine
waits for in this code is bounded by a timer (pfctl's timeout, the poll
interval of the read loop, `shutdownGrace`, `datapathStopWait`, and in the proxy
`dialTimeout`, `firstPayloadTimeout`, `closeWait`, the watchdog's ticker) and the Go
scheduler is fair. Nobody has to send a command or a signal, nothing has to
fail; no peer of a relay has to send or hang up, and the session is the only
one that must close a proxy transport. For the guard, fairness is launchd's `StartInterval`. In
`interfaces` the goroutine of each connection, the reader of the log and the
sweep of the datapath that calls `Flush` run (all have deadlines or tickers); no
client has to read or hang up, since write and idle deadlines end its connection.
In `host` the session, the command under way, the compiler and the steps of
`Stop`, `Start` and `Pick` go on (every wait in them has a deadline and every
external tool returns); the network may never answer. In `probe` its three
goroutines are scheduled; no signal has to come.

## 4. What does not hold

Four runs are violated, each by a property that quotes the code's own words.

* `RecordKeptUntilReverted`: `rollbackPrevious` calls `FlushRules` on a `PF`
  whose mode is still unknown. In wildcard mode, the default on a stock system,
  that is the wrong anchor; pfctl succeeds on an empty one, and the record is
  dropped while the rules stay.
* `StopIsFinal`: `cancelSession` finds no `sessionCancel` while `build` runs.
  The session looks at the desired state only at its end.
* `TokenRecordKept` with a repair: `revertJournalStep` gives back the token of the
  token file, not that of the record, and takes no file for success. A daemon that is
  killed between the record and the file (`EnableRecord`, `EnableWrite`) leaves a
  record whose reference the repair drops unreleased. Guards and daemons alone keep
  every record (`TokensAccounted`).
* `RealListKept`: the list is the sentinel, the real one its backup. `ipset any` reads
  the mode `none` and goes on to write its empty list; `ipset loaded` renames the
  backup to the list in between, and the real list is overwritten.

More properties are stated and fail, but are checked by no run of their own.
Each is refuted by TLC when it is the only property of the configuration named;
"itself" is the module with its own specification and a cfg of its own.

| property | module, configuration | what the code does |
|---|---|---|
| `NeverUnread` | `MCTeardown`, `teardown.cfg` | teardown collects the error of a refused flush and goes on to close pflog (`divert.go:1132-1153`); `Start` drops that error when it unwinds its own setup (309, 322). The rules stay and nobody reads what they divert until `Stop`, `cleanup`, the next start or a guard flushes the anchor |
| `EveryAnchorFlushed` | `MCTeardown`, `teardown.cfg` | the probe of a starting daemon puts its rule into the plain anchor, in wildcard mode too (`caps.go:846-853`, 886). Killed there, it leaves a rule no guard looks for, and the next probe reads it as a running daemon's and skips its experiment |
| `QuicBlocked` | `MCInterfaces`, `interfaces.cfg` | `--block-quic` blocks nothing: only `SteerRules` renders the block of UDP/443, and it is called when there is no pflog interceptor but a utun. `setup` always opens pflog and nothing assigns `t.utun`; the proxy installs no UDP rule |
| `NothingLoops` | `MCInterfaces`, `interfaces.cfg` | the redirection of the proxy asks neither for a user nor for a packet that was routed to lo0 (`anchor.go:679`), only for a source that is not loopback: what the relay dials at another address of this machine comes back to the listener. The comment on `RedirOpts` says nothing else can reach it |
| `LeavesNothing` | `ProxyLifecycle` itself (`ProxySpec`), `Last = 1`, no connections | `setup` looks at `closed` once, before its first step (`proxy.go:305-307`, 321). A `Close` that lands later takes the stack as it is; setup pushes onto one nobody takes again |
| `ServingRedirects` | the same, `Last = 2` | the second of two `Close` calls returns nil while the first waits for relays (`proxy.go:745-750`); the session starts the next transport on the same anchor, and the first `Close` flushes its rules |
| `RetryRedirects` | `MCInterfaces`, `interfaces.cfg` | `Reload` stores the new strategy before it loads the rules (`proxy.go:672-694`). When pfctl refuses, the same `Reload` again sees no difference and reports success over the old rules |
| `LossNoticed` | `MCSupervisor`, `sup_stop.cfg` | `Stop` sees `d.running` false and flushes through the `PF` it shares with a datapath that has loaded since (`daemon.go:1788`); the snapshot `Verify` compares with is gone too, so `watchPF` (1393-1395) sees nothing wrong |
| `VerifiedIsLoaded` | `SystemFiles` itself (`FilesSpec`), no faults | `Verify` looks for the statements in `/etc/pf.conf`, not in the ruleset that is loaded (`pf.go:1369-1370`, 1408) |
| `RepairRemovesStatements` | the same | cleanup empties the journal and leaves the statements (`daemon.go:571-574`); `doctor --repair` follows the journal (`doctor.go:2113`) |
| `PatchKeepsOrder` | `PfConf` itself, `PfConfSpec`, `MaxLines = MaxForeign = 2` | with translation rules and no filter rules both statements go to the same place, the filter anchor in front of the translation rules of others (`anchor.go:243-246`), and pf refuses the file |
| `ExclusionsWin` | `MCEngine`, `engine.cfg` with `Strategies <- Excluding` | a verdict without a hostname is cached unless an earlier profile has an inclusion list (`engine.go:631-632`). The ClientHello of an excluded host is desynced when the SYN has matched |
| `FinalForProtocols` | `MCEngine`, `engine.cfg` | "no profile" is sealed while the protocol is not recognised yet: `hostGatedBefore` looks for lists of hosts only (`engine.go:631`), so a profile that waits for a protocol is not reached by a flow whose first payload does not show it |
| `SynOpens` | `MCDatapath`, `datapath.cfg` | `fakedsplit` and `fakeddisorder` plan segments for a SYN without payload as well (`op_fakedsplit.go:118`; `op_fake_test.go:1040` says nothing may be planned); the SYN is dropped and what is sent does not open the connection |
| `DataOrOriginal` | `MCDatapath`, `datapath.cfg` | the original is forwarded when nothing has been sent (`divert.go:934-939`). When the one segment with data fails after a decoy, neither goes out |
| `ProbeUndoes` | `MCProbe`, `probe.cfg` | a step is pushed after its change (`probe.go:644`, 724, 772): a signal in between runs the stack without it and exits (222). The head of the file promises otherwise (16) |
| `NeverClosedUnderReader` | `MCProbe`, `probe.cfg`, as a PROPERTY | the undo of the utun tests `stopRead`, waits and closes without a lock (`probe.go:665-672`): on a signal stage 6 can start the reader after the test or the wait, and the handle is closed under it |
| `InterruptedSaysSo` | `MCProbe`, `probe.cfg` | while the handler drains the stack, `cleanup` returns to the main goroutine at once, and a run that has finished its stages exits with 0; the comment on `exitInterrupted` says an interrupted probe must not look like a success (`probe.go:349-351`) |
| `CloseWaitsForHandlers` | `MCInterfaces`, `interfaces.cfg` | `dispatch` answers a timeout and leaves the handler running; `Close` waits for connections, not for handlers (`server.go:312`, 402) |
| `UseSticks` | `MCHost`, `host.cfg` | a `use` that comes while `build` holds the strategy it has read is answered well, and the build then installs the old one; `currentSpec` says `use` sticks (`daemon.go:1286-1289`) |
| `EmptyExcludesNothing` | `MCHost`, `host.cfg` | a list is dropped as empty when it has no entry. One with entries of which none parses is loaded as a set without members, which matches everything: as an exclusion it excludes all (comment on `dropEmptyLists`, `load.go`) |
| `StopIsReversible` | `MCHost`, `host.cfg` | each `vpn stop` writes a record of its own jobs over the former one: after a second, `vpn start` brings back less than was taken down (`vpn.go:22-24`) |
| `NotLeftHalfTested` | `MCHost`, `host.cfg` | a cancellation after the last candidate is not looked at; activating the winner fails with the cancelled context, and Pick returns without an error while the last candidate stays (`autopick.go:330-337`, 524) |

Some properties that hold carry a premise for what the code does not do:

* `RulesHaveReader` and `NothingLeft` (divert) except what pfctl refused to flush or
  release and the kernel to destroy (`refused`): no other step makes up for it before the next
  flush. `NeverUnread` above is the same without the exception.
* `SteersExactly` and `NoLoop` except the packets that the proxy's rules take
  without meaning to, those to another address of this machine (`OwnAddress`).
* `PayloadArrives` speaks of runs in which no injection failed; what happens
  otherwise is `DataOrOriginal` above.
* `TokensAccounted` and `CleanupUndoes` are checked without a repair, which
  `repair_record` is about; a repair at all moments without a daemon is in
  `state_dir`. One beside a daemon that is starting is in neither. `CleanupUndoes`
  says of the anchor that pf does not evaluate, and of references nobody knows, that
  they are clean before the first crash: a SIGKILL in the capability probe loses its
  unrecorded reference for good.
* `ClosedAfterReader` excepts a reader that stage 6 started beside a signal
  (`p.stop = "open"`); the other conjuncts of `ProbeCleansUp` are about runs without one.
* `RealTTL` speaks of a socket whose TTL could be read (`known`): when it cannot
  be, the relay goes on with that of its last decoy (`relay.go:523-532`).
* `ForeignKept` excepts a line that somebody has put between two markers that
  pair (`Tidy`): it goes with the block (`anchor.go:40-42`). The final newline is
  aside: an empty hosts file becomes one blank line.
* A `Reload` may load rules behind a teardown (`"stray"`), also after `cleanup`
  when the daemon exits, since `srv.Close` does not wait for a running command.
* A crash between `pfctl -E` and its record loses a reference (`"lost"` in
  `PfReference`). A daemon that is alive but has no datapath keeps the guard
  away from rules a previous one left.
* In `ProxyLifecycle`, `overtaken` excepts the transports that `LeavesNothing`
  is about and those for which a `Reload` loaded rules after `t.mu` was free and
  the undo step gone.
* In `SystemFiles`, `lost` excepts the record of a hosts command that is still
  running when cleanup empties the journal; `excused` excepts behaviours in
  which pfctl refused a load, or a third party loaded a ruleset. An
  uninstallation clears the journal even when a step before it failed; a restore
  after a failed verification can overwrite an edit made since the write.
* In `Engine`, a cutoff that passes on a provisional match puts the flow on the
  fast path before its hostname is known; relays that share a 4-tuple share the
  cached verdict (`beside` excepts them); a flow stays monitored after it has
  matched, and its retransmissions may then count twice.
* In `AutoList`, what was learned since the last sweep is lost when a new build
  replaces the engine (`daemon.go:551-553`) or a proxy exits, and a line the
  operator removes or adds comes back or goes with the next dirty `Flush`.
* In `Vpn`, jobs that were never loaded are recorded as stopped. In `Autopick`,
  an activation answered as failed may have taken effect, and `zaprctl` says
  "restored" when it was not; nobody else calls `use` during a sweep.

Seen in the code and held by no property: in wildcard mode the capability probe
loads its rule where pf does not look and so never proves that steering works
(`caps.go:886`); a repair flushes the plain anchor in that mode and reports it
empty (`doctor.go:2228-2250`); `OrigDst` uses the descriptor
after its lock (`natlook.go:72-74`, 96); two journal handles of one daemon
(`journal.go:367`); a repair beside a daemon that has not yet opened its socket
(`doctor.go:2120`); self-learning lists that arrive by `reload` are registered
nowhere (`daemon.go:1823`); a profile with `l7` behind one without is never
reached, as the later one is chosen at the SYN (`engine.go:683`), and
`l7=["unknown"]` never matches (`proto/types.go:40`); the raw injector emits no
IPv6 (`divert.go:679`); stage 7 of the probe says PASS when stage 6 failed
(`probe.go:1316`); a proxy ruleset with v4 and v6 merged is in an order pf
refuses, and falls back to IPv4.

## 5. Proofs

Every theorem is for any number of processes, goroutines, clients, tokens, hosts,
strategies, crashes and failures, from the named `ASSUME` of the modules (sets
that are disjoint, bounds that are naturals, windows within the ports, an uplink
that is not the VPN or `lo0`, a sweep whose candidates differ). TLC evaluates each
of them in the run of that component. Where a theorem needs more than that it says
so in its statement, and what it assumes there is what the code relies on.

The two transports and the daemon around them:

* `Transports_proofs`, the divert transport: `NoBlackHole`, `StartUndoes`,
  `CloseIsFinal`, and from the last two `DivertLeavesNothing`, which the run checks
  (`NothingLeft`). Each step of setup and teardown may fail in them. The inductive
  invariant says who holds `lifeMu` (`LockHeld`),
  that a teardown leaves no handle behind (`Claims`), that whatever is installed
  is named by a handle or a claim that is still to be undone, or was refused when it
  was undone (`Owned`), the
  order of setup and that nothing can be installed after a return (`Settled`).
* `Transports_proofs`, the proxy: `CloseUndoes` (`UndoneUnlessStuck`). What is installed
  is covered by an undo step on a stack or in somebody's hands (`Covered`). That
  alone does not bring it down; `Held` adds that only who is in `unwind` has steps
  in hand, and that the stack of a closed transport is empty, awaited by its
  `Close`, or overtaken. `RulesStayBacked` (`RulesBacked`) and with it
  `ProxyLeavesNothing` (all of `ProxyUndoes`) assume `[]Apart`: no transport is set
  up while another goroutine still closes an earlier one. Two that overlap share
  the reference, and the unwinding of one takes it from the other; that is what
  `ServingRedirects` (section 4) fails on. One transport is always apart
  (`OneIsApart`), which is the instance of the run. For the rest, a stack has its
  steps in the order of setup and belongs to one actor (`Sane`).
* `Daemon_proofs`, the supervisor: `TypeCorrect`, `AlwaysStoppable`, `WakeupKept`,
  `LeavesNothing`. The invariant ties the session's phase to the existence of a
  datapath (`Phases`), keeps its cancel function registered (`Registered`), and
  orders the shutdown (`ShutdownOrder`).

What outlives the daemon, `StateDir_proofs`:

* `TypeCorrect`; `Recoverable` (`RunningIsRecoverable`). The invariant alone is
  not inductive: it needs that the lock has one owner, that a process past the
  lock is that owner, and that at each step of `Enable` the token in memory is a
  live reference; the probe's token is one too (`ProbeOrder`), and no repair runs
  beside a daemon (`RepairAlone`), by the guards of the two. `Implements` maps each step to a step of `PfReference` or a
  stutter, under the hypothesis that pfctl and the reading of the journal do not
  fail and nobody repairs (`Faultless`; with failing calls a reference may be lost
  without a crash, and a repair drops records).
  Under the same hypothesis, which the run's instance meets, `CleanExit`
  (`CleanupUndoes`) and `AllAccounted` (`TokensAccounted`): what is live in the
  journal is what a rollback has still to release or the daemon holds
  (`JournalSettled`), all rules pf evaluates are in the anchor a daemon
  knows after its preflight, the probe's in the plain one (`AnchorKnown`), before a
  crash every reference is one that a process has in hand (`InHand`), and each step of cleanup has done its part
  (`CleanedSoFar`); so neither of the two writes that shrink the journal forgets a
  live reference.
* `FilesAlways`, `EditsSurvive` (`EditsKept`), `ChangesAreBacked` (`FilesBacked`)
  and `DropsAreReverts` (`DropMeansReverted`) of `SystemFiles`, with every fault.
  `FilesInv` keeps the patches of one file from meeting (`Apartness`), says of each
  step of a patch what its backup and the file have in common (`Patched`,
  `Versions`), that a rollback knows what the journal says (`Replays`), that a
  block of ours has its record before the file has the block (`Recording`), and
  which ruleset a daemon has loaded (`Loading`). All of it but the types is for
  `~Beside`: no repair or uninstallation beside a starting daemon.

The choice of what to do with a packet, `Engine_proofs`, for any strategies:

* `TypeCorrect`, `IndexValid`, `FastPathJustified`. What must hold of one entry
  (`Sound`) is proved of each operator that builds the next one, in the order
  `Decide` applies them; the actions then only have to keep the strategy a
  handler works with among those that were active (`Snaps`).
* `NothingInherited` (`RunsWhatWasShown`): the profile a packet is given is one
  that the strategy its handler read chooses for names this connection has shown.
  `Faithful` says it of what a handler has decided, `Earned` of what an entry has
  cached, and both survive the eviction and the reuse of a port.
* `NeverSealedWhileLearning` for every strategy, and `VerdictsStay` (all of
  `VerdictSound`) for those that satisfy `Settles`: where a profile has an exclusion
  list, that profile or an earlier one for the same flows has an inclusion list and
  waits for no protocol, or for every one the first may wait for; each self-learning
  list has one learner. Profiles may wait for a protocol, as nearly all shipped strategies
  have some that do: 20 of the 22 satisfy `Settles`, `cloud-gaming.toml` and
  `general-exp.toml` do not. `MCEngine` assumes it of the strategies of the run
  (`PlainSettles`), one of which has two profiles for a protocol; for others
  `ExclusionsWin` (section 4) refutes it.

What becomes of a payload, `Desync_proofs` and `Datapath_proofs`, for every packet
of the context, every profile (operations in any number and order, any parameters,
any policy for what a transport cannot do) and all the limits of the packages:

* `PlanHoldsPayload`. Chains of operations cannot be taken one by one, since each
  works on what the one before has left: it cuts a part again, reverses the parts,
  puts decoys between them, writes the payload anew. What they all keep is that the
  data of a plan are a tiling (`Tiling`): in some order, each part carries what lies
  between two bounds, perhaps above fillers that lie below them and above where the
  part before begins. What is tiled is a form of the payload (`Form`): a tamper and
  a split of the TLS record change bytes and add some, but the bytes of the request
  stay, once and in order, and as the receiver reads them. A plan is `Lawful` when its
  data are such a tiling; each operation keeps that, also one that degrades or is
  left out (`StepLawful`), so the profile does, by induction on its operations.
* `PlansTileHolds` (`PlansTile`) follows: the check before building never fails.
* `PayloadArrivesHolds` (`PayloadArrives`). The packets of a plan are its units in
  order, each as often as it is sent and in at most two packets (`Emitting`); the
  fragments of one are within the MTU and are it again. A receiver that takes parts in any
  order of arrival has what was tiled once the last has come. `DatapathInv`
  says that what was injected is a beginning of what the plan makes (`Firstly`), what
  waits is the rest of it (`Rest`), and what was forwarded is the packet itself.
* `DecoysDeceiveHolds` (`DecoysDeceive`). Decoys lead: the operations that fake run
  before those that cut, and a cut takes over the data only. A cut inside the name
  stays, because every later operation moves bounds and joins no parts. A measured TTL
  is below the distance or at its least value, by arithmetic of `uint8` and `int8`.
* `RelaysFaithfulHolds` (`RelaysFaithful`), for any number of clients. `RelayInv`
  says that what a relay has written and the pieces it has left are one stream that
  is the request (`Writing`), that after each piece the TTL is what the socket had
  if that could be read, and that the slots are the relays that live (`Pooled`).

What a strategy file is compiled to, `Daemon_proofs`, for any file, any lists and
any number of edits while the compiler reads them:

* `CompiledAsWrittenHolds` (`CompiledAsWritten`), in three parts. Lists: `LoadInv`
  says at every look at the disk what the names still kept, the set that is being
  filled and the sets in the cache have of the files. It speaks of two things side
  by side: of the entries that a file had all the time, which survive any edit, and
  of all its entries, as long as nobody has edited (`Left`, `FilledFrom`,
  `FilterRight`). Ports: the sort puts no range before one that begins sooner
  (`RanksFollow`), and merging one more that begins no sooner than the last keeps
  the ranges apart and covers what both did (`MergeIs`), hence all of them do
  (`MergePortsIs`). Operations: where the positions are numbers in order the first
  cut is the first of the file (`PositionsResolved`), so an overlap that passed
  `seqovl` fits before it and the unit that carries it is in the plan
  (`AcceptedOverlaps`); and an operation that does not rewrite the payload reads of
  the capabilities no more than whether the transport controls the sequence numbers,
  and that only for an overlap (`ApplyFixed`), which is what `ParamDegradations`
  reports. The theorem is about
  packets of at most `MaxFake` bytes that stay within `MaxSeg` with the overlap:
  a longer one the operations leave whole (`Long`).

What the daemon shares with others, `Interfaces_proofs`:

* `SocketServesAlways` (`SocketServes`), when the daemons use one data directory,
  as they do under one launchd label (`OneDataDir`; a daemon with another one takes
  the path over). `ControlInv` orders, for each connection, what the server has
  written, what the client has read and how far the handler is; `TailInv` has a
  line number up to which the reader has its history (`Delivery`) and says that
  the ring, the channel and what is pending continue from there.
* `RulesSteerAlways` (`RulesSteer`), with the exception of `OwnAddress`: pf holds nothing or what it accepted of the
  rules of one strategy, of the current one if no call failed (`RulesInv`). What a
  sequence of rules does to a packet is reduced to the first that matches
  (`VerdictFacts`), what a merge keeps to a set (`KeptFacts`).
* `ListsHoldAlways` (`ListsHold`), with one `ipset` command at a time (`OneCaller`,
  without which `ipset_race` refutes it), and `ListsLearnAlways` (`ListsLearn`).
  `AutoListInv`: the tree has the prefixes of its entries and no others, the
  failures an entry counts are the newest of its host and none is older than its
  window (`Backed`). `CidrInv`: the slice holds what was put in, in order when it
  says so; then the bisection finds what a scan finds (`LowerBoundFacts`).
  `SwitchInv`: what a command read is still so when it acts (`Informed`); also
  `ListSurvives` (`RealListKept`).
* `PatchesApplyAlways` (`PatchesApply`) and `ForeignLinesStay` (`ForeignKept`), for
  files of any length, any number of foreign edits and any reach of at least three
  lines for the closing marker. `PatchInv` says that only lines of ours can be
  markers or statements (`Known`), that a second patch changes nothing, and that what
  stripping leaves of the file is what it left of the one others wrote (`StillThere`).
  The work is in the operators: a block put into a file without our lines comes
  out whole and nothing else does (`StripPut`), hence patching twice is patching once
  (`PlanFacts`, `HostsFacts`); where the insertion points lie decides what precedes
  the anchors and whether pf's order holds (`PlacedFirst`); and the lines of others
  in two parts put together are those of the one and of the other (`ForeignJoined`).

What starts, tries and stops things, `Host_proofs`:

* `ActivationTyped`, `LastWordStays` (`LastWordHolds`). A command that met nobody
  leaves every home of a strategy as it named it; the invariant says what each step
  of a command, a build and a session has already put where (`ActPlaces`).
* `StopsAreRecorded` (`StopRecords`), `AnswersAreHonest` (`VpnHonest`): at each
  step of `Stop` and `Start`, what has been unloaded is in hand or in the file
  (`VpnRecords`), and the last look is still the one the answer speaks of.
* `RunsReport` (`ProbesReported`): the slots are the probes under way (`Flight`), a
  probe only passes through stages of its kind (`OnRoute`), and what is blamed on
  the strategy is a stage that the path can break (`Blamed`).
* `PicksRight` (`PickLeaves`): where the loop over candidates and rounds is, what
  has been measured (`Past`), which result is the best so far (`Standing`) and which
  strategy is active for what reason (`InForce`).
* `CleansUp` (`ProbeCleansUp`): without a signal what was changed is on the stack or
  being undone (`Pushed`), and the utun lies below every rule that leads into it
  (`Layered`).

Data whose length is a parameter needs induction, and the library's induction
theorems take an operator that no installed prover can instantiate. The proofs
about sequences, trees and the bisection go by the least counterexample instead:
a set of naturals that is not empty has a least member (`WFMin` of
`WellFoundedInduction`), and a recursive function is its defining equation at that
member. `CidrSet`, `PfRules`, `Autopick` and `StrategyLoad` recurse by functions for that reason.

Only checked by TLC:

* every liveness property (`TransportsEnd`, `CommandsTakeEffect`, `DriftRepaired`,
  `CommandsEnd`, `InterfacesProgress`, `OrphansUndone`, `RelaysEnd`, `ProbeWindsUp`
  for its liveness half): the provers do not handle fairness and ENABLED.

## 6. Plan

The model is complete as planned, and every safety property of a passing run is
stated by a theorem. What is left is what the provers cannot do (liveness) and what
section 7 leaves out.

## 7. Not modelled

Bytes of packets and records (parsers of TLS, HTTP, QUIC, STUN and the like,
checksums): `Desync` takes from them where a name lies and how long a payload
is. Routes, interfaces and the DNS cache are single calls whose results
the models choose. The ABI of the pf ioctls, the text of launchd plists,
installation and the copies it makes. `batconv`, a pure translation of text.
Argument parsing and printing of `zaprctl` and `zapretd`, decoding of YAML, the
counters of the engine's statistics. Of `diag.Detect` the steering experiment is in
`PfLifecycle`; the utun, the BPF and raw sockets it opens vanish with its process and
are left out. What the doctor repairs is in `SystemFiles` (files, journal) and
`PfLifecycle` (reference, anchor); its other checks only read and print. A repair
beside a daemon that is starting is in `SystemFiles` only (`Beside`).

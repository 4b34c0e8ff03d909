# Verification of teploy-sandbox

TLA+ models of the sandbox daemon (leases, runs, the warm cache, snapshots,
egress proxies and their allowlist, execs and their streams), the TLC runs that
check them on small instances, and TLAPS proofs that their safety properties
hold for every instance.

teploy-sandbox runs isolated, short-lived environments ("runs") on one box. A
single Go process serves an HTTP API, keeps every run in memory, drives Docker
through its CLI, and keeps a cache of repository templates on disk. What is
hard about it is not computation but concurrency: every handler is a goroutine,
the registry's mutex is given up for every Docker call, the cache works on the
file system without any lock but the one around its in-use marks, and the
process can be drained, killed and restarted at any point.

## Inventory

| Component | Source | State | Operations | Talks to |
|---|---|---|---|---|
| Writable lease | `internal/run/lease.go` | per run: `Lease`, `leaseGen`, `execs` | `AcquireLease`, `RenewLease`, `ReleaseLease`, `BeginExec`, `ExecSession.Exec`/`Abandon`, `WriteFile`, `finishExec` | registry (same mutex), runtime |
| Run registry, reaper | `internal/run/manager.go` | `m.runs`, `ExpiresAt` | `Create`, `Get`, `List`, `Destroy`, `Reap`, `StartReaper`, `DestroyAll` | runtime, cache, egress pool |
| Shutdown and start | `internal/server/server.go`, `main.go` | the process | `Serve`, `shutdown`, startup sweep | registry, runtime |
| Warm templates | `internal/run/cache.go` | `manifest.json`, `g-*` directories, in-use marks | `Boot`, `Commit`, `cleanGenerations`, `Drop`, `Sweep` | file system |
| Run volumes | `internal/run/cache.go`, `manager.go` | `<root>/runs/<id>`, in-use marks | `Boot`, `BootEmpty`, `Release`, `CommitWarm` | registry |
| Container runtime | `internal/run/runtime.go` | containers | `Create`, `Remove`, `Exec`, `WriteFile`, `ReadFile`, `SweepOrphans` | docker CLI |
| Snapshots | `internal/run/runtime.go`, `manager.go` | images; temp dirs, seed containers and staging images while a call lasts | `Snapshot`, `SeedVolume`, `DeleteSnapshot`, restores in `Create` | docker CLI, run volumes |
| Egress pool, tunnels | `internal/egress/pool.go`, `proxy.go` | listeners per run, hijacked connections, a WaitGroup per proxy | `Start`, `OpenFor`, `Close`, `Shutdown`, `tunnel`, `CloseTunnels` | registry |
| Egress allowlist | `internal/egress/proxy.go` | none | `ValidateEntry`, `Permits`, `SuggestEntry` | pool, create |
| HTTP API, SSE | `internal/server/server.go` | per stream: a mutex and the first write error | handlers, `sseWriter` | registry, runtime |
| Validation, ULID, set-up | `manager.go`, `cache.go`, `ulid.go`, `main.go` | none | pure functions, run once | |

What makes each correct, and what is hard about it:

* **Lease.** A credential admits nothing after its lease; while a lease is
  active only its holder's commands run; a run changes hands between commands.
  Hard: leases lapse silently under commands in flight; the run may leave the
  registry and come back while a command holds a slot.
* **Registry.** Every run dies at its deadline, by one of Destroy and Reap, and
  what it held outside the registry dies with it. Hard: the mutex is dropped for
  the container removal, which may fail; four things can release a volume.
* **Shutdown and start.** No container is lost across daemon lives. Hard:
  neither the reaper nor handlers that outlast the drain are waited for.
* **Templates.** A boot gets a complete generation or none; what is published
  stays readable; nothing in use is deleted. Hard: every check and its use are
  separate file system calls.
* **Snapshots.** A snapshot is the run's workspace, a restore is the snapshot,
  and nothing made on the way stays behind. Hard: `docker commit` skips mounts,
  so that a warm run takes seven docker calls, each of which can fail, or be killed
  by the client's disconnect, while the run is written to, reaped or destroyed.
* **Exec and its stream.** Frames are whole and in order, the exit frame is last
  and true, every exec is answered. Hard: two copying goroutines and the handler
  share a writer that may fail or block; the command has a watchdog, the CLI has
  a context, and either can be the one that ends it.
* **Pool.** No listener is lost, no tunnel is made through a closed one, closing
  waits for the tunnels and comes to an end. Hard: a hijacked connection belongs
  to nobody until it is registered, and a WaitGroup that is waited on is reused.
* **Allowlist and limits.** A run reaches what is listed and nothing else; what is
  accepted works; a denial names a remedy that is one. Hard: three grammars
  (what is accepted, what is matched, what is suggested) over the same text.

`PROJECT.json` lists the hazards one by one, each at its line, with the
properties that cover it.

## Modules

| Module | Models |
|---|---|
| `ExclusiveWriter` | abstract: what the lease promises, with no clock, deadline or counter |
| `WritableLease` | `lease.go` and the part of the registry it depends on; refines `ExclusiveWriter` |
| `WritableLeaseProofs` | theorems about `WritableLease` and their proofs |
| `RunLifecycle` | `manager.go`: Create to removal, with shutdown, crash and restart |
| `RunLifecycleProofs` | theorems about `RunLifecycle` and their proofs |
| `WarmCache` | `cache.go`: the template of one repo |
| `WarmCacheProofs` | theorems about `WarmCache` and their proofs |
| `Snapshots` | `Snapshot`, `SeedVolume`, `DeleteSnapshot` and restores, docker call by docker call |
| `SnapshotsProofs` | theorems about `Snapshots` and their proofs |
| `Exec` | `handleExec`, `sseWriter` and `DockerRuntime.Exec`: one exec from its admission to its exit frame |
| `ExecProofs` | theorems about `Exec` and their proofs |
| `EgressPool` | `pool.go` and the CONNECT tunnels of `proxy.go` |
| `EgressPoolProofs` | theorems about `EgressPool` and their proofs |
| `Allowlist` | `ValidateEntry`, `Permits`, `SuggestEntry` as operators, beside what the documentation says of an entry |
| `Requests` | composes `Allowlist` and `Durations`: a caller against the limits of `Create`, `AcquireLease` and the proxy |
| `RequestsProofs` | theorems about `Requests`, with lemmas about the operators of `Allowlist` |
| `Durations` | `time.Duration`: arithmetic that wraps |
| `DurationsProofs` | lemmas about it, for any width and unit |
| `MC*` | the sets, texts and symmetries that TLC uses |

In every module a critical section of a mutex is one action, and so is every
call that leaves it (to Docker, to the file system): a handler is the sequence
of its actions, and its program counter is part of the state. A request the code
refuses changes nothing and is no step. The operators named "Mutant of ..." are
deliberate faults, used to confirm that a property can fail; no specification
uses them.

### WritableLease

`life` says where a run is: `tracked` (in `m.runs`), `removing` (taken out by a
Destroy that waits for Docker and may put it back), `gone`. `sessions` holds the
exec or write each handler has in hand, from its admission to `finishExec`; the
two are the actions around the runtime call of `ExecSession.Exec` and
`WriteFile`. `orphans` are commands whose docker CLI died: `Exec` uses
`CommandContext`, which kills the CLI and not the command. The clock is global
and monotone; `RenewLease` and `Reap` read it at another moment than they act,
and their actions say so. Session and run ids are never reused, so that a
handler that still holds a run id after its run died finds nothing.

### RunLifecycle

`creating`, `destroying`, `condemned`/`closing`/`reaping`, `commits` and
`doomed`/`cleaner` are the program counters of Create, Destroy, Reap, CommitWarm
and DestroyAll. `containers`, `volumes` and `proxies` are what a run owns
outside the registry; the first two survive the process. Docker calls fail at
any time (`Fault`), and then their effect may have happened all the same. A
failing disk is in the model where the code has an error path for it. The drain
of a shutdown may end while handlers run; the process then exits with them
unfinished. A `docker run` whose CLI was killed, or whose daemon is gone, is
`pending`: the engine may finish it at any time later (`EngineMakes`), after the
sweep of the next daemon as well. `daemon = "down"` and `Restart` are the next
life of the daemon.

Release of a volume, close of the proxy and removal of the container are steps of
their own, in the order of each handler. `Releases` drops the error of
`os.RemoveAll`, as `CacheStore.Release` does. Two history variables say what has
been given up: `leftover`, the volumes whose removal failed (or that a late `docker
run` made anew), and `strays`, the containers that Create or Reap failed to remove,
or that came late, since the last sweep that worked. A failed Destroy adds nothing
to them, because the run comes back.

### WarmCache

One repo; repos share only the mutex. A tree is a set of parts (two suffice to
be incomplete). `copyTree` reads a directory once and then copies what it has
listed, so that a part deleted after the listing is an error and a part deleted
before it is not noticed. `os.RemoveAll`, by Drop and Sweep, deletes part by
part in any order; the cleaners rename first, which is atomic. `inUse` is the
mark counter; `Drop` holds its mutex over the whole deletion, `Sweep` does not.
What is committed is taken from a complete run volume that nobody writes to.

### Snapshots

A tree is a set of files; those under the mount point are `WorkFiles`. `layer` is
what the container itself holds, `volume` what is mounted over it, `View` what a
command sees: a snapshot has to turn the second into the first, and a restore
the first into the second. `call` is the program counter of the `Snapshot` call
that makes an image, `run` that of `Create` with its `SeedVolume`, of Destroy
(whose removal of the container comes first) and of Reap (which removes the volume
first, file by file, while the container runs). A docker command that
fails, or is killed by a disconnect, may have had its effect; clean-up calls run
under the same context and may fail as well. `seen` and `kept` are history: what
the run had at some moment of the call, and at every moment.

### Exec

Output is counted in chunks, which the command writes, the CLI relays, a copying
goroutine reads and frames; a frame is three writes, made with the mutex in hand,
and each of them may fail once the client is gone. `ctx`, `cli` and `command` are
apart because they end apart: the context by the deadline or by the disconnect,
the CLI by its command, by the context or by a closed pipe, the command by itself,
by the watchdog or with its container. `WritesEnv` and `EnvFails` are the temp
file for the environment. Admission and the release of the slot are in
`WritableLease`; the exec that this module follows is what lies between them.

### EgressPool

`handler` follows one connection through `ServeHTTP` and `tunnel`: dialed,
hijacked, registered, one copying goroutine started, then the other. `proc` are
the goroutines inside `OpenFor`, `Close` (as called by Destroy or Create's error
path, or by the reaper) and `Shutdown`. `CloseTunnels` is three steps: the range
over the registered tunnels, the look at the WaitGroup's counter, and the return
from `Wait`, between which tunnels come and go. A WaitGroup that is reused before
`Wait` has returned panics: `HandlerPanics` is recovered by net/http and leaves
the listener, or `OpenFor`'s mutex, as it was; `DaemonPanics` is not. A copying
goroutine waits for one side at a time: in a read, or, when it is in `stuck`, in a
write that its peer does not take. Only the side it waits for can end it, so that
one which is blocked in a write to the upstream does not notice the end of its
container.

### Allowlist and Requests

A text is a host (a sequence of labels, where a leading or trailing dot is an
empty one), whether it has brackets, and a port with its spelling; `Splits` is
`net.SplitHostPort`. `Matches` is what `Permits` does with an entry, `Admits` what
the documentation says of it. `Mute` and `Remediable` name the texts on which
they differ, so that the properties say exactly where the code keeps its word.
`Requests` plays a caller against them: entries it may spell in any way, requests
of the run, and retries with the entry a denial named. Lifetimes are in there
because they are the other limit that `Create` compares.

## Runs

| Run | Shows |
|---|---|
| `lease` | the fence over time (`FencedSessions`), no takeover over a command in flight (`TakeoverBetweenExecs`), dead credentials stay dead (`DeadCredentialsStayDead`), the counter never too small (`CountCoversInFlight`), the invariant the proofs use (`LeaseInv`), and the refinement of `ExclusiveWriter` (`ImplementsExclusiveWriter`) |
| `lifecycle` | one keeper per run (`OneKeeper`); no error path, retry or race leaves a proxy behind, or a volume that nobody tried to remove (`ForgottenRunsHoldNothing`); a Destroy that failed left the proxy (`TrackedRunsKeepTheirProxy`); across failed removals, shutdowns, crashes and restarts every container is known to the daemon, but for those that Create or Reap gave up or that came late (`ContainersAreKnown`); the invariant the proofs use (`LifeInv`) |
| `lifecycle_deadlines` | every registered run comes to its end with its container, volume and proxy, unless the reaper, or the run's own Destroy, waits for ever for a tunnel (`DeadlinesAreHonoured`) |
| `cache` | marks balance (`MarksAreOwned`), what is published is whole (`PublishedIsWhole`), warm boots are complete (`WarmBootsAreComplete`), under two commits, their cleaners and a crash |
| `cache_removers` | cold boots are empty (`ColdBootsAreEmpty`) with Drop and Sweep at work, and a boot ends, whoever deletes under it (`BootsEnd`) |
| `snapshots` | a snapshot holds what the run held throughout, unless the reaper was emptying the volume (`SnapshotsCarryTheWorkspace`); a restore is the snapshot, file by file (`RestoresAreExact`); nothing temporary stays, on any error path (`NothingTemporaryIsLeft`) |
| `exec` | frames do not mix and nothing follows a failed write (`FramesAreWhole`); the exit frame is last and, with a status, all output is before it (`ExitFramesCloseTheStream`); what it says is so (`AnswersAreTrue`); timeouts are not early (`TimeoutsAreLate`); every exec is answered (`ExecsReturn`) |
| `egress` | no listener is lost (`ListenersAreRegistered`); the WaitGroup counts what runs (`CountsAreExact`) and `CloseTunnels` waits for it (`CloseTunnelsWaits`); a dial that outlasts `Close` makes no tunnel (`NoTunnelThroughClosedDoor`); sockets of dead containers are closed, unless an upstream takes nothing any more (`DeadRunsLetGo`); closing ends, or waits for a tunnel it has missed and that is held open (`ClosesEnd`) |
| `requests` | nothing is reached that is not listed (`OnlyWhatIsListed`), what is accepted works (`AcceptedEntriesWork`), the remedy of a denial is one (`RemediesWork`), lifetimes are those asked for (`LifetimesAreAsAsked`) |

`lease_orphans`, `cache_clean` and `snapshots_twice` are expected to be violated:
they are the findings below. Every property of the other runs has been seen to
fail when the code is broken in a plausible way; the operators that break it are
the "Mutant of ..." definitions.

**Bounds.** The lease runs use one run (runs share no lease state, and the
proofs need no such bound), two owners, two handlers, lifetimes of 1 and 2, a
clock of 0 to 3, two grants; `ExecBound` leaves room for a slot lost in a failed
Destroy beside a command in flight. The shortest counterexamples of the mutants
and of the findings lie well inside. The lifecycle runs use two runs (Reap's
loop, DestroyAll's list), one committer, one failing call, and a clock of 0 and 1,
so that every run expires. `lifecycle` has two crashes or shutdowns, so that there is
a daemon between them; `lifecycle_deadlines` has none, because a daemon that dies
honours no deadline. Failures of `os.RemoveAll` and late containers are not
bounded, beyond one late container for a `docker run`. The cache runs use two or three generations: one published, one
superseding it, one more to supersede that; two committers are two cleaners; one
goroutine makes the Drop and Sweep calls, one call after another. The snapshot
runs use two images and two runs, so that a restored run is snapshotted again,
one workspace file (files do not interact), and one fault, at any call: a
failed docker command, a disconnect or a crash. The exec run counts in thirds of a
second (`Unit`) and lets a Duration hold less than 16 of them (`HalfRange`). The
default of two seconds fits. Of the timeouts asked for, 5 fits but not with the
grace on top, so that its deadline has passed at once; 6 wraps below zero, which
is no timeout; 11 wraps to a third of a second, which becomes a watchdog of one
second. The grace is as short as the watchdog's last wait (in the code 30 and 5
seconds): the watchdog is not fair, so that nothing but time is lost; two chunks
of output are two frames of one channel or one of each. The egress run has one
connection, one run, the shared listener and two private ones (a replacement),
and two goroutines in the pool; races of two connections are those of one with
itself, except that one may hold the WaitGroup while another is added, which the
two copying goroutines do as well. The request run has hosts of every shape (plain,
below, with a leading or trailing dot, one label, an odd label, IPv6) with every
kind of port in entries and in requests, one spelled with a leading zero among
them, and the same toy Duration: of the lifetimes 5 fits and is above the maximum,
6 wraps below zero, -9 wraps above it and 11 to a third of a second. Time stops at `TimeBound`, and a run is
not created to outlive it, so that deadlines are reached. Deadlock is not checked:
every bounded instance ends, when the clock has stopped and the handlers are done.

**Symmetry** is used over runs, owners, handlers, generations and images in
safety runs, never in runs with liveness properties.

**Fairness.** `RunLifecycle!Fairness`: time passes; the reaper's ticker fires
(`StartReaper` is a loop over a ticker); a goroutine that can go on does, which
includes that Docker calls return, with success or with an error. It does not
include that closing a private proxy returns: `CloseTunnels` has no timeout, and
`ReapWaits` and `DestroyWaits` are excepted from it. Clients owe nothing.
`WarmCache!Fairness`: a boot goes on, and a Drop that holds the mutex
finishes. Commits and the cleaners need no fairness. `EgressPool!Fairness`: a dial
ends (it has a timeout), whoever closes a listener goes on, and a copying goroutine
ends once the side it waits for is closed or its container is dead. For that one
the fairness is strong: what a dead container has left in the buffers is finite,
so that a goroutine which gets a write through again and again comes to its end,
and one whose upstream stalls for ever does not. Peers and containers owe nothing.
`Exec!Fairness`: time passes, the context's timer fires, a killed CLI dies, the
goroutines go on; the command, the watchdog, the CLI and the client owe nothing.
The writes of a frame need strong fairness, since a client may stall and read
again; `ExecsReturn` is stated for clients that read again and again, or leave.

## Proofs

`WritableLeaseProofs` proves, for any sets of runs and owners, any finite set of
handlers and any bounds, that `WritableLease!Spec` implies `[]TypeOK`,
`[]LeaseInv`, `[]FencedSessions`, `[]CountCoversInFlight`,
`TakeoverBetweenExecs`, `DeadCredentialsStayDead` and the refinement of
`ExclusiveWriter`. The assumptions are those the module declares: the handlers
are finite, the bounds are natural numbers, the sentinels are fresh.

None of the properties is inductive. That the fence holds over time rests on
three things, which together are `LeaseInv`: types; `LeaseIsLatestGrant` (a lease
carries the latest generation of its run); and `CountCoversInFlight` (a slot is
never given back while its call is in flight). A grant requires `execs = 0`; with
`CountCoversInFlight` that means that nothing is in flight, so that the new lease
fences nobody wrongly, and takeovers lie between commands. The count is kept as
an inequality on purpose: the equality is false in the code (a slot is lost when a
Destroy fails, see the divergences), and its failure errs on the safe side. `LeaseIsLatestGrant` gives that a grant's
generation is above every earlier one, hence that dead credentials stay dead: only
a grant makes a credential active that was not (`OnlyGrantsActivate`), since time,
release and removal can only end a lease (`LeasesOnlyLapse`).

The refinement maps the holder to the holder of the active lease or to nobody,
the epoch to `leaseGen` and a writer's stay to a session's. One lemma per kind
of step shows that it is a `Grant`, an `Enter`, a `Leave`, a `Vacate` (a clock
tick is one, for the leases that lapse with it) or a stutter.

`RunLifecycleProofs` proves, for any sets of runs and handlers and any bounds on
time, faults and crashes, that `RunLifecycle!Spec` implies `[]TypeOK`,
`[]LifeInv`, `[]OneKeeper`, `[]ForgottenRunsHoldNothing`,
`[]TrackedRunsKeepTheirProxy` and `[]ContainersAreKnown`. It assumes only that
the bounds are natural numbers: removals of volumes may fail, and late containers
come, as often as they like.

Nothing there is inductive alone, not even the types: a run's request is set
when Create begins, which is sound because a new run holds nothing
(`NewRunsHoldNothing`). The heart of `LifeInv` is `VolumesHaveAKeeper`: a volume
whose removal has not failed is of a run that Create has in hand, or that is
tracked, or that Destroy or Reap has yet to release, or that a commit will look up
again. `Release` declines
while a commit copies, and the recheck declines while the run is tracked; each
counts on the other, and the invariant says that somebody is always left. It
holds with `OneKeeper`, because a second holder of the same run could release
under the first, and with `KnownRunsAreRegistered`, because Create's error paths
give back what they took without looking whether anybody else knows the run.
`ProxiesAreOpen` is the same for the proxy of a run that can still be reached.
A pending `docker run` is one that Create has given up, which is why it cannot put
a volume under a run that somebody holds. `ContainersAreKnown` needs one more
fact, `ContainersComeAndGo`: a run has no container before Create's call, none
after Destroy's, and on Create's error path only one that is given up.

`WarmCacheProofs` proves, for any generations and parts, any finite number of
boots and commits and any bound on crashes, that `WarmCache!Spec` implies
`[]TypeOK`, `[]MarksAreOwned` and `[]ColdBootsAreEmpty`, whoever drops or sweeps.
`MarksAreOwned` counts, and the proof is about cardinalities: an action adds its
actor to the holders of a generation and marks it, or takes it away and unmarks
it. `[]PublishedIsWhole` and `[]WarmBootsAreComplete` are proved under
`Removers = {}`, the condition under which they hold at all: `os.RemoveAll`
unlinks part by part in sight of boots, and Sweep does so without the mutex (see
the divergences). Cleaners need no such condition, because they rename first.
The invariant `WholeInv` says that nobody adds to a generation once it can be
published (`Finished`), that no two commits and no cleaner are at work on one
generation (`CommitsWorkAlone`), which needs the marks to be exact, and that a
boot's list has what its volume lacks (`BootsCopyTheWhole`). The assumptions are
that boots and committers are finite and apart, that `NoGen` is no generation, that a
template has parts and that the bound is a number.

`EgressPoolProofs` proves, for any finite set of connections and any runs,
listeners and goroutines in the pool, that `EgressPool!Spec` implies `[]TypeOK`
(hence that no WaitGroup counter is negative), `[]CountsAreExact`,
`CloseTunnelsWaits`, `NoTunnelThroughClosedDoor` and `[]ListenersAreRegistered`.
`TunnelInv` carries the first four: the counter is the number of flows that
copy or unwind, each flow was started by its handler (`FlowsAreStarted`), and a
connection that is still dialing has a server (`DialersAreServed`).
`PoolInv` is about who has a listener in hand, as `LifeInv` is about runs: the new
one of an `OpenFor` belongs to it alone (`NewIsFresh`), a `Close` has taken its
one out of the map (`DoorsAreTaken`), and an `OpenFor` that replaces one holds the
mutex all the while (`MutexIsHeld`), panics included.

`SnapshotsProofs` proves, for any runs, images and files and any number of
faults, that `Snapshots!Spec` implies `[]TypeOK`, `[]NothingTemporaryIsLeft`,
`RestoresAreExact` and `[]SnapshotsCarryTheWorkspace`. Each of the last three has
its own invariant over the program counter of the call. `NothingIsForgotten` says
at each call of docker what may exist by then. `RestoreInv` needs
`BasesAreMade`: no call commits to an image that a run can have as its base.
`WorkIsCarried` says how much of what the run kept each of the seven calls has
saved, which is why the copy and the commit of the stage are in it apart. It is
assumed that the workspace is a part of the files and the template of the
workspace, and that names are apart.

`ExecProofs` proves, for any timeouts that are asked for, any statuses, any width
of a Duration and any amount of output, that `Exec!Spec` implies `[]TypeOK`,
`[]FramesAreWhole`, `[]ExitFramesCloseTheStream`, `[]AnswersAreTrue` and
`[]TimeoutsAreLate`. All of them rest on `StreamInv`: who holds the
stream's mutex writes the frame that its program counter says
(`WritersFit`), and the goroutines have read and framed in order (`CopiersFit`).
`FramesGoOn` is what the end of the stream looks like in the middle of a frame;
`ChunksAreFramed` is which chunks are on the wire; `TruthInv` is what the
signs that `Exec` goes by (the context, the CLI's end, a signal) say of the command,
and `ResultIsTrue` what becomes of them in the answer. Every clause about the
wire is one about a stream without an error: what follows from the error's being kept
is that the stream then stays as it is. The lateness of timeouts
needs arithmetic that wraps, which `DurationsProofs` has in lemmas: a Duration that
fits is exact (`DurationIsExact`), and whole seconds are read back
(`SecondsAreReadBack`). `DurationsAreWide` says that a Duration holds more than a
second, `TimesAreNumbers`, `StatusesAreNumbers` and `DefaultFits` what their names
say.

`RequestsProofs` proves, for all texts, all lists and all lifetimes, that
`Requests!Spec` implies `[]TypeOK`, `[]OnlyWhatIsListed`, `[]AcceptedEntriesWork`,
`[]RemediesWork` and `[]LifetimesAreAsAsked`. The inductive invariant
`CallerInv` is small (the list of the deployment stays as it was, and the answer
in hand is one to the run's list); the work is in lemmas that relate the three
grammars: what `Permits` matches is what is documented, but for a plain request
without a port (`MatchesAdmit`), what is documented is matched unless the entry is
mute (`AdmittedMatches`), and a suggestion is valid and matched for every request
that is `Remediable` (`SuggestionsWork`). The assumptions are that lists are texts
and the deployment's own was validated (`ListsAreTexts`), that labels, odd labels
and IPv6 literals are apart (`LabelsAreApart`) and that the default and maximal
lifetimes fit (`DefaultsFit`).

Every safety invariant and every action property of the passing runs is thereby
proved, with no bound on the number of actors, texts, faults or lifetimes. Left to
TLC are the liveness properties, which are out of the provers' reach
(`DeadlinesAreHonoured`, `BootsEnd`, `ClosesEnd`, `DeadRunsLetGo`, `ExecsReturn`),
and the three properties that the code violates. Three of the models were
changed by proving about them: a `CASE` with overlapping guards, which TLC
evaluates in order and the language does not, was written as the code's sequence
of returns; texts were restricted to what `net.SplitHostPort` can produce; and
`AcceptedEntriesWork` was found to be false for a request that spells its port
with a leading zero, a case that the run had not had and now has.

## Findings

Each has a run that TLC ends with a counterexample.

1. `lease_orphans`: a client that disconnects frees the slot while the command
   runs on in the container; the next owner acquires over it. The comments
   promise a takeover delayed up to the timeout.
2. `cache_clean`: `cleanGenerations` reads the manifest and then lists the
   directory. A commit that publishes and unmarks in between has its generation
   deleted as superseded, and the manifest names nothing.
3. `snapshots_twice`: a run restored from a snapshot has the snapshot's files in
   its own layer, under the mount. Its staging image is not empty there, and what
   the run deleted since comes back in the next snapshot.

## Other places where the code is not what one expects

The models contain these, but for the two of which it is said that they do not, and
the properties are stated so as to allow for them and for nothing else. They have
no run of their own.

*Lease and registry.*
- A command that ends while a Destroy has its run out of the map does not give
  its slot back (`finishExec` finds no run); if that Destroy fails, the run
  returns with a count that never reaches zero, and every acquire is refused as
  busy until the run dies. This is why `CountCoversInFlight` is an inequality.
- Reap forgets a run before it removes the container; when the removal fails,
  nothing retries it before the next start of the daemon. The same goes for the
  container of a Create that failed (`manager.go:293`, `runtime.go:278`).
- `Release` drops the error of `os.RemoveAll` (`cache.go:379`), and Reap calls it
  while the container runs and may be writing, so that the last rmdir can fail.
  Nobody retries it: the volume stays for good (`leftover`), although
  the comment at `cache.go:432` says that volumes die with their runs. So does one
  whose container comes late, because `docker run -v` makes the directory anew.
- `main` sweeps once, before it serves (`main.go:120`). A container of the daemon
  before, or of a `docker run` whose CLI was killed with its request, can come after
  that and is known to nobody (`strays`) until the next start.
- The one goroutine of the reaper waits in `closeEgress` for the run's tunnels, before
  it removes the container that may keep them open, and before every later run;
  the comment at `manager.go:130-131` says that every run dies at its deadline no
  matter what. Destroy and Create's error path wait in the same place, where an
  upstream that takes nothing is enough to hold them.
- `CommitWarm` looks its run up again after the copy. If a Destroy has it out of
  the map at that moment the volume is removed; if that Destroy then fails, the
  run is back without its workspace.
- The volumes of runs that die with the daemon are never removed.
- Destroy closes the run's proxy after the container, Reap before it.

*Warm cache.*
- Sweep tests the marks and deletes without the mutex; a boot that marks in
  between copies a half-deleted generation and reports it warm. This is why
  `WarmBootsAreComplete` is checked without removers. A daemon that dies in the
  middle of the same `RemoveAll` leaves a manifest that names a partial
  generation.
- A boot reads a directory in two calls, an open and a getdents. Between them a
  cleaner may rename the generation away and delete it, and the listing is then empty
  without an error: a boot that finds nothing is called warm. `BootLists` is one
  step, so that the properties do not cover this.
- `Drop` checks the generations it listed before it took the mutex; one that a
  commit has marked since is deleted with the rest (`DropLists`, `DropLocks`).

*Egress.*
- A tunnel registered after `CloseTunnels` has ranged over the others is not
  closed, and `Wait` waits for it. The reaper closes the proxy while the
  container may be running, and then hangs for as long as the container keeps the
  tunnel open (`HeldOpen`). `CloseTunnels` takes no context, although
  `proxy.go:229-230` calls the wait bounded by it.
- A goroutine that is blocked in a write to an upstream that takes nothing does not
  see its container's end, and the other one waits for the upstream: the sockets
  of a dead container then stay open for as long as the upstream stalls.
- The same tunnel may reuse the WaitGroup before `Wait` has returned, which
  panics: in a handler the listener stays open, or `OpenFor`'s mutex locked; in
  the reaper the daemon dies.
- A tunnel that has not started its goroutines when `Wait` looks is not waited for
  and outlives `Close`; it ends with its container, or with a stalled upstream
  (`DeadRunsLetGo`).
- `Pool.Shutdown` is called by nobody outside the tests, and a second `OpenFor` of
  a run only by the tests.

*Exec.*
- A command killed from elsewhere (137: out of memory, `docker rm -f`) is reported
  as timed out; a failure of the CLI itself looks like a command that exits 1.
- A raw CR in the output is a line end to an SSE parser, and a chunk may end inside
  a UTF-8 character (`AUDIT_OPEN.md`, item 05). The frames of the model are the
  writes; what is in a chunk is abstracted, so that `FramesAreWhole`,
  `ExitFramesCloseTheStream` and `AnswersAreTrue` hold write by write and say nothing
  about what a parser makes of the text.
- A client that neither reads nor leaves holds its exec, and the slot, for ever:
  the server sets no write timeout.
- A `timeoutSec` above what a Duration holds wraps: to no timeout at all, to one
  that has passed, or to another one, of a second when it comes out below that. The
  same conversion wraps `ttlSec` in `Create` and `AcquireLease`, before it is
  compared with the maximum.
- The env file of an exec, which `README.md:17` of the sources calls removed after
  it, stays when the daemon dies during the exec.
- `ReadFile` limits its buffer to one byte more than the limit, and `head` cuts the
  file to the same size: a larger file is returned cut, without the error that the
  comment promises (`runtime.go:444-456`). The status of the pipeline is that of
  `head`, so that a file which does not exist reads as empty.

*Snapshots.*
- Reap empties the volume under a `Snapshot` that is copying it, which then
  succeeds with a part of the workspace (`reaped`).
- Clean-up runs under the context whose end made the step fail, so that a
  disconnect leaves the seed container and the staging image (`dirty`); a failed
  staging commit returns without any clean-up.

*Allowlist* (`Mute`, `Remediable`, and the exceptions in the properties).
- A request for `example.com:0443` is denied under an entry without a port, and
  under one for 443: ports are compared as they are spelled.
- `.example.com:8080` is accepted and compared as an exact host, so that it
  admits nothing; a port spelled `+443` or `0443` is accepted and
  matches only a request that spells it alike.
- The suggestion for an IPv6 address on a default port has no brackets and is
  refused when passed on. A request for `example.com:`, with a colon and no port,
  or for an IPv6 address without a port, is denied whatever is listed.
- An entry `host:443` lets a plain request without a port through, to port 80;
  `README.md:125` says that a port-scoped entry opens that port and nothing else.

## Not modelled

The spelling checks of single strings (`ValidateWorkPath`, `ValidateExecEnv`,
`NormalizeSlug`, `ValidateWarmPath`), ULIDs (taken as unique), routing, the bearer
token, JSON, flags and logging: pure functions or I/O. The shell commands of
`ReadFile` and `WriteFile`. `EnsureEgressNetwork` and the argument lists of docker.
Of `Sweep`, the LRU order and the sizes: the model lets it evict whenever nothing
is marked, which is more than the code does. Of `shutdown`, its two timeouts: the
drain may end at any time. Of `Commit`, the lock hash: it is computed before the
copy, and an exec in between publishes a tree under the hash of another
(`cache.go:238`); the models commit volumes that rest. Of the failures of the docker
CLI itself, `Exec` has those that look like a command that exits 1; others (125, 126,
127) differ in the number.

The compositions assume this of one another. `RunLifecycle` takes the close of a private proxy
for one step that may never happen; `EgressPool!ClosesEnd` says when it does not. `Requests` assumes that a run uses the proxy it was told of. `WarmCache`
assumes that a volume being committed exists, which `RunLifecycle` shows.

## Plan

1. `WarmVolume`: the content of a run's volume between exec, `LockHash` and the
   copy (`cache.go:238`), and a restart that finds a partial generation
   (`cache.go:489`).
2. Theorems: `WarmBootsAreComplete` for a boot that no removal overlaps, instead of
   for a daemon without removers; the compositions (`Requests` and the run's
   life) as refinements.

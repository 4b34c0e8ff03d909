---------------------------- MODULE RunLifecycle ----------------------------
(***************************************************************************)
(* The life of a run (src/internal/run/manager.go): Create, Destroy, the   *)
(* TTL reaper, CommitWarm's recheck, graceful shutdown, crash and restart, *)
(* and what they do to the three things a run owns outside the registry:   *)
(* its container, its warm volume and its private egress proxy.            *)
(*                                                                         *)
(* The registry is in memory and so are the handlers and the proxies; the  *)
(* containers and the volumes survive the daemon, and so does a docker run *)
(* that it had begun.                                                      *)
(***************************************************************************)
EXTENDS Integers

CONSTANTS
  Runs,        \* run ids
  Committers,  \* the handler goroutines of CommitWarm
  MaxTTL,      \* the longest time to live
  TimeBound,   \* bound: the clock stops here, and no run is made to outlive it
  FaultBound,  \* bound: this many failed calls of the container runtime
  CrashBound   \* bound: this many crashes and shutdowns

\* What a create request asks for: a warm volume, seeded from a snapshot
\* image or not, and egress entries of its own.
Request == {q \in [warm : BOOLEAN, seed : BOOLEAN, extra : BOOLEAN] : q.seed => q.warm}

\* How far Create has come with a run.  "lost": a run of a daemon that is gone.
CreatePhases == {"unborn", "boot", "open", "run", "seed", "register",
                 "registered", "close", "failed", "lost"}

DestroyPhases == {"no", "remove", "release", "close"}
CommitPhases == {"idle", "hash", "copy", "recheck", "release"}
Daemon == {"serving", "draining", "cleaning", "down"}

ASSUME BoundsAreNat == {MaxTTL, TimeBound, FaultBound, CrashBound} \subseteq Nat

VARIABLES
  daemon,      \* what the process is doing
  now,         \* m.now()
  tracked,     \* m.runs
  deadline,    \* Run.ExpiresAt
  wants,       \* the request of each run
  creating,    \* the Create handler of each run
  destroying,  \* the Destroy call that has untracked the run
  condemned,   \* the runs Reap has untracked and not yet got to
  closing,     \* the run whose proxy Reap is closing, as a set
  reaping,     \* the run whose container Reap is removing, as a set
  commits,     \* the CommitWarm handlers: [run, phase]
  doomed,      \* DestroyAll's copy of the list
  cleaner,     \* the run DestroyAll is destroying, as a set
  containers, volumes, proxies,
  pending,     \* the docker runs nobody waits for that may yet make a container
  leftover,    \* history: the volumes that nobody is going to remove any more
  strays,      \* history: the containers nobody removed, since the last sweep
  faults, crashes

shutdown == <<doomed, cleaner>>
reaper == <<condemned, closing, reaping>>
handlers == <<creating, destroying, reaper, commits, shutdown>>
owned == <<containers, volumes, proxies>>
left == <<pending, leftover, strays>>
clock == <<now, deadline>>
bounds == <<faults, crashes>>
vars == <<daemon, clock, tracked, wants, handlers, owned, left, bounds>>

-----------------------------------------------------------------------------
Up == daemon # "down"
Creating(r) == creating[r] \in {"boot", "open", "run", "seed", "register", "close"}
Disposing(r) == destroying[r] # "no" \/ r \in condemned \cup closing \cup reaping
CommittingOn(r) ==
  \E c \in Committers : commits[c].phase # "idle" /\ commits[c].run = r

\* No map entry and no goroutine of this daemon knows the run any more.
Forgotten(r) ==
  /\ r \notin tracked
  /\ ~Creating(r) /\ ~Disposing(r) /\ ~CommittingOn(r)

\* CacheStore.inUse: a commit is copying from the run's volume.
InUse(r) == \E c \in Committers : commits[c].phase = "copy" /\ commits[c].run = r

\* CacheStore.Release.  It drops the error of os.RemoveAll, which fails when a
\* container still writes to the volume, or when the disk does: nobody retries.
Releases(r) ==
  \/ InUse(r) /\ UNCHANGED <<volumes, leftover>>
  \/ ~InUse(r) /\ volumes' = volumes \ {r} /\ leftover' = leftover \ {r}
  \/ /\ ~InUse(r) /\ r \in volumes
     /\ leftover' = leftover \cup {r} /\ UNCHANGED volumes

\* Pool.OpenFor and Pool.Close, for the private proxies: most runs have none.
OpenFor(r) == IF wants[r].extra THEN proxies \cup {r} ELSE proxies
Close(r) == proxies \ {r}

\* A failed runtime.Remove: the CLI may have failed before or after the
\* container engine did its part.
MayHaveRemoved(r) == {containers, containers \ {r}}
\* The same where nobody will try again.
GivesUp(r) ==
  \/ containers' = containers \ {r} /\ UNCHANGED strays
  \/ UNCHANGED containers /\ strays' = strays \cup {r}

Idle == [phase |-> "idle"]

Init ==
  /\ daemon = "serving"
  /\ now = 0
  /\ tracked = {}
  /\ deadline = [r \in Runs |-> 0]
  /\ wants = [r \in Runs |-> [warm |-> FALSE, seed |-> FALSE, extra |-> FALSE]]
  /\ creating = [r \in Runs |-> "unborn"]
  /\ destroying = [r \in Runs |-> "no"]
  /\ condemned = {} /\ closing = {} /\ reaping = {} /\ doomed = {} /\ cleaner = {}
  /\ commits = [c \in Committers |-> Idle]
  /\ containers = {} /\ volumes = {} /\ proxies = {}
  /\ pending = {} /\ leftover = {} /\ strays = {}
  /\ faults = 0 /\ crashes = 0

Tick ==
  /\ now < TimeBound
  /\ now' = now + 1
  /\ UNCHANGED <<daemon, tracked, deadline, wants, handlers, owned, left, bounds>>

\* A call of the container runtime fails.
Fault == faults < FaultBound /\ faults' = faults + 1

-----------------------------------------------------------------------------
(* Create.  Its error paths release the volume at once and then close the  *)
(* proxy.                                                                  *)

CreateAt(r, phase) == Up /\ creating[r] = phase
GoesOn(r, phase) == creating' = [creating EXCEPT ![r] = phase]

CreateBegins(r, q, ttl) ==
  /\ daemon = "serving"
  /\ creating[r] = "unborn"
  /\ ttl \in 1 .. MaxTTL /\ now + ttl <= TimeBound
  /\ GoesOn(r, "boot")
  /\ wants' = [wants EXCEPT ![r] = q]
  /\ deadline' = [deadline EXCEPT ![r] = now + ttl]
  /\ UNCHANGED <<daemon, now, tracked, destroying, reaper, commits,
                 shutdown, owned, left, bounds>>

OnlyCreates ==
  UNCHANGED <<daemon, clock, wants, destroying, reaper, commits, shutdown, crashes>>

\* Cache.Boot or Cache.BootEmpty; a failed boot leaves no directory behind.
CreateBoots(r) ==
  /\ CreateAt(r, "boot")
  /\ \/ GoesOn(r, "open")
        /\ volumes' = IF wants[r].warm THEN volumes \cup {r} ELSE volumes
     \/ wants[r].warm /\ GoesOn(r, "failed") /\ UNCHANGED volumes
  /\ OnlyCreates /\ UNCHANGED <<tracked, containers, proxies, left, faults>>

\* Egress.OpenFor, for a run with entries of its own.
CreateOpens(r) ==
  /\ CreateAt(r, "open")
  /\ \/ GoesOn(r, "run") /\ UNCHANGED <<volumes, leftover>>
        /\ proxies' = OpenFor(r)
     \/ wants[r].extra /\ GoesOn(r, "failed") /\ UNCHANGED proxies
        /\ Releases(r)
  /\ OnlyCreates /\ UNCHANGED <<tracked, containers, pending, strays, faults>>

\* runtime.Create.  When it fails the container may be there all the same
\* (a removal that fails is ignored), or may come once the engine is done
\* with a docker run whose CLI was killed.
CreateRuns(r) ==
  /\ CreateAt(r, "run")
  /\ \/ /\ GoesOn(r, IF wants[r].seed THEN "seed" ELSE "register")
        /\ containers' = containers \cup {r}
        /\ UNCHANGED <<volumes, left, faults>>
     \/ /\ GoesOn(r, "close") /\ Fault
        /\ \/ /\ containers' = containers \cup {r} /\ strays' = strays \cup {r}
              /\ UNCHANGED pending
           \/ pending' = pending \cup {r} /\ UNCHANGED <<containers, strays>>
        /\ Releases(r)
  /\ OnlyCreates /\ UNCHANGED <<tracked, proxies>>

\* runtime.SeedVolume; when it fails the container is removed, if that works.
CreateSeeds(r) ==
  /\ CreateAt(r, "seed")
  /\ \/ GoesOn(r, "register") /\ UNCHANGED <<containers, volumes, leftover, strays, faults>>
     \/ GoesOn(r, "close") /\ Fault /\ GivesUp(r) /\ Releases(r)
  /\ OnlyCreates /\ UNCHANGED <<tracked, proxies, pending>>

\* Mutant of CreateCloses: the error path forgets closeEgress.
CreateSkipsClose(r) ==
  /\ CreateAt(r, "close")
  /\ GoesOn(r, "failed")
  /\ OnlyCreates /\ UNCHANGED <<tracked, owned, left, faults>>

\* closeEgress, the end of the error path.
CreateCloses(r) ==
  /\ CreateAt(r, "close")
  /\ GoesOn(r, "failed")
  /\ proxies' = Close(r)
  /\ OnlyCreates /\ UNCHANGED <<tracked, containers, volumes, left, faults>>

CreateRegisters(r) ==
  /\ CreateAt(r, "register")
  /\ GoesOn(r, "registered")
  /\ tracked' = tracked \cup {r}
  /\ OnlyCreates /\ UNCHANGED <<owned, left, faults>>

\* A docker run that nobody waits for any more makes its container after all,
\* and the directory of its volume if that is gone (docker run -v).
EngineMakes(r) ==
  /\ r \in pending
  /\ pending' = pending \ {r}
  /\ containers' = containers \cup {r} /\ strays' = strays \cup {r}
  /\ IF wants[r].warm
     THEN volumes' = volumes \cup {r} /\ leftover' = leftover \cup {r}
     ELSE UNCHANGED <<volumes, leftover>>
  /\ UNCHANGED <<daemon, clock, tracked, wants, handlers, proxies, bounds>>

-----------------------------------------------------------------------------
(* Destroy: called by a client, in a request that may have been accepted   *)
(* before a shutdown began, and by DestroyAll for one run of its list      *)
(* after another.                                                          *)

\* Mutant of DestroyUntracks: the old order, untracking after the removal.
DestroyKeepsTracked(r) ==
  /\ Up /\ r \in tracked
  /\ destroying' = [destroying EXCEPT ![r] = "remove"]
  /\ UNCHANGED <<daemon, clock, tracked, wants, creating, reaper, commits,
                 shutdown, owned, left, bounds>>

DestroyUntracks(r) ==
  /\ r \in tracked
  /\ \/ Up /\ UNCHANGED shutdown
     \/ /\ daemon = "cleaning" /\ r \in doomed /\ cleaner = {}
        /\ doomed' = doomed \ {r}
        /\ cleaner' = {r}
  /\ tracked' = tracked \ {r}
  /\ destroying' = [destroying EXCEPT ![r] = "remove"]
  /\ UNCHANGED <<daemon, clock, wants, creating, reaper, commits, owned, left,
                 bounds>>

DestroyRemoves(r) ==
  /\ Up /\ destroying[r] = "remove"
  /\ destroying' = [destroying EXCEPT ![r] = "release"]
  /\ containers' = containers \ {r}
  /\ UNCHANGED <<daemon, clock, tracked, wants, creating, reaper, commits,
                 shutdown, volumes, proxies, left, bounds>>

\* Mutants of DestroyRetracks: the run stays out of the registry, as in the old
\* order of Destroy; a failed removal closes the proxy all the same.
DestroyForgets(r) ==
  /\ Up /\ destroying[r] = "remove" /\ Fault
  /\ destroying' = [destroying EXCEPT ![r] = "no"]
  /\ containers' \in MayHaveRemoved(r)
  /\ cleaner' = cleaner \ {r}
  /\ UNCHANGED <<daemon, clock, tracked, wants, creating, reaper, commits, doomed,
                 volumes, proxies, left, crashes>>
DestroyRetracksSealed(r) ==
  /\ Up /\ destroying[r] = "remove" /\ Fault
  /\ destroying' = [destroying EXCEPT ![r] = "no"]
  /\ tracked' = tracked \cup {r}
  /\ proxies' = Close(r)
  /\ cleaner' = cleaner \ {r}
  /\ UNCHANGED <<daemon, clock, wants, creating, reaper, commits, doomed,
                 containers, volumes, left, crashes>>

\* The removal fails, at least for the CLI; the same *Run is tracked again.
DestroyRetracks(r) ==
  /\ Up /\ destroying[r] = "remove" /\ Fault
  /\ destroying' = [destroying EXCEPT ![r] = "no"]
  /\ containers' \in MayHaveRemoved(r)
  /\ tracked' = tracked \cup {r}
  /\ cleaner' = cleaner \ {r}
  /\ UNCHANGED <<daemon, clock, wants, creating, reaper, commits, doomed,
                 volumes, proxies, left, crashes>>

\* releaseWarm.
DestroyReleases(r) ==
  /\ Up /\ destroying[r] = "release"
  /\ destroying' = [destroying EXCEPT ![r] = "close"]
  /\ Releases(r)
  /\ UNCHANGED <<daemon, clock, tracked, wants, creating, reaper, commits,
                 shutdown, containers, proxies, pending, strays, bounds>>

\* closeEgress, which may have to wait for a tunnel.
DestroyCloses(r) ==
  /\ Up /\ destroying[r] = "close"
  /\ destroying' = [destroying EXCEPT ![r] = "no"]
  /\ proxies' = Close(r)
  /\ cleaner' = cleaner \ {r}
  /\ UNCHANGED <<daemon, clock, tracked, wants, creating, reaper, commits,
                 doomed, containers, volumes, left, bounds>>

-----------------------------------------------------------------------------
(* Reap: one goroutine, one run after another.                             *)

Expired(t) == {r \in tracked : deadline[r] <= t}

\* The clock is read before the lock is taken.  A tick that is pending when
\* the shutdown begins may still be served.
ReapUntracks(read) ==
  /\ Up /\ condemned = {} /\ closing = {} /\ reaping = {}
  /\ Expired(read) # {}
  /\ condemned' = Expired(read)
  /\ tracked' = tracked \ Expired(read)
  /\ UNCHANGED <<daemon, clock, wants, creating, destroying, closing, reaping,
                 commits, shutdown, owned, left, bounds>>

OnlyReaps ==
  UNCHANGED <<daemon, clock, tracked, wants, creating, destroying, commits,
              shutdown, pending, crashes>>

\* releaseWarm and closeEgress come before the removal here ...
ReapReleases(r) ==
  /\ Up /\ r \in condemned /\ closing = {} /\ reaping = {}
  /\ condemned' = condemned \ {r}
  /\ closing' = {r}
  /\ Releases(r)
  /\ OnlyReaps /\ UNCHANGED <<reaping, containers, proxies, strays, faults>>

\* ... and the one goroutine waits where a tunnel makes it wait.
ReapCloses(r) ==
  /\ Up /\ r \in closing
  /\ closing' = closing \ {r} /\ reaping' = reaping \cup {r}
  /\ proxies' = Close(r)
  /\ OnlyReaps /\ UNCHANGED <<condemned, containers, volumes, leftover, strays, faults>>

\* A failed removal is logged and the loop goes on to the next run.
ReapRemoves(r) ==
  /\ Up /\ r \in reaping
  /\ reaping' = reaping \ {r}
  /\ \/ containers' = containers \ {r} /\ UNCHANGED <<strays, faults>>
     \/ Fault /\ GivesUp(r)
  /\ OnlyReaps /\ UNCHANGED <<condemned, closing, volumes, proxies, leftover>>

-----------------------------------------------------------------------------
(* CommitWarm, as far as the run's volume is concerned.                    *)

CommitAt(c, phase) == Up /\ commits[c].phase = phase
CommitTo(c, phase) == commits' = [commits EXCEPT ![c].phase = phase]
OnlyCommits ==
  UNCHANGED <<daemon, clock, tracked, wants, creating, destroying,
                 reaper, shutdown, containers, proxies, pending, strays, bounds>>

CommitGets(c, r) ==
  /\ CommitAt(c, "idle")
  /\ r \in tracked /\ wants[r].warm
  /\ commits' = [commits EXCEPT ![c] = [run |-> r, phase |-> "hash"]]
  /\ OnlyCommits /\ UNCHANGED <<volumes, leftover>>

\* LockHash: when it fails there is no copy, else mark(runDir) and copy
\* whatever is there.
CommitMarks(c) ==
  /\ CommitAt(c, "hash")
  /\ \E phase \in {"copy", "recheck"} : CommitTo(c, phase)
  /\ OnlyCommits /\ UNCHANGED <<volumes, leftover>>

\* The copy ended, well or badly: unmark(runDir).
CommitUnmarks(c) ==
  /\ CommitAt(c, "copy")
  /\ CommitTo(c, "recheck")
  /\ OnlyCommits /\ UNCHANGED <<volumes, leftover>>

\* Mutant of CommitRechecks: the run is not looked up again.
CommitSkipsRecheck(c) ==
  /\ CommitAt(c, "recheck")
  /\ commits' = [commits EXCEPT ![c] = Idle]
  /\ OnlyCommits /\ UNCHANGED <<volumes, leftover>>

\* The run is looked up again after the copy ...
CommitRechecks(c) ==
  /\ CommitAt(c, "recheck")
  /\ IF commits[c].run \in tracked
     THEN commits' = [commits EXCEPT ![c] = Idle]
     ELSE CommitTo(c, "release")
  /\ OnlyCommits /\ UNCHANGED <<volumes, leftover>>

\* ... and if it died meanwhile its volume is released here.
CommitReleases(c) ==
  /\ CommitAt(c, "release")
  /\ Releases(commits[c].run)
  /\ commits' = [commits EXCEPT ![c] = Idle]
  /\ OnlyCommits

-----------------------------------------------------------------------------
(* The daemon comes and goes.                                              *)

\* Everything in memory is lost, with what was being created at the time; the
\* docker CLI and the engine are other processes and go on.
Dies ==
  /\ daemon' = "down"
  /\ crashes' = crashes + 1
  /\ tracked' = {} /\ proxies' = {}
  /\ creating' = [r \in Runs |->
       IF creating[r] = "unborn" THEN "unborn" ELSE "lost"]
  /\ destroying' = [r \in Runs |-> "no"]
  /\ condemned' = {} /\ closing' = {} /\ reaping' = {}
  /\ doomed' = {} /\ cleaner' = {}
  /\ commits' = [c \in Committers |-> Idle]
  /\ pending' = pending \cup {r \in Runs : creating[r] = "run"}
  /\ UNCHANGED <<clock, wants, containers, volumes, leftover, strays, faults>>

Crash == Up /\ crashes < CrashBound /\ Dies

\* SIGTERM: no new requests; the handlers in flight get their drain time ...
Drain ==
  /\ daemon = "serving" /\ crashes < CrashBound
  /\ daemon' = "draining"
  /\ UNCHANGED <<clock, tracked, wants, handlers, owned, left, bounds>>

\* ... which may run out on them; then DestroyAll takes the list ...
CleanUp ==
  /\ daemon = "draining"
  /\ daemon' = "cleaning"
  /\ doomed' = tracked /\ UNCHANGED cleaner
  /\ UNCHANGED <<clock, tracked, wants, creating, destroying, reaper,
                 commits, owned, left, bounds>>

\* ... skips the runs that have died meanwhile ...
SkipDead(r) ==
  /\ daemon = "cleaning" /\ r \in doomed \ tracked
  /\ doomed' = doomed \ {r} /\ UNCHANGED cleaner
  /\ UNCHANGED <<daemon, clock, tracked, wants, creating, destroying,
                 reaper, commits, owned, left, bounds>>

\* ... and the process exits when its own Destroy calls are done.  It waits
\* neither for the reaper nor for a handler the drain gave up on.
Exit ==
  /\ daemon = "cleaning" /\ doomed = {} /\ cleaner = {}
  /\ Dies

\* SweepOrphans removes every container that carries the daemon's label.
SweepOrphans ==
  \/ containers' = {} /\ strays' = {} /\ UNCHANGED faults
  \/ Fault /\ containers' \in SUBSET containers /\ strays' = containers'

\* main: sweep once, then serve.  A failed sweep is only logged.
Restart ==
  /\ daemon = "down"
  /\ daemon' = "serving"
  /\ SweepOrphans
  /\ UNCHANGED <<clock, tracked, wants, handlers, volumes, proxies, pending,
                 leftover, crashes>>

-----------------------------------------------------------------------------
CreateStep(r) ==
  \/ CreateBoots(r) \/ CreateOpens(r) \/ CreateRuns(r)
  \/ CreateSeeds(r) \/ CreateCloses(r) \/ CreateRegisters(r)

DestroyStep(r) ==
  DestroyRemoves(r) \/ DestroyRetracks(r) \/ DestroyReleases(r) \/ DestroyCloses(r)

ReapStep(r) == ReapReleases(r) \/ ReapCloses(r) \/ ReapRemoves(r)

CommitStep(c) ==
  CommitMarks(c) \/ CommitUnmarks(c) \/ CommitRechecks(c) \/ CommitReleases(c)

Next ==
  \/ Tick
  \/ \E r \in Runs :
       \/ \E q \in Request, ttl \in 1 .. MaxTTL : CreateBegins(r, q, ttl)
       \/ CreateStep(r)
       \/ EngineMakes(r)
       \/ DestroyUntracks(r)
       \/ DestroyStep(r)
       \/ ReapStep(r)
       \/ SkipDead(r)
       \/ \E c \in Committers : CommitGets(c, r)
  \/ \E read \in 0 .. now : ReapUntracks(read)
  \/ \E c \in Committers : CommitStep(c)
  \/ Crash \/ Drain \/ CleanUp \/ Exit \/ Restart

Spec == Init /\ [][Next]_vars

\* Close waits for the tunnels of a private proxy, in Reap and in Destroy.
ReapWaits(r) == r \in closing \cap proxies
DestroyWaits(r) == destroying[r] = "close" /\ r \in proxies

\* Time passes, the ticker fires, goroutines run and the runtime's calls come
\* back, but no call has to succeed, and Close of a private proxy need not
\* return: CloseTunnels has no timeout.  Nothing is assumed of the clients.
Fairness ==
  /\ WF_vars(Tick)
  /\ WF_vars(ReapUntracks(now))
  /\ \A r \in Runs :
       /\ WF_vars(~DestroyWaits(r) /\ DestroyStep(r))
       /\ WF_vars(~ReapWaits(r) /\ ReapStep(r))
  /\ \A c \in Committers : WF_vars(CommitStep(c))

FairSpec == Spec /\ Fairness

-----------------------------------------------------------------------------
(* Properties *)

TypeOK ==
  /\ daemon \in Daemon
  /\ now \in Nat /\ deadline \in [Runs -> Nat]
  /\ tracked \subseteq Runs /\ containers \subseteq Runs
  /\ wants \in [Runs -> Request]
  /\ creating \in [Runs -> CreatePhases]
  /\ destroying \in [Runs -> DestroyPhases]
  /\ condemned \subseteq Runs /\ closing \subseteq Runs /\ reaping \subseteq Runs
  /\ doomed \subseteq Runs /\ cleaner \subseteq Runs
  /\ commits \in [Committers ->
       {Idle} \cup [run : Runs, phase : CommitPhases \ {"idle"}]]
  /\ pending \subseteq Runs /\ strays \subseteq Runs
  /\ leftover \subseteq volumes
  /\ volumes \subseteq {r \in Runs : wants[r].warm}
  /\ proxies \subseteq {r \in Runs : wants[r].extra}
  /\ faults \in Nat /\ crashes \in Nat

\* A run is made, reachable, or being disposed of by exactly one of Destroy
\* and Reap: never two of these at once, whatever is retried.
OneKeeper ==
  \A r \in Runs :
    /\ r \in tracked => ~Creating(r) /\ ~Disposing(r)
    /\ Creating(r) => ~Disposing(r)
    /\ destroying[r] # "no" => r \notin condemned \cup closing \cup reaping
    /\ r \in condemned => r \notin closing \cup reaping
    /\ r \notin closing \cap reaping

\* Create's error paths, Destroy, Reap and CommitWarm's recheck between them
\* leave no private proxy behind when the last of them is done with a run, and
\* no volume that somebody has not tried to remove: what stays is a volume whose
\* removal failed, or one that docker made anew for a container that came late.
\* Runs lost with their daemon are excepted: main sweeps containers only.
ForgottenRunsHoldNothing ==
  \A r \in Runs : Forgotten(r) /\ creating[r] # "lost" =>
    r \notin proxies /\ (r \in volumes => r \in leftover)

\* A run that callers can reach has its private proxy, also after a Destroy
\* that failed: "released only on success".
TrackedRunsKeepTheirProxy ==
  \A r \in tracked : wants[r].extra => r \in proxies

\* The conjuncts that make the inductive invariant of these properties.  Only
\* what Create has registered is tracked, disposed of or committed from ...
KnownRunsAreRegistered ==
  \A r \in Runs :
    r \in tracked \/ Disposing(r) \/ CommittingOn(r) => creating[r] = "registered"

\* ... Create comes to the volume and then to the proxy in its order, and a
\* docker run that is still to do its part is one that was given up ...
NewRunsHoldNothing ==
  \A r \in Runs :
    /\ creating[r] \in {"unborn", "boot"} => r \notin volumes
    /\ creating[r] \in {"unborn", "boot", "open"} => r \notin proxies
    /\ r \in pending => creating[r] \in {"close", "failed", "lost"}

\* ... a volume waits for somebody who is still to release it: Create, a
\* client or the reaper, Destroy, Reap's loop, or a commit before its recheck ...
VolumesHaveAKeeper ==
  \A r \in volumes \ leftover :
    \/ creating[r] \in {"open", "run", "seed", "register", "lost"}
    \/ r \in tracked \/ destroying[r] \in {"remove", "release"} \/ r \in condemned
    \/ \E c \in Committers :
         commits[c].phase \in {"copy", "recheck", "release"} /\ commits[c].run = r

\* ... a proxy likewise, but for the commits ...
ProxiesHaveAKeeper ==
  \A r \in proxies :
    \/ Creating(r) \/ r \in tracked \/ destroying[r] # "no"
    \/ r \in condemned \cup closing

\* ... and is open from Create's step until Destroy has removed the container.
ProxiesAreOpen ==
  \A r \in Runs :
    /\ wants[r].extra
    /\ \/ creating[r] \in {"run", "seed", "register"}
       \/ r \in tracked \/ destroying[r] = "remove"
    => r \in proxies

LifeInv ==
  /\ TypeOK /\ KnownRunsAreRegistered /\ NewRunsHoldNothing /\ OneKeeper
  /\ VolumesHaveAKeeper /\ ProxiesHaveAKeeper /\ ProxiesAreOpen

\* A daemon that is up knows every container or has it on its way out, through
\* failed removals that are retried, shutdowns, crashes and restarts.  What
\* it does not know is a container that Create or Reap failed to remove, or that
\* came late, and only since the last sweep that succeeded.
ContainersAreKnown ==
  Up => \A r \in containers \ strays : r \in tracked \/ Creating(r) \/ Disposing(r)

\* What makes it inductive: a run has no container before Create's call, none
\* after Destroy's, and on Create's error path one that is given up.
ContainersComeAndGo ==
  \A r \in containers :
    /\ creating[r] \notin {"unborn", "boot", "open", "run"}
    /\ creating[r] = "close" => r \in strays
    /\ destroying[r] \notin {"release", "close"}

\* The daemon is done with the run and nothing of it is left that it did not
\* fail to remove.
Over(r) ==
  /\ Forgotten(r)
  /\ r \notin proxies
  /\ r \in volumes => r \in leftover
  /\ r \in containers => r \in strays

\* "every run dies at its deadline no matter what": a registered run comes to
\* its end with all that it holds, unless the reaper waits for ever for the
\* tunnels of some run, or the run's own Destroy does for its.
DeadlinesAreHonoured ==
  \A r \in Runs :
    r \in tracked ~> (Over(r) \/ [](\E q \in Runs : ReapWaits(q)) \/ []DestroyWaits(r))

=============================================================================

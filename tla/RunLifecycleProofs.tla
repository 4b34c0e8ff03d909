------------------------- MODULE RunLifecycleProofs -------------------------
(***************************************************************************)
(* Runs, their volumes and their proxies, for every set of runs and        *)
(* handlers, however many faults, crashes and restarts.                    *)
(*                                                                         *)
(* That what is forgotten holds nothing is not inductive by itself: four   *)
(* places can release a volume and each may decline, counting on another.  *)
(* VolumesHaveAKeeper and ProxiesHaveAKeeper name, for everything held,    *)
(* somebody who is still to give it back.                                  *)
(***************************************************************************)
EXTENDS RunLifecycle, TLAPS

-----------------------------------------------------------------------------
(* What the commits' steps do to the handlers the invariant looks at. *)

Commit == [run : Runs, phase : CommitPhases \ {"idle"}]

\* A handler that is not idle is committing some run.
LEMMA BusyCommits ==
  ASSUME TypeOK, NEW c \in Committers, commits[c].phase # "idle"
  PROVE  commits[c] \in Commit /\ commits[c].run \in Runs
BY DEF TypeOK, Commit, Idle

\* Moving on changes the phase of one handler and nothing else.
LEMMA CommitMoves ==
  ASSUME TypeOK, NEW c \in Committers, commits[c].phase # "idle",
         NEW phase \in CommitPhases \ {"idle"}, CommitTo(c, phase)
  PROVE  /\ commits' \in [Committers -> {Idle} \cup Commit]
         /\ commits'[c].phase = phase /\ commits'[c].run = commits[c].run
         /\ \A d \in Committers : d # c => commits'[d] = commits[d]
<1>1. commits[c] \in Commit
  BY BusyCommits
<1>2. commits' = [commits EXCEPT ![c] = [commits[c] EXCEPT !.phase = phase]]
  BY DEF CommitTo
<1>3. [commits[c] EXCEPT !.phase = phase] \in Commit
  BY <1>1 DEF Commit
<1>4. commits \in [Committers -> {Idle} \cup Commit]
  BY DEF TypeOK, Commit
<1>5. [commits[c] EXCEPT !.phase = phase].run = commits[c].run
      /\ [commits[c] EXCEPT !.phase = phase].phase = phase
  BY <1>1 DEF Commit
<1>6. QED
  BY <1>2, <1>3, <1>4, <1>5

\* A handler that is through is idle; the others are where they were.
LEMMA CommitEnds ==
  ASSUME TypeOK, NEW c \in Committers, commits' = [commits EXCEPT ![c] = Idle]
  PROVE  /\ commits' \in [Committers -> {Idle} \cup Commit]
         /\ commits'[c].phase = "idle"
         /\ \A d \in Committers : d # c => commits'[d] = commits[d]
BY DEF TypeOK, Commit, Idle

\* A handler that takes a run up was idle.
LEMMA CommitStarts ==
  ASSUME TypeOK, NEW c \in Committers, NEW r \in Runs, CommitGets(c, r)
  PROVE  /\ commits' \in [Committers -> {Idle} \cup Commit]
         /\ commits'[c].phase = "hash" /\ commits'[c].run = r
         /\ commits[c].phase = "idle"
         /\ \A d \in Committers : d # c => commits'[d] = commits[d]
BY DEF CommitGets, CommitAt, TypeOK, Commit, CommitPhases

-----------------------------------------------------------------------------
(* Type correctness. *)

LEMMA InitTypeOK == Init => TypeOK
BY DEF Init, TypeOK, Request, Daemon, CreatePhases, DestroyPhases

\* Type correctness needs the invariant in one step only: the request of a run
\* that is begun may change because the run owns nothing (see BeginsKeep).
LEMMA CreateTypeOK ==
  ASSUME TypeOK, NEW r \in Runs, CreateStep(r) PROVE TypeOK'
<1> USE DEF TypeOK, CreateAt, GoesOn, CreatePhases, Fault, OnlyCreates, Releases,
            Close, clock, reaper, shutdown
<1>1. CASE CreateBoots(r)
  BY <1>1 DEF CreateBoots, left
<1>2. CASE CreateOpens(r)
  BY <1>2 DEF CreateOpens, OpenFor
<1>3. CASE CreateRuns(r)
  BY <1>3 DEF CreateRuns, left
<1>4. CASE CreateSeeds(r)
  BY <1>4 DEF CreateSeeds, GivesUp
<1>5. CASE CreateCloses(r)
  BY <1>5 DEF CreateCloses, left
<1>6. CASE CreateRegisters(r)
  BY <1>6 DEF CreateRegisters, owned, left
<1>7. QED
  BY <1>1, <1>2, <1>3, <1>4, <1>5, <1>6 DEF CreateStep

LEMMA EngineTypeOK ==
  ASSUME TypeOK, NEW r \in Runs, EngineMakes(r) PROVE TypeOK'
BY DEF TypeOK, EngineMakes, clock, handlers, reaper, shutdown, bounds

LEMMA DestroyTypeOK ==
  ASSUME TypeOK, NEW r \in Runs, DestroyUntracks(r) \/ DestroyStep(r) PROVE TypeOK'
<1> USE DEF TypeOK, DestroyPhases, Fault, clock, reaper, left
<1>1. CASE DestroyUntracks(r)
  BY <1>1 DEF DestroyUntracks, shutdown, owned, bounds
<1>2. CASE DestroyRemoves(r)
  BY <1>2 DEF DestroyRemoves, shutdown, bounds
<1>3. CASE DestroyRetracks(r)
  BY <1>3 DEF DestroyRetracks, MayHaveRemoved
<1>4. CASE DestroyReleases(r)
  BY <1>4 DEF DestroyReleases, Releases, shutdown, bounds
<1>5. CASE DestroyCloses(r)
  BY <1>5 DEF DestroyCloses, Close, bounds
<1>6. QED
  BY <1>1, <1>2, <1>3, <1>4, <1>5 DEF DestroyStep

LEMMA ReapTypeOK ==
  /\ \A read \in 0 .. now : TypeOK /\ ReapUntracks(read) => TypeOK'
  /\ \A r \in Runs : TypeOK /\ ReapStep(r) => TypeOK'
<1> USE DEF TypeOK, Fault, OnlyReaps, clock, shutdown
<1>1. ASSUME TypeOK, NEW read \in 0 .. now, ReapUntracks(read) PROVE TypeOK'
  BY <1>1 DEF ReapUntracks, Expired, owned, left, bounds
<1>2. ASSUME TypeOK, NEW r \in Runs, ReapReleases(r) PROVE TypeOK'
  BY <1>2 DEF ReapReleases, Releases
<1>3. ASSUME TypeOK, NEW r \in Runs, ReapCloses(r) PROVE TypeOK'
  BY <1>3 DEF ReapCloses, Close
<1>4. ASSUME TypeOK, NEW r \in Runs, ReapRemoves(r) PROVE TypeOK'
  BY <1>4 DEF ReapRemoves, GivesUp
<1>5. QED
  BY <1>1, <1>2, <1>3, <1>4 DEF ReapStep

LEMMA CommitTypeOK ==
  ASSUME TypeOK, NEW c \in Committers,
         CommitStep(c) \/ \E r \in Runs : CommitGets(c, r)
  PROVE  TypeOK'
<1>1. commits' \in [Committers -> {Idle} \cup Commit]
  <2>1. CASE \E r \in Runs : CommitGets(c, r)
    BY <2>1, CommitStarts
  <2>2. CASE CommitMarks(c)
    BY <2>2, CommitMoves DEF CommitMarks, CommitAt, CommitPhases
  <2>3. CASE CommitUnmarks(c)
    BY <2>3, CommitMoves DEF CommitUnmarks, CommitAt, CommitPhases
  <2>4. CASE CommitRechecks(c)
    BY <2>4, CommitMoves, CommitEnds DEF CommitRechecks, CommitAt, CommitPhases
  <2>5. CASE CommitReleases(c)
    BY <2>5, CommitEnds DEF CommitReleases
  <2>6. QED
    BY <2>1, <2>2, <2>3, <2>4, <2>5 DEF CommitStep
<1>2. OnlyCommits /\ volumes' \subseteq volumes /\ leftover' \subseteq volumes'
  BY DEF CommitStep, CommitGets, CommitMarks, CommitUnmarks, CommitRechecks,
         CommitReleases, Releases, TypeOK
<1>3. QED
  BY <1>1, <1>2 DEF TypeOK, OnlyCommits, Commit, clock, reaper, shutdown, bounds

\* The daemon's own steps: the clock, shutdown, death and restart.
DaemonStep ==
  \/ Tick \/ Crash \/ Drain \/ CleanUp \/ Exit \/ Restart
  \/ \E r \in Runs : SkipDead(r)

LEMMA DaemonTypeOK == TypeOK /\ DaemonStep => TypeOK'
<1> SUFFICES ASSUME TypeOK, DaemonStep PROVE TypeOK'
  OBVIOUS
<1>1. CASE Crash \/ Exit
  <2>1. Dies
    BY <1>1 DEF Crash, Exit
  <2>2. commits' \in [Committers -> {Idle}] /\ creating' \in [Runs -> CreatePhases]
    BY <2>1 DEF Dies, TypeOK, CreatePhases
  <2>3. QED
    BY <2>1, <2>2 DEF Dies, TypeOK, Daemon, DestroyPhases, clock
<1>2. CASE Tick
  BY <1>2 DEF Tick, TypeOK, handlers, reaper, shutdown, owned, left, bounds
<1>3. CASE Drain
  BY <1>3 DEF Drain, TypeOK, Daemon, clock, handlers, reaper, shutdown, owned, left,
              bounds
<1>4. CASE CleanUp
  BY <1>4 DEF CleanUp, TypeOK, Daemon, clock, reaper, owned, left, bounds
<1>5. CASE Restart
  BY <1>5 DEF Restart, SweepOrphans, Fault, TypeOK, Daemon, clock, handlers,
              reaper, shutdown
<1>6. CASE \E r \in Runs : SkipDead(r)
  BY <1>6 DEF SkipDead, TypeOK, clock, reaper, owned, left, bounds
<1>7. QED
  BY <1>1, <1>2, <1>3, <1>4, <1>5, <1>6 DEF DaemonStep

-----------------------------------------------------------------------------
(* The inductive invariant, one group of actions after another. *)

\* While Create has the run nobody disposes of it and nobody commits from it.
LEMMA CreatedAlone ==
  ASSUME LifeInv, NEW r \in Runs, creating[r] # "registered"
  PROVE  r \notin tracked /\ ~Disposing(r) /\ ~CommittingOn(r) /\ ~InUse(r)
BY DEF LifeInv, KnownRunsAreRegistered, CommittingOn, InUse

\* Release concerns one volume.  After it that volume is gone or given up,
\* unless a commit copies from it.
LEMMA ReleaseEnds ==
  ASSUME TypeOK, NEW r \in Runs, Releases(r)
  PROVE  /\ volumes' \subseteq volumes /\ volumes' \ {r} = volumes \ {r}
         /\ leftover' \ {r} = leftover \ {r}
         /\ r \in volumes' \ leftover' => InUse(r)
BY DEF Releases, TypeOK

LEMMA BeginsKeep ==
  ASSUME LifeInv, NEW r \in Runs, NEW q \in Request, NEW ttl \in 1 .. MaxTTL,
         CreateBegins(r, q, ttl)
  PROVE  LifeInv'
<1> USE DEF CreateBegins, clock, reaper, shutdown, owned, left, bounds, GoesOn
<1>1. /\ creating \in [Runs -> CreatePhases] /\ wants \in [Runs -> Request]
      /\ \A p \in Runs : creating'[p] = IF p = r THEN "boot" ELSE creating[p]
      /\ \A p \in Runs : wants'[p] = IF p = r THEN q ELSE wants[p]
  BY DEF LifeInv, TypeOK
<1>2. r \notin volumes /\ r \notin proxies /\ r \notin pending
  BY DEF LifeInv, NewRunsHoldNothing
<1>3. TypeOK'
  <2>1. now + ttl \in Nat
    BY BoundsAreNat DEF LifeInv, TypeOK
  <2>2. QED
    BY <1>1, <1>2, <2>1 DEF LifeInv, TypeOK, CreatePhases
<1>4. r \notin tracked /\ ~Disposing(r)
  BY CreatedAlone
<1>5. \A p \in Runs : /\ Disposing(p)' <=> Disposing(p)
                      /\ CommittingOn(p)' <=> CommittingOn(p)
                      /\ Creating(p)' <=> Creating(p) \/ p = r
  BY <1>1 DEF Disposing, CommittingOn, Creating
<1>6. KnownRunsAreRegistered' /\ OneKeeper'
  BY <1>1, <1>4, <1>5, CreatedAlone DEF LifeInv, KnownRunsAreRegistered, OneKeeper
<1>7. NewRunsHoldNothing' /\ ProxiesAreOpen'
  BY <1>1, <1>2, <1>4 DEF LifeInv, NewRunsHoldNothing, ProxiesAreOpen, Disposing
<1>8. VolumesHaveAKeeper' /\ ProxiesHaveAKeeper'
  BY <1>1, <1>5 DEF LifeInv, VolumesHaveAKeeper, ProxiesHaveAKeeper, TypeOK
<1>9. QED
  BY <1>3, <1>6, <1>7, <1>8 DEF LifeInv

\* Create's steps change what they change of their own run alone.
LEMMA CreateKeeps ==
  ASSUME LifeInv, NEW r \in Runs, CreateStep(r)
  PROVE  LifeInv'
<1>1. TypeOK' /\ TypeOK
  BY CreateTypeOK DEF LifeInv
<1>2. Creating(r) /\ creating[r] # "registered"
  BY DEF CreateStep, CreateBoots, CreateOpens, CreateRuns, CreateSeeds,
         CreateCloses, CreateRegisters, CreateAt, Creating
<1>3. r \notin tracked /\ ~Disposing(r) /\ ~CommittingOn(r) /\ ~InUse(r)
  BY <1>2, CreatedAlone
<1>4. UNCHANGED <<wants, destroying, condemned, closing, reaping, commits>>
  BY DEF CreateStep, CreateBoots, CreateOpens, CreateRuns, CreateSeeds,
         CreateCloses, CreateRegisters, OnlyCreates, reaper
<1>5. \A p \in Runs : p # r => creating'[p] = creating[p]
  BY <1>1 DEF CreateStep, CreateBoots, CreateOpens, CreateRuns, CreateSeeds,
         CreateCloses, CreateRegisters, GoesOn, TypeOK
<1>6. /\ volumes' \ {r} = volumes \ {r} /\ proxies' \ {r} = proxies \ {r}
      /\ leftover' \ {r} = leftover \ {r} /\ pending' \ {r} = pending \ {r}
      /\ tracked' \ {r} = tracked
  BY <1>3 DEF CreateStep, CreateBoots, CreateOpens, CreateRuns, CreateSeeds,
         CreateCloses, CreateRegisters, OpenFor, Close, Releases, owned, left
<1>7. /\ \/ /\ creating'[r] \in {"open", "run", "seed", "register"}
            /\ r \notin tracked' /\ r \notin pending'
         \/ /\ creating'[r] = "close" /\ r \notin tracked' /\ r \notin volumes' \ leftover'
         \/ /\ creating'[r] = "failed" /\ r \notin tracked'
            /\ r \notin volumes' \ leftover' /\ r \notin proxies'
         \/ creating'[r] = "registered" /\ r \in tracked' /\ r \notin pending'
      /\ creating'[r] = "open" => r \notin proxies'
      /\ /\ wants[r].extra
         /\ creating'[r] \in {"run", "seed", "register", "registered"}
         => r \in proxies'
  <2> USE <1>1, <1>3 DEF GoesOn, CreateAt, TypeOK
  <2>0. /\ r \in pending => creating[r] = "close"
        /\ Releases(r) => r \notin volumes' \ leftover'
    BY <1>2, ReleaseEnds DEF LifeInv, NewRunsHoldNothing, Creating
  <2>1. CASE CreateBoots(r)
    BY <2>0, <2>1 DEF CreateBoots, left, LifeInv, NewRunsHoldNothing
  <2>2. CASE CreateOpens(r)
    BY <2>0, <2>2 DEF CreateOpens, OpenFor, LifeInv, NewRunsHoldNothing
  <2>3. CASE CreateRuns(r)
    BY <2>0, <2>3 DEF CreateRuns, left, LifeInv, ProxiesAreOpen
  <2>4. CASE CreateSeeds(r)
    BY <2>0, <2>4 DEF CreateSeeds, LifeInv, ProxiesAreOpen
  <2>5. CASE CreateCloses(r)
    <3>1. r \notin volumes \ leftover
      BY <1>3, <2>5 DEF CreateCloses, LifeInv, VolumesHaveAKeeper, CommittingOn, Disposing
    <3>2. QED
      BY <2>5, <3>1 DEF CreateCloses, Close, left
  <2>6. CASE CreateRegisters(r)
    BY <2>0, <2>6 DEF CreateRegisters, owned, left, LifeInv, ProxiesAreOpen
  <2>7. QED
    BY <2>1, <2>2, <2>3, <2>4, <2>5, <2>6 DEF CreateStep
<1>8. \A p \in Runs : /\ Disposing(p)' <=> Disposing(p)
                      /\ CommittingOn(p)' <=> CommittingOn(p)
                      /\ p # r => (Creating(p)' <=> Creating(p))
  BY <1>4, <1>5 DEF Disposing, CommittingOn, Creating
<1>9. KnownRunsAreRegistered' /\ OneKeeper'
  BY <1>3, <1>4, <1>5, <1>6, <1>7, <1>8
  DEF LifeInv, KnownRunsAreRegistered, OneKeeper, Creating, Disposing
<1>10. NewRunsHoldNothing'
  BY <1>5, <1>6, <1>7 DEF LifeInv, NewRunsHoldNothing
<1>11. VolumesHaveAKeeper' /\ ProxiesHaveAKeeper'
  BY <1>1, <1>4, <1>5, <1>6, <1>7, <1>8
  DEF LifeInv, VolumesHaveAKeeper, ProxiesHaveAKeeper, Creating, TypeOK
<1>12. ProxiesAreOpen'
  BY <1>3, <1>4, <1>5, <1>6, <1>7 DEF LifeInv, ProxiesAreOpen, Disposing
<1>13. QED
  BY <1>1, <1>9, <1>10, <1>11, <1>12 DEF LifeInv

\* A container that comes late is of a run that nobody knows any more.
LEMMA EngineKeeps ==
  ASSUME LifeInv, NEW r \in Runs, EngineMakes(r)
  PROVE  LifeInv'
<1>1. TypeOK /\ TypeOK' /\ creating[r] \in {"close", "failed", "lost"}
  BY EngineTypeOK DEF LifeInv, NewRunsHoldNothing, EngineMakes
<1>2. /\ UNCHANGED <<tracked, wants, creating, destroying, condemned, closing,
                     reaping, commits, proxies>>
      /\ volumes' \ leftover' \subseteq volumes \ leftover
      /\ volumes' \ {r} = volumes \ {r} /\ pending' \subseteq pending
  BY <1>1 DEF EngineMakes, handlers, reaper, TypeOK
<1>3. KnownRunsAreRegistered' /\ OneKeeper' /\ NewRunsHoldNothing'
  BY <1>1, <1>2
  DEF LifeInv, KnownRunsAreRegistered, OneKeeper, NewRunsHoldNothing, Disposing,
      CommittingOn, Creating
<1>4. VolumesHaveAKeeper' /\ ProxiesHaveAKeeper' /\ ProxiesAreOpen'
  BY <1>2 DEF LifeInv, VolumesHaveAKeeper, ProxiesHaveAKeeper, ProxiesAreOpen, Creating
<1>5. QED
  BY <1>1, <1>3, <1>4 DEF LifeInv

\* Destroy hands the run from the registry to itself and back.
LEMMA DestroyKeeps ==
  ASSUME LifeInv, NEW r \in Runs, DestroyUntracks(r) \/ DestroyStep(r)
  PROVE  LifeInv'
<1>1. TypeOK /\ TypeOK'
  BY DestroyTypeOK DEF LifeInv
<1>2. UNCHANGED <<wants, creating, condemned, closing, reaping, commits, pending>>
  BY DEF DestroyStep, DestroyUntracks, DestroyRemoves, DestroyRetracks,
         DestroyReleases, DestroyCloses, reaper, left
<1>3. \A p \in Runs : p # r => destroying'[p] = destroying[p]
  BY <1>1 DEF DestroyStep, DestroyUntracks, DestroyRemoves, DestroyRetracks,
              DestroyReleases, DestroyCloses, TypeOK
<1>4. /\ tracked' \ {r} = tracked \ {r} /\ volumes' \subseteq volumes
      /\ proxies' \subseteq proxies /\ proxies' \ {r} = proxies \ {r}
      /\ volumes' \ {r} = volumes \ {r} /\ leftover' \ {r} = leftover \ {r}
  BY DEF DestroyStep, DestroyUntracks, DestroyRemoves, DestroyRetracks,
         DestroyReleases, DestroyCloses, Releases, Close, owned, left
<1>5. /\ creating[r] = "registered"
      /\ r \notin condemned /\ r \notin closing /\ r \notin reaping
      /\ r \notin tracked' \/ destroying'[r] = "no"
  <2> USE <1>1 DEF LifeInv, OneKeeper, KnownRunsAreRegistered, Disposing, TypeOK
  <2>1. CASE DestroyUntracks(r)
    BY <2>1 DEF DestroyUntracks
  <2>2. CASE DestroyRemoves(r)
    BY <2>2 DEF DestroyRemoves
  <2>3. CASE DestroyRetracks(r)
    BY <2>3 DEF DestroyRetracks
  <2>4. CASE DestroyReleases(r)
    BY <2>4 DEF DestroyReleases
  <2>5. CASE DestroyCloses(r)
    BY <2>5 DEF DestroyCloses
  <2>6. QED
    BY <2>1, <2>2, <2>3, <2>4, <2>5 DEF DestroyStep
<1>6. \/ /\ r \in tracked' \/ destroying'[r] = "remove"
         /\ wants[r].extra => r \in proxies'
      \/ destroying'[r] = "release" /\ r \notin tracked'
      \/ /\ r \notin tracked' /\ destroying'[r] \in {"no", "close"}
         /\ destroying'[r] = "no" => r \notin proxies'
         /\ r \in volumes' \ leftover' =>
              \E c \in Committers : /\ commits[c].phase \in {"copy", "recheck", "release"}
                                    /\ commits[c].run = r
  <2> USE <1>1 DEF LifeInv, ProxiesAreOpen, TypeOK
  <2>1. CASE DestroyUntracks(r)
    BY <2>1 DEF DestroyUntracks, owned
  <2>2. CASE DestroyRemoves(r)
    BY <2>2 DEF DestroyRemoves, OneKeeper, Disposing
  <2>3. CASE DestroyRetracks(r)
    BY <2>3 DEF DestroyRetracks
  <2>4. CASE DestroyReleases(r)
    BY <2>4, ReleaseEnds DEF DestroyReleases, InUse, OneKeeper, Disposing
  <2>5. CASE DestroyCloses(r)
    <3>1. r \in volumes \ leftover =>
              \E c \in Committers : /\ commits[c].phase \in {"copy", "recheck", "release"}
                                    /\ commits[c].run = r
      BY <1>5, <2>5 DEF DestroyCloses, VolumesHaveAKeeper, OneKeeper, Disposing
    <3>2. QED
      BY <2>5, <3>1 DEF DestroyCloses, Close, left, OneKeeper, Disposing
  <2>6. QED
    BY <2>1, <2>2, <2>3, <2>4, <2>5 DEF DestroyStep
<1>7. KnownRunsAreRegistered' /\ OneKeeper' /\ NewRunsHoldNothing'
  BY <1>2, <1>3, <1>4, <1>5
  DEF LifeInv, KnownRunsAreRegistered, OneKeeper, NewRunsHoldNothing, Disposing,
      CommittingOn, Creating
<1>8. VolumesHaveAKeeper' /\ ProxiesHaveAKeeper'
  BY <1>1, <1>2, <1>3, <1>4, <1>5, <1>6
  DEF LifeInv, VolumesHaveAKeeper, ProxiesHaveAKeeper, Creating, TypeOK
<1>9. ProxiesAreOpen'
  BY <1>2, <1>3, <1>4, <1>5, <1>6 DEF LifeInv, ProxiesAreOpen, OneKeeper, Disposing
<1>10. QED
  BY <1>1, <1>7, <1>8, <1>9 DEF LifeInv

LEMMA ReapUntracksKeeps ==
  ASSUME LifeInv, NEW read \in 0 .. now, ReapUntracks(read)
  PROVE  LifeInv'
<1>1. TypeOK /\ TypeOK'
  BY ReapTypeOK DEF LifeInv
<1>2. /\ UNCHANGED <<wants, creating, destroying, commits, volumes, proxies, leftover,
                     pending>>
      /\ condemned = {} /\ closing = {} /\ reaping = {}
      /\ closing' = {} /\ reaping' = {}
      /\ condemned' \subseteq tracked
      /\ tracked' = tracked \ condemned'
  BY DEF ReapUntracks, Expired, owned, left
<1>3. KnownRunsAreRegistered' /\ OneKeeper' /\ NewRunsHoldNothing'
  BY <1>2
  DEF LifeInv, KnownRunsAreRegistered, OneKeeper, NewRunsHoldNothing, Disposing,
      CommittingOn, Creating
<1>4. VolumesHaveAKeeper' /\ ProxiesHaveAKeeper' /\ ProxiesAreOpen'
  BY <1>1, <1>2
  DEF LifeInv, VolumesHaveAKeeper, ProxiesHaveAKeeper, ProxiesAreOpen, Creating, TypeOK
<1>5. QED
  BY <1>1, <1>3, <1>4 DEF LifeInv

\* Reap's loop has the run until its container is dealt with.
LEMMA ReapKeeps ==
  ASSUME LifeInv, NEW r \in Runs, ReapStep(r)
  PROVE  LifeInv'
<1>1. TypeOK /\ TypeOK'
  BY ReapTypeOK DEF LifeInv
<1>2. UNCHANGED <<tracked, wants, creating, destroying, commits, pending>>
  BY DEF ReapStep, ReapReleases, ReapCloses, ReapRemoves, OnlyReaps
<1>3. CASE ReapReleases(r)
  <2>1. /\ r \in condemned /\ condemned' = condemned \ {r} /\ closing' = {r}
        /\ closing = {} /\ reaping = {} /\ reaping' = {} /\ proxies' = proxies
        /\ volumes' \subseteq volumes /\ volumes' \ {r} = volumes \ {r}
        /\ leftover' \ {r} = leftover \ {r}
        /\ r \in volumes' \ leftover' =>
             \E c \in Committers : commits[c].phase = "copy" /\ commits[c].run = r
    BY <1>1, <1>3, ReleaseEnds DEF ReapReleases, InUse
  <2>2. creating[r] = "registered" /\ r \notin tracked /\ destroying[r] = "no"
    BY <2>1 DEF LifeInv, KnownRunsAreRegistered, OneKeeper, Disposing
  <2>3. KnownRunsAreRegistered' /\ OneKeeper' /\ NewRunsHoldNothing'
    BY <1>2, <2>1, <2>2
    DEF LifeInv, KnownRunsAreRegistered, OneKeeper, NewRunsHoldNothing, Disposing,
        CommittingOn, Creating
  <2>4. VolumesHaveAKeeper' /\ ProxiesHaveAKeeper' /\ ProxiesAreOpen'
    BY <1>1, <1>2, <2>1, <2>2
    DEF LifeInv, VolumesHaveAKeeper, ProxiesHaveAKeeper, ProxiesAreOpen, Creating, TypeOK
  <2>5. QED
    BY <1>1, <2>3, <2>4 DEF LifeInv
<1>4. CASE ReapCloses(r)
  <2>1. /\ r \in closing /\ closing' = closing \ {r} /\ reaping' = reaping \cup {r}
        /\ proxies' = proxies \ {r} /\ UNCHANGED <<condemned, volumes, leftover>>
    BY <1>4 DEF ReapCloses, Close
  <2>2. /\ creating[r] = "registered" /\ r \notin tracked /\ destroying[r] = "no"
        /\ r \notin condemned
    BY <2>1 DEF LifeInv, KnownRunsAreRegistered, OneKeeper, Disposing
  <2>3. KnownRunsAreRegistered' /\ OneKeeper' /\ NewRunsHoldNothing'
    BY <1>2, <2>1, <2>2
    DEF LifeInv, KnownRunsAreRegistered, OneKeeper, NewRunsHoldNothing, Disposing,
        CommittingOn, Creating
  <2>4. VolumesHaveAKeeper' /\ ProxiesHaveAKeeper' /\ ProxiesAreOpen'
    BY <1>1, <1>2, <2>1, <2>2
    DEF LifeInv, VolumesHaveAKeeper, ProxiesHaveAKeeper, ProxiesAreOpen, Creating, TypeOK
  <2>5. QED
    BY <1>1, <2>3, <2>4 DEF LifeInv
<1>5. CASE ReapRemoves(r)
  <2>1. /\ UNCHANGED <<condemned, closing, volumes, proxies, leftover>>
        /\ reaping' = reaping \ {r}
    BY <1>5 DEF ReapRemoves
  <2>2. KnownRunsAreRegistered' /\ OneKeeper' /\ NewRunsHoldNothing'
    BY <1>2, <2>1
    DEF LifeInv, KnownRunsAreRegistered, OneKeeper, NewRunsHoldNothing, Disposing,
        CommittingOn, Creating
  <2>3. VolumesHaveAKeeper' /\ ProxiesHaveAKeeper' /\ ProxiesAreOpen'
    BY <1>1, <1>2, <2>1
    DEF LifeInv, VolumesHaveAKeeper, ProxiesHaveAKeeper, ProxiesAreOpen, Creating, TypeOK
  <2>4. QED
    BY <1>1, <2>2, <2>3 DEF LifeInv
<1>6. QED
  BY <1>3, <1>4, <1>5 DEF ReapStep

\* A commit holds on to the volume from its copy until the recheck finds the
\* run tracked, or until it has released the volume itself.
LEMMA CommitKeeps ==
  ASSUME LifeInv, NEW c \in Committers,
         CommitStep(c) \/ \E r \in Runs : CommitGets(c, r)
  PROVE  LifeInv'
<1>1. TypeOK /\ TypeOK'
  BY CommitTypeOK DEF LifeInv
<1>2. /\ UNCHANGED <<tracked, wants, creating, destroying, condemned, closing, reaping,
                     proxies, pending>>
      /\ volumes' \subseteq volumes /\ volumes' \ leftover' \subseteq volumes \ leftover
  BY DEF CommitStep, CommitGets, CommitMarks, CommitUnmarks, CommitRechecks,
         CommitReleases, OnlyCommits, Releases, reaper
<1>3. \A d \in Committers : d # c => commits'[d] = commits[d]
  BY <1>1 DEF CommitStep, CommitGets, CommitMarks, CommitUnmarks, CommitRechecks,
         CommitReleases, CommitTo, TypeOK
<1>4. \/ /\ commits'[c].phase # "idle" /\ commits'[c].run \in Runs
         /\ creating[commits'[c].run] = "registered"
      \/ commits'[c].phase = "idle"
  <2> USE <1>1 DEF CommitAt, CommitPhases
  <2>1. ASSUME NEW r \in Runs, CommitGets(c, r)
        PROVE  commits'[c].run = r /\ creating[r] = "registered"
    BY <2>1, CommitStarts DEF CommitGets, LifeInv, KnownRunsAreRegistered
  <2>2. ASSUME commits[c].phase # "idle"
        PROVE  commits[c].run \in Runs /\ creating[commits[c].run] = "registered"
    BY <2>2, BusyCommits DEF LifeInv, KnownRunsAreRegistered, CommittingOn
  <2>3. CASE CommitMarks(c) \/ CommitUnmarks(c)
    BY <2>2, <2>3, CommitMoves DEF CommitMarks, CommitUnmarks
  <2>4. CASE CommitRechecks(c)
    BY <2>2, <2>4, CommitMoves, CommitEnds DEF CommitRechecks
  <2>5. CASE CommitReleases(c)
    BY <2>5, CommitEnds DEF CommitReleases
  <2>6. QED
    BY <2>1, <2>3, <2>4, <2>5 DEF CommitStep
<1>5. KnownRunsAreRegistered'
  BY <1>2, <1>3, <1>4
  DEF LifeInv, KnownRunsAreRegistered, Disposing, CommittingOn
<1>6. OneKeeper' /\ NewRunsHoldNothing' /\ ProxiesHaveAKeeper' /\ ProxiesAreOpen'
  BY <1>2 DEF LifeInv, OneKeeper, NewRunsHoldNothing, ProxiesHaveAKeeper,
              ProxiesAreOpen, Disposing, Creating
<1>7. VolumesHaveAKeeper'
  <2> DEFINE Copying == {"copy", "recheck", "release"}
  <2> SUFFICES ASSUME NEW v \in volumes' \ leftover',
                      creating[v] \notin {"open", "run", "seed", "register", "lost"},
                      v \notin tracked,
                      destroying[v] \notin {"remove", "release"}, v \notin condemned
               PROVE  \E d \in Committers :
                        commits'[d].phase \in Copying /\ commits'[d].run = v
    BY <1>2 DEF VolumesHaveAKeeper
  <2>1. PICK d \in Committers : commits[d].phase \in Copying /\ commits[d].run = v
    BY <1>2 DEF LifeInv, VolumesHaveAKeeper
  <2>2. CASE d # c
    BY <1>3, <2>1, <2>2
  <2>3. CASE d = c
    <3> USE <1>1, <2>1, <2>3 DEF CommitAt, CommitPhases
    <3>1. ~(\E r \in Runs : CommitGets(c, r)) /\ ~CommitMarks(c)
      BY DEF CommitGets, CommitMarks
    <3>2. CASE CommitUnmarks(c)
      BY <3>2, CommitMoves DEF CommitUnmarks
    <3>3. CASE CommitRechecks(c)
      BY <3>3, CommitMoves DEF CommitRechecks
    <3>4. CASE CommitReleases(c)
      <4>1. PICK e \in Committers : commits[e].phase = "copy" /\ commits[e].run = v
        BY <3>4, BusyCommits, ReleaseEnds DEF CommitReleases, InUse
      <4>2. e # c
        BY <3>4, <4>1 DEF CommitReleases
      <4>3. QED
        BY <1>3, <4>1, <4>2
    <3>5. QED
      BY <3>1, <3>2, <3>3, <3>4 DEF CommitStep
  <2>4. QED
    BY <2>2, <2>3
<1>8. QED
  BY <1>1, <1>5, <1>6, <1>7 DEF LifeInv

\* Steps that leave the runs and what they hold alone.
LEMMA ElsewhereKeeps ==
  ASSUME LifeInv, TypeOK',
         UNCHANGED <<tracked, wants, creating, destroying, condemned, closing,
                     reaping, commits, volumes, proxies, pending, leftover>>
  PROVE  LifeInv'
BY DEF LifeInv, KnownRunsAreRegistered, OneKeeper, NewRunsHoldNothing,
       VolumesHaveAKeeper, ProxiesHaveAKeeper, ProxiesAreOpen, Disposing,
       CommittingOn, Creating

\* A death forgets every run, and takes every proxy with it.
LEMMA DeathKeeps ==
  ASSUME LifeInv, TypeOK', Dies PROVE LifeInv'
<1>1. /\ \A r \in Runs : /\ creating'[r] =
                              IF creating[r] = "unborn" THEN "unborn" ELSE "lost"
                         /\ destroying'[r] = "no"
      /\ \A c \in Committers : commits'[c].phase = "idle"
      /\ tracked' = {} /\ proxies' = {}
      /\ condemned' = {} /\ closing' = {} /\ reaping' = {}
      /\ UNCHANGED <<wants, volumes, leftover>>
      /\ pending' = pending \cup {r \in Runs : creating[r] = "run"}
  BY DEF Dies, Idle
<1>2. KnownRunsAreRegistered' /\ OneKeeper' /\ ProxiesHaveAKeeper' /\ ProxiesAreOpen'
  BY <1>1
  DEF KnownRunsAreRegistered, OneKeeper, ProxiesHaveAKeeper, ProxiesAreOpen,
      Disposing, CommittingOn, Creating
<1>3. NewRunsHoldNothing' /\ VolumesHaveAKeeper'
  BY <1>1 DEF LifeInv, NewRunsHoldNothing, VolumesHaveAKeeper, TypeOK
<1>4. QED
  BY <1>2, <1>3 DEF LifeInv

LEMMA DaemonKeeps ==
  ASSUME LifeInv, DaemonStep PROVE LifeInv'
<1>1. TypeOK'
  BY DaemonTypeOK DEF LifeInv
<1>2. CASE Crash \/ Exit
  BY <1>1, <1>2, DeathKeeps DEF Crash, Exit
<1>3. CASE ~(Crash \/ Exit)
  <2>1. UNCHANGED <<tracked, wants, creating, destroying, condemned, closing,
                    reaping, commits, volumes, proxies, pending, leftover>>
    BY <1>3 DEF DaemonStep, Tick, Drain, CleanUp, Restart, SkipDead, handlers,
                reaper, owned, left
  <2>2. QED
    BY <1>1, <2>1, ElsewhereKeeps
<1>4. QED
  BY <1>2, <1>3

-----------------------------------------------------------------------------
(* The theorems. *)

LEMMA InitLifeInv == Init => LifeInv
BY InitTypeOK
DEF Init, LifeInv, KnownRunsAreRegistered, OneKeeper, NewRunsHoldNothing,
    VolumesHaveAKeeper, ProxiesHaveAKeeper, ProxiesAreOpen, Disposing,
    CommittingOn, Creating, Idle

LEMMA NextLifeInv == LifeInv /\ [Next]_vars => LifeInv'
<1> SUFFICES ASSUME LifeInv, [Next]_vars PROVE LifeInv'
  OBVIOUS
<1>1. CASE DaemonStep
  BY <1>1, DaemonKeeps
<1>2. CASE \E r \in Runs : \E q \in Request, ttl \in 1 .. MaxTTL : CreateBegins(r, q, ttl)
  BY <1>2, BeginsKeep
<1>3. CASE \E r \in Runs : CreateStep(r)
  BY <1>3, CreateKeeps
<1>4. CASE \E r \in Runs : DestroyUntracks(r) \/ DestroyStep(r)
  BY <1>4, DestroyKeeps
<1>5. CASE \E read \in 0 .. now : ReapUntracks(read)
  BY <1>5, ReapUntracksKeeps
<1>6. CASE \E r \in Runs : ReapStep(r)
  BY <1>6, ReapKeeps
<1>7. CASE \E c \in Committers : CommitStep(c) \/ \E r \in Runs : CommitGets(c, r)
  BY <1>7, CommitKeeps
<1>8. CASE UNCHANGED vars
  <2>1. TypeOK'
    BY <1>8 DEF LifeInv, TypeOK, vars, clock, handlers, reaper, shutdown, owned, left,
                bounds
  <2>2. QED
    BY <1>8, <2>1, ElsewhereKeeps DEF vars, handlers, reaper, owned, left
<1>9. CASE \E r \in Runs : EngineMakes(r)
  BY <1>9, EngineKeeps
<1>10. QED
  BY <1>1, <1>2, <1>3, <1>4, <1>5, <1>6, <1>7, <1>8, <1>9 DEF Next, DaemonStep

\* The inductive invariant: a run that is known has come through Create, and
\* what a run holds waits for somebody who is still to give it back.
THEOREM LifeInvariant == Spec => []LifeInv
BY InitLifeInv, NextLifeInv, PTL DEF Spec

\* Every variable keeps its type, and only runs that asked for a volume or a
\* proxy ever hold one.
THEOREM TypeCorrect == Spec => []TypeOK
<1>1. LifeInv => TypeOK
  BY DEF LifeInv
<1>2. QED
  BY <1>1, LifeInvariant, PTL

\* Create, the registry, Destroy and Reap never have the same run at once: a
\* Destroy that fails and is retried does not meet the reaper on it.
THEOREM RunsHaveOneKeeper == Spec => []OneKeeper
<1>1. LifeInv => OneKeeper
  BY DEF LifeInv
<1>2. QED
  BY <1>1, LifeInvariant, PTL

\* A run that no map entry and no goroutine knows any more has no private proxy,
\* and no volume but one whose removal failed or that docker made anew, unless
\* the daemon died under it.
THEOREM ForgottenRunsAreClean == Spec => []ForgottenRunsHoldNothing
<1>1. LifeInv => ForgottenRunsHoldNothing
  BY DEF LifeInv, ForgottenRunsHoldNothing, VolumesHaveAKeeper, ProxiesHaveAKeeper,
         Forgotten, Creating, Disposing, CommittingOn
<1>2. QED
  BY <1>1, LifeInvariant, PTL

\* A run that callers can reach has the private proxy it asked for, whatever
\* Destroy has failed at before.
THEOREM ReachableRunsHaveTheirProxy == Spec => []TrackedRunsKeepTheirProxy
<1>1. LifeInv => TrackedRunsKeepTheirProxy
  BY DEF LifeInv, TrackedRunsKeepTheirProxy, ProxiesAreOpen, TypeOK
<1>2. QED
  BY <1>1, LifeInvariant, PTL

-----------------------------------------------------------------------------
(* Containers. *)

\* What both invariants look at moves in one step each: a new container is of
\* a run that Create has in hand or gave up, and a run passes from hand to hand.
LEMMA NextContainers ==
  ASSUME LifeInv, LifeInv', ContainersComeAndGo, ContainersAreKnown, [Next]_vars
  PROVE  ContainersComeAndGo' /\ ContainersAreKnown'
<1> USE DEF ContainersComeAndGo, ContainersAreKnown, Disposing, Creating, Up
<1> TypeOK /\ TypeOK'
  BY DEF LifeInv
<1>1. ASSUME DaemonStep PROVE ContainersComeAndGo' /\ ContainersAreKnown'
  <2>1. CASE Crash \/ Exit
    <3>1. Dies
      BY <2>1 DEF Crash, Exit
    <3>2. /\ \A r \in Runs : /\ destroying'[r] = "no"
                           /\ creating'[r] = IF creating[r] = "unborn"
                                             THEN "unborn" ELSE "lost"
          /\ daemon' = "down" /\ containers' = containers
      BY <3>1 DEF Dies
    <3>3. QED
      BY <3>2 DEF TypeOK
  <2>2. CASE Tick \/ Drain \/ CleanUp \/ \E r \in Runs : SkipDead(r)
    BY <2>2 DEF Tick, Drain, CleanUp, SkipDead, handlers, reaper, owned, left, bounds
  <2>3. CASE Restart
    BY <2>3 DEF Restart, SweepOrphans, Fault, handlers, reaper, TypeOK
  <2>4. QED
    BY <1>1, <2>1, <2>2, <2>3 DEF DaemonStep
<1>2. ASSUME NEW r \in Runs, CreateStep(r)
      PROVE  ContainersComeAndGo' /\ ContainersAreKnown'
  <2>1. destroying[r] = "no"
    BY <1>2, CreatedAlone DEF CreateStep, CreateBoots, CreateOpens, CreateRuns,
                             CreateSeeds, CreateCloses, CreateRegisters, CreateAt
  <2> USE <2>1 DEF TypeOK, CreateAt, GoesOn, Fault, OnlyCreates, reaper
  <2>2. CASE CreateBoots(r) \/ CreateOpens(r)
    BY <2>2 DEF CreateBoots, CreateOpens, left
  <2>3. CASE CreateRuns(r)
    BY <2>3 DEF CreateRuns, left
  <2>4. CASE CreateSeeds(r)
    <3>1. /\ \A p \in Runs : p # r => creating'[p] = creating[p]
          /\ UNCHANGED <<daemon, tracked, destroying, condemned, closing, reaping>>
          /\ \/ creating'[r] = "register" /\ UNCHANGED <<containers, strays>>
             \/ creating'[r] = "close" /\ GivesUp(r)
      BY <2>4 DEF CreateSeeds
    <3>2. QED
      BY <2>4, <3>1 DEF CreateSeeds, GivesUp
  <2>5. CASE CreateCloses(r)
    BY <2>5 DEF CreateCloses, left
  <2>6. CASE CreateRegisters(r)
    BY <2>6 DEF CreateRegisters, owned, left
  <2>7. QED
    BY <1>2, <2>2, <2>3, <2>4, <2>5, <2>6 DEF CreateStep
<1>3. ASSUME NEW r \in Runs, NEW q \in Request, NEW ttl \in 1 .. MaxTTL,
             CreateBegins(r, q, ttl)
      PROVE  ContainersComeAndGo' /\ ContainersAreKnown'
  BY <1>3 DEF CreateBegins, GoesOn, TypeOK, reaper, owned, left, bounds
<1>4. ASSUME NEW r \in Runs, DestroyUntracks(r) \/ DestroyStep(r)
      PROVE  ContainersComeAndGo' /\ ContainersAreKnown'
  <2> USE DEF TypeOK, Fault, reaper, left
  <2>1. CASE DestroyUntracks(r)
    BY <2>1 DEF DestroyUntracks, owned, bounds
  <2>2. CASE DestroyRemoves(r)
    BY <2>2 DEF DestroyRemoves, bounds
  <2>3. CASE DestroyRetracks(r)
    BY <2>3 DEF DestroyRetracks, MayHaveRemoved
  <2>4. CASE DestroyReleases(r)
    BY <2>4 DEF DestroyReleases, bounds
  <2>5. CASE DestroyCloses(r)
    BY <2>5 DEF DestroyCloses, bounds
  <2>6. QED
    BY <1>4, <2>1, <2>2, <2>3, <2>4, <2>5 DEF DestroyStep
<1>5. ASSUME NEW read \in 0 .. now, ReapUntracks(read)
      PROVE  ContainersComeAndGo' /\ ContainersAreKnown'
  BY <1>5 DEF ReapUntracks, owned, left, bounds
<1>6. ASSUME NEW r \in Runs, ReapStep(r)
      PROVE  ContainersComeAndGo' /\ ContainersAreKnown'
  <2> USE DEF OnlyReaps
  <2>1. CASE ReapReleases(r)
    BY <2>1 DEF ReapReleases
  <2>2. CASE ReapCloses(r)
    BY <2>2 DEF ReapCloses
  <2>3. CASE ReapRemoves(r)
    BY <2>3 DEF ReapRemoves, GivesUp, Fault, TypeOK
  <2>4. QED
    BY <1>6, <2>1, <2>2, <2>3 DEF ReapStep
<1>7. ASSUME NEW c \in Committers, CommitStep(c) \/ \E r \in Runs : CommitGets(c, r)
      PROVE  ContainersComeAndGo' /\ ContainersAreKnown'
  BY <1>7 DEF CommitStep, CommitGets, CommitMarks, CommitUnmarks, CommitRechecks,
              CommitReleases, OnlyCommits, reaper, bounds
<1>8. ASSUME NEW r \in Runs, EngineMakes(r)
      PROVE  ContainersComeAndGo' /\ ContainersAreKnown'
  <2>1. creating[r] \in {"close", "failed", "lost"} /\ destroying[r] = "no"
    BY <1>8, CreatedAlone DEF EngineMakes, LifeInv, NewRunsHoldNothing
  <2>2. QED
    BY <1>8, <2>1 DEF EngineMakes, handlers, reaper
<1>9. CASE UNCHANGED vars
  BY <1>9 DEF vars, handlers, reaper, owned, left, bounds
<1>10. QED
  BY <1>1, <1>2, <1>3, <1>4, <1>5, <1>6, <1>7, <1>8, <1>9 DEF Next, DaemonStep

\* A daemon that is up knows every container, or failed to remove it, or gave up
\* its docker run, since the last sweep: however often removals fail and
\* are retried, and however often the daemon dies.
THEOREM ContainersStayKnown == Spec => []ContainersAreKnown
<1>1. Init => ContainersComeAndGo /\ ContainersAreKnown
  BY DEF Init, ContainersComeAndGo, ContainersAreKnown
<1>2. QED
  BY <1>1, LifeInvariant, NextContainers, PTL DEF Spec

=============================================================================

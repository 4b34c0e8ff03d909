--------------------------- MODULE WritableLease ---------------------------
(***************************************************************************)
(* The writable lease of a sandbox run (src/internal/run/lease.go) and the *)
(* part of the registry it depends on (src/internal/run/manager.go).       *)
(*                                                                         *)
(* Every critical section of Manager.mu is one action; a handler that      *)
(* leaves the lock to call the container runtime is several.  A request    *)
(* that the code refuses changes nothing, so a refusal is the absence of a *)
(* step.                                                                   *)
(***************************************************************************)
EXTENDS Integers, FiniteSets

CONSTANTS
  Runs,        \* run ids; an id names at most one run, ever
  Owners,      \* lease owners that survive TrimSpace
  Sessions,    \* the handler goroutines that exec or write
  NoOwner,     \* the empty owner: refused by the lease calls
  NoLease,     \* Run.Lease = nil
  NoSession,   \* a handler with nothing admitted
  MaxTTL,      \* the longest time to live, of a run or of a lease
  TimeBound,   \* bound: the clock stops here
  GenBound,    \* bound: no grant beyond this generation
  ExecBound,   \* bound: no admission beyond this in-flight count
  OrphanBound  \* bound: this many orphaned commands at a time

Credential == [owner : Owners \cup {NoOwner}, generation : Nat]

\* Generations start at 1: a credential without one never matches.
LeaseState == [holder : Owners, generation : Nat \ {0}, expiresAt : Nat]

Phases == {"admitted", "exec", "write", "returned"}

Session == [run : Runs, cred : Credential, phase : Phases]

Command == [run : Runs, cred : Credential]

ASSUME FiniteSessions == IsFiniteSet(Sessions)
ASSUME BoundsAreNat == {MaxTTL, TimeBound, GenBound, ExecBound, OrphanBound} \subseteq Nat
ASSUME SentinelsAreFresh ==
  /\ NoOwner \notin Owners
  /\ NoLease \notin LeaseState
  /\ NoSession \notin Session \cup Command

VARIABLES
  now,        \* m.now(), monotone
  life,       \* where the run is: see Lives
  deadline,   \* Run.ExpiresAt
  lease,      \* Run.Lease
  leaseGen,   \* Run.leaseGen
  execs,      \* Run.execs
  sessions,   \* the exec or write each handler has in hand
  orphans     \* commands that run on in a container after their docker CLI died

registry == <<life, deadline>>
vars == <<now, life, deadline, lease, leaseGen, execs, sessions, orphans>>

-----------------------------------------------------------------------------
(***************************************************************************)
(* "fresh": not created.  "tracked": in m.runs.  "removing": Destroy took  *)
(* it out of m.runs and waits for runtime.Remove.  "gone": untracked for   *)
(* good, by Destroy or by Reap.                                            *)
(***************************************************************************)
Lives == {"fresh", "tracked", "removing", "gone"}

Tracked(r) == life[r] = "tracked"

Valid(ttl) == ttl > 0 /\ ttl <= MaxTTL

\* What a caller may send: a lifetime in or out of range, any credential.
TTLInputs == 0 .. MaxTTL + 1
CredInputs == [owner : Owners \cup {NoOwner}, generation : 0 .. GenBound]

\* activeLease: the lease, unless it has lapsed.
ActiveLease(r) ==
  IF lease[r] # NoLease /\ lease[r].expiresAt > now THEN lease[r] ELSE NoLease

Leased(r) == ActiveLease(r) # NoLease

CredOf(l) == [owner |-> l.holder, generation |-> l.generation]

\* Mutant of PassesFence: the generation is not compared.
PassesFenceByOwner(r, cred) == Leased(r) => cred.owner = lease[r].holder

\* checkFence: with no active lease every caller passes.
PassesFence(r, cred) == Leased(r) => cred = CredOf(lease[r])

Running(s) == sessions[s] # NoSession
InFlight(r) == {s \in Sessions : Running(s) /\ sessions[s].run = r}

-----------------------------------------------------------------------------
Init ==
  /\ now = 0
  /\ life = [r \in Runs |-> "fresh"]
  /\ deadline = [r \in Runs |-> 0]
  /\ lease = [r \in Runs |-> NoLease]
  /\ leaseGen = [r \in Runs |-> 0]
  /\ execs = [r \in Runs |-> 0]
  /\ sessions = [s \in Sessions |-> NoSession]
  /\ orphans = {}

\* The clock; it is read under the lock but never stopped by it.
Tick ==
  /\ now < TimeBound
  /\ now' = now + 1
  /\ UNCHANGED <<registry, lease, leaseGen, execs, sessions, orphans>>

-----------------------------------------------------------------------------
(* The registry, as far as the lease sees it. *)

\* The last critical section of Manager.Create, which read the clock when
\* it began.
Create(r, began, ttl) ==
  /\ life[r] = "fresh"
  /\ Valid(ttl)
  /\ life' = [life EXCEPT ![r] = "tracked"]
  /\ deadline' = [deadline EXCEPT ![r] = began + ttl]
  /\ UNCHANGED <<now, lease, leaseGen, execs, sessions, orphans>>

\* Destroy takes the run out of the map ...
DestroyUntracks(r) ==
  /\ Tracked(r)
  /\ life' = [life EXCEPT ![r] = "removing"]
  /\ UNCHANGED <<now, deadline, lease, leaseGen, execs, sessions, orphans>>

\* ... and the container is removed, with every command in it ...
DestroyRemoves(r) ==
  /\ life[r] = "removing"
  /\ life' = [life EXCEPT ![r] = "gone"]
  /\ orphans' = {c \in orphans : c.run # r}
  /\ UNCHANGED <<now, deadline, lease, leaseGen, execs, sessions>>

\* ... or the removal fails and the same *Run goes back into the map.
DestroyRetracks(r) ==
  /\ life[r] = "removing"
  /\ life' = [life EXCEPT ![r] = "tracked"]
  /\ UNCHANGED <<now, deadline, lease, leaseGen, execs, sessions, orphans>>

Expired(t) == {r \in Runs : Tracked(r) /\ deadline[r] <= t}

\* Reap untracks every expired run at once and never tracks it again; it
\* reads the clock before it takes the lock.
Reap(read) ==
  /\ Expired(read) # {}
  /\ life' = [r \in Runs |-> IF r \in Expired(read) THEN "gone" ELSE life[r]]
  /\ UNCHANGED <<now, deadline, lease, leaseGen, execs, sessions, orphans>>

-----------------------------------------------------------------------------
(* The three lease calls. *)

\* Mutants of AcquireLease: the generation granted is the one before the
\* increment; and the in-flight count is not consulted.
AcquireLeasePostIncrement(r, owner, ttl) ==
  /\ Valid(ttl) /\ Tracked(r) /\ execs[r] = 0 /\ leaseGen[r] < GenBound
  /\ Leased(r) => lease[r].holder = owner
  /\ leaseGen' = [leaseGen EXCEPT ![r] = @ + 1]
  /\ lease' = [lease EXCEPT ![r] =
       [holder |-> owner, generation |-> leaseGen[r], expiresAt |-> now + ttl]]
  /\ UNCHANGED <<now, registry, execs, sessions, orphans>>

AcquireLeaseWhileBusy(r, owner, ttl) ==
  /\ Valid(ttl) /\ Tracked(r) /\ leaseGen[r] < GenBound
  /\ Leased(r) => lease[r].holder = owner
  /\ leaseGen' = [leaseGen EXCEPT ![r] = @ + 1]
  /\ lease' = [lease EXCEPT ![r] =
       [holder |-> owner, generation |-> leaseGen[r] + 1, expiresAt |-> now + ttl]]
  /\ UNCHANGED <<now, registry, execs, sessions, orphans>>

AcquireLease(r, owner, ttl) ==
  /\ Valid(ttl)
  /\ Tracked(r)
  /\ Leased(r) => lease[r].holder = owner
  /\ execs[r] = 0
  /\ leaseGen[r] < GenBound
  /\ leaseGen' = [leaseGen EXCEPT ![r] = @ + 1]
  /\ lease' = [lease EXCEPT ![r] =
       [holder |-> owner, generation |-> leaseGen[r] + 1, expiresAt |-> now + ttl]]
  /\ UNCHANGED <<now, registry, execs, sessions, orphans>>

\* Mutant of RenewLease: the holder may renew after the lease has lapsed.
RenewLeaseLapsed(r, owner, generation, ttl) ==
  /\ Valid(ttl) /\ Tracked(r) /\ lease[r] # NoLease
  /\ CredOf(lease[r]) = [owner |-> owner, generation |-> generation]
  /\ lease' = [lease EXCEPT ![r] =
       [holder |-> owner, generation |-> generation, expiresAt |-> now + ttl]]
  /\ UNCHANGED <<now, registry, leaseGen, execs, sessions, orphans>>

\* RenewLease reads the clock twice, to test the lease and to extend it; the
\* clock may move in between.
RenewLease(r, owner, generation, ttl) ==
  /\ Valid(ttl)
  /\ Tracked(r)
  /\ Leased(r)
  /\ CredOf(lease[r]) = [owner |-> owner, generation |-> generation]
  /\ now' \in {now, now + 1}
  /\ now' <= TimeBound
  /\ lease' = [lease EXCEPT ![r] =
       [holder |-> owner, generation |-> generation, expiresAt |-> now' + ttl]]
  /\ UNCHANGED <<registry, leaseGen, execs, sessions, orphans>>

\* ReleaseLease does not ask the clock: a lapsed lease may be given back.
ReleaseLease(r, owner, generation) ==
  /\ Tracked(r)
  /\ lease[r] # NoLease
  /\ CredOf(lease[r]) = [owner |-> owner, generation |-> generation]
  /\ lease' = [lease EXCEPT ![r] = NoLease]
  /\ UNCHANGED <<now, registry, leaseGen, execs, sessions, orphans>>

-----------------------------------------------------------------------------
(* Execs and file writes. *)

\* The fence check and the in-flight mark, in one critical section.
Admit(s, r, cred, phase) ==
  /\ ~Running(s)
  /\ Tracked(r)
  /\ PassesFence(r, cred)
  /\ execs[r] < ExecBound
  /\ execs' = [execs EXCEPT ![r] = @ + 1]
  /\ sessions' = [sessions EXCEPT ![s] =
       [run |-> r, cred |-> cred, phase |-> phase]]
  /\ UNCHANGED <<now, registry, lease, leaseGen, orphans>>

BeginExec(s, r, cred) == Admit(s, r, cred, "admitted")

\* Mutant of WriteFile: the write is fenced but takes no in-flight slot.
WriteFileUnreserved(s, r, cred) ==
  /\ ~Running(s) /\ Tracked(r) /\ PassesFence(r, cred)
  /\ sessions' = [sessions EXCEPT ![s] =
       [run |-> r, cred |-> cred, phase |-> "write"]]
  /\ UNCHANGED <<now, registry, lease, leaseGen, execs, orphans>>

\* WriteFile goes on to runtime.WriteFile in the same function.
WriteFile(s, r, cred) == Admit(s, r, cred, "write")

Enter(s, phase) ==
  sessions' = [sessions EXCEPT ![s].phase = phase]

\* ExecSession.Exec calls runtime.Exec.
StartExec(s) ==
  /\ Running(s)
  /\ sessions[s].phase = "admitted"
  /\ Enter(s, "exec")
  /\ UNCHANGED <<now, registry, lease, leaseGen, execs, orphans>>

\* Mutant of RuntimeReturns: the handler defers Abandon on top of Exec's own
\* release.
RuntimeReturnsAndAbandons(s) ==
  /\ Running(s) /\ sessions[s].phase \in {"exec", "write"}
  /\ Enter(s, "returned")
  /\ execs' = [execs EXCEPT ![sessions[s].run] = IF @ > 0 THEN @ - 1 ELSE 0]
  /\ UNCHANGED <<now, registry, lease, leaseGen, orphans>>

\* The runtime call ends with the command it ran.
RuntimeReturns(s) ==
  /\ Running(s)
  /\ sessions[s].phase \in {"exec", "write"}
  /\ Enter(s, "returned")
  /\ UNCHANGED <<now, registry, lease, leaseGen, execs, orphans>>

\* The client of an exec disconnects, or the CLI outlives the timeout by the
\* grace: CommandContext kills the docker CLI and the call returns, but
\* nothing in the container is killed from outside.
ExecCancelled(s) ==
  /\ Running(s)
  /\ sessions[s].phase = "exec"
  /\ Cardinality(orphans) < OrphanBound
  /\ Enter(s, "returned")
  /\ orphans' = orphans \cup {[run |-> sessions[s].run, cred |-> sessions[s].cred]}
  /\ UNCHANGED <<now, registry, lease, leaseGen, execs>>

\* An orphan ends by itself or by the in-container timeout.
OrphanEnds(c) ==
  /\ c \in orphans
  /\ orphans' = orphans \ {c}
  /\ UNCHANGED <<now, registry, lease, leaseGen, execs, sessions>>

\* finishExec by run id: an untracked run is left alone.
ReleaseSlot(r) ==
  execs' = IF Tracked(r) /\ execs[r] > 0
           THEN [execs EXCEPT ![r] = @ - 1]
           ELSE execs

\* finishExec after the runtime call, or Abandon before it.
FinishExec(s) ==
  /\ Running(s)
  /\ sessions[s].phase \in {"admitted", "returned"}
  /\ ReleaseSlot(sessions[s].run)
  /\ sessions' = [sessions EXCEPT ![s] = NoSession]
  /\ UNCHANGED <<now, registry, lease, leaseGen, orphans>>

-----------------------------------------------------------------------------
RegistryStep ==
  \/ \E r \in Runs, began \in 0 .. now, ttl \in TTLInputs : Create(r, began, ttl)
  \/ \E r \in Runs : DestroyUntracks(r)
  \/ \E r \in Runs : DestroyRemoves(r)
  \/ \E r \in Runs : DestroyRetracks(r)
  \/ \E read \in 0 .. now : Reap(read)

LeaseStep ==
  \E r \in Runs, owner \in Owners :
    \/ \E ttl \in TTLInputs : AcquireLease(r, owner, ttl)
    \/ \E generation \in 0 .. GenBound :
         \/ \E ttl \in TTLInputs : RenewLease(r, owner, generation, ttl)
         \/ ReleaseLease(r, owner, generation)

SessionStep ==
  \E s \in Sessions :
    \/ \E r \in Runs, cred \in CredInputs : BeginExec(s, r, cred)
    \/ \E r \in Runs, cred \in CredInputs : WriteFile(s, r, cred)
    \/ StartExec(s)
    \/ RuntimeReturns(s)
    \/ ExecCancelled(s)
    \/ FinishExec(s)

Next ==
  \/ Tick
  \/ RegistryStep
  \/ LeaseStep
  \/ SessionStep
  \/ \E c \in orphans : OrphanEnds(c)

Spec == Init /\ [][Next]_vars

-----------------------------------------------------------------------------
(* Properties *)

TypeOK ==
  /\ now \in Nat
  /\ life \in [Runs -> Lives]
  /\ deadline \in [Runs -> Nat]
  /\ lease \in [Runs -> LeaseState \cup {NoLease}]
  /\ leaseGen \in [Runs -> Nat]
  /\ execs \in [Runs -> Nat]
  /\ sessions \in [Sessions -> Session \cup {NoSession}]
  /\ orphans \subseteq Command

\* A lease always carries the latest generation granted on its run.
LeaseIsLatestGrant ==
  \A r \in Runs : lease[r] # NoLease => lease[r].generation = leaseGen[r]

\* execs never undercounts: a slot is not given back while its exec or write
\* is in flight, whatever Destroy and Reap do to the registry meanwhile.
CountCoversInFlight ==
  \A r \in Runs : Cardinality(InFlight(r)) <= execs[r]

\* The fence holds over time and not only at admission: as long as a lease is
\* active, everything in flight on its run was admitted with its credential.
FencedSessions ==
  \A r \in Runs : \A s \in InFlight(r) :
    Leased(r) => sessions[s].cred = CredOf(lease[r])

\* The inductive invariant.
LeaseInv ==
  TypeOK /\ LeaseIsLatestGrant /\ CountCoversInFlight /\ FencedSessions

\* "credentials from any earlier lease can never pass the fence again": a
\* credential that becomes active has a generation above every one granted.
DeadCredentialsStayDead ==
  [][\A r \in Runs :
       Leased(r)' /\ (Leased(r) => CredOf(lease[r])' # CredOf(lease[r]))
         => lease'[r].generation > leaseGen[r]]_vars

\* "takeover happens only between execs, never under one": no grant is made
\* while an exec or a write of that run has not come back to the daemon.
TakeoverBetweenExecs ==
  [][\A r \in Runs : leaseGen'[r] # leaseGen[r] => InFlight(r) = {}]_vars

-----------------------------------------------------------------------------
(* The lease implements the abstract exclusive writer: its holder is the   *)
(* holder of the active lease, its epoch the generation counter, and a     *)
(* writer is in a run from its admission until its slot is given back.     *)
HolderOf(r) == IF Leased(r) THEN lease[r].holder ELSE NoOwner

Admission(s) ==
  IF Running(s) THEN [run |-> sessions[s].run, cred |-> sessions[s].cred]
  ELSE NoSession

EW == INSTANCE ExclusiveWriter WITH
  Writers <- Sessions, Credentials <- CredInputs, Nobody <- NoOwner,
  Idle <- NoSession, epoch <- leaseGen,
  holder <- [r \in Runs |-> HolderOf(r)],
  writing <- [s \in Sessions |-> Admission(s)]

\* The code as a whole behaves like the abstract exclusive writer: a grant
\* is never made over another holder, under a writer or twice.
ImplementsExclusiveWriter == EW!Spec

-----------------------------------------------------------------------------
(* What the comments say and the code does not do: see the README. *)

\* "a long-running exec delays a takeover up to its timeout": no command in
\* the container outlives the lease it was admitted under into another one.
NoCommandUnderForeignLease ==
  \A c \in orphans :
    Tracked(c.run) /\ Leased(c.run) => c.cred = CredOf(lease[c.run])

=============================================================================

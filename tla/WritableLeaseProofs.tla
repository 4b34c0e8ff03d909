------------------------- MODULE WritableLeaseProofs -------------------------
(***************************************************************************)
(* The writable lease for every set of runs, owners and handlers and every *)
(* value of the bounds.                                                    *)
(*                                                                         *)
(* FencedSessions is not inductive by itself: that a grant finds the run   *)
(* empty follows from execs = 0 only because execs never undercounts the   *)
(* exec and writes in flight (CountCoversInFlight), whatever Destroy does  *)
(* to the registry while they run.                                         *)
(***************************************************************************)
EXTENDS WritableLease, FiniteSetTheorems, TLAPS

(* The steps, under the names the proofs split on. *)

LeaseCall(r, owner) ==
  \/ \E ttl \in TTLInputs : AcquireLease(r, owner, ttl)
  \/ \E generation \in 0 .. GenBound :
       \/ \E ttl \in TTLInputs : RenewLease(r, owner, generation, ttl)
       \/ ReleaseLease(r, owner, generation)

RunStep(r) ==
  \/ \E began \in 0 .. now, ttl \in TTLInputs : Create(r, began, ttl)
  \/ DestroyUntracks(r)
  \/ DestroyRemoves(r)
  \/ DestroyRetracks(r)

-----------------------------------------------------------------------------
(* What the steps do to the sets the invariant counts. *)

\* The runs' in-flight sets are finite, so their cardinality is a number.
LEMMA InFlightFinite ==
  \A r : IsFiniteSet(InFlight(r)) /\ Cardinality(InFlight(r)) \in Nat
<1>1. \A r : InFlight(r) \subseteq Sessions
  BY DEF InFlight
<1>2. QED
  BY <1>1, FiniteSessions, FS_Subset, FS_CardinalityType

\* A run that counts no exec has none in flight: what a grant relies on.
LEMMA IdleRunIsEmpty ==
  ASSUME CountCoversInFlight, NEW r \in Runs, execs[r] = 0
  PROVE  InFlight(r) = {}
<1>1. Cardinality(InFlight(r)) = 0
  BY InFlightFinite DEF CountCoversInFlight
<1>2. QED
  BY <1>1, InFlightFinite, FS_EmptySet

\* An admission adds the handler to its own run and to no other.
LEMMA AdmitInFlight ==
  ASSUME TypeOK, NEW s \in Sessions, NEW r \in Runs, NEW cred \in Credential,
         NEW phase \in Phases, Admit(s, r, cred, phase)
  PROVE  /\ s \notin InFlight(r)
         /\ \A q \in Runs :
              InFlight(q)' = IF q = r THEN InFlight(q) \cup {s} ELSE InFlight(q)
<1>1. ~Running(s) /\ s \notin InFlight(r)
  BY DEF Admit, InFlight
<1>2. [run |-> r, cred |-> cred, phase |-> phase] \in Session
  BY DEF Session
<1>3. \A t \in Sessions :
        sessions'[t] = IF t = s THEN [run |-> r, cred |-> cred, phase |-> phase]
                                ELSE sessions[t]
  BY DEF Admit, TypeOK
<1>4. sessions'[s] # NoSession /\ sessions'[s].run = r
  BY <1>2, <1>3, SentinelsAreFresh
<1>5. ASSUME NEW q \in Runs
      PROVE  InFlight(q)' = IF q = r THEN InFlight(q) \cup {s} ELSE InFlight(q)
  BY <1>1, <1>3, <1>4 DEF InFlight, Running
<1>6. QED
  BY <1>1, <1>5

\* Moving on inside a handler leaves every in-flight set as it is.
LEMMA EnterInFlight ==
  ASSUME TypeOK, NEW s \in Sessions, Running(s), NEW phase \in Phases,
         Enter(s, phase)
  PROVE  /\ sessions' \in [Sessions -> Session \cup {NoSession}]
         /\ \A q \in Runs : InFlight(q)' = InFlight(q)
         /\ \A t \in Sessions : Running(t)' <=> Running(t)
         /\ \A t \in Sessions : Running(t)
              => sessions'[t].cred = sessions[t].cred /\ sessions'[t].run = sessions[t].run
<1>1. sessions[s] \in Session
  BY DEF TypeOK, Running
<1>2. \A t \in Sessions :
        sessions'[t] = IF t = s THEN [sessions[s] EXCEPT !.phase = phase]
                                ELSE sessions[t]
  BY DEF Enter, TypeOK
<1>3. sessions'[s] \in Session /\ sessions'[s].run = sessions[s].run
                               /\ sessions'[s].cred = sessions[s].cred
  BY <1>1, <1>2 DEF Session
<1>4. sessions'[s] # NoSession
  BY <1>3, SentinelsAreFresh
<1>5. \A t \in Sessions : Running(t)' <=> Running(t)
  BY <1>2, <1>4 DEF Running
<1>6. \A q \in Runs : InFlight(q)' = InFlight(q)
  BY <1>2, <1>3, <1>5 DEF InFlight
<1>7. sessions' \in [Sessions -> Session \cup {NoSession}]
  <2>1. sessions' = [sessions EXCEPT ![s] = [sessions[s] EXCEPT !.phase = phase]]
    BY DEF Enter
  <2>2. [sessions[s] EXCEPT !.phase = phase] \in Session
    BY <1>1 DEF Session
  <2>3. QED
    BY <2>1, <2>2 DEF TypeOK
<1>8. QED
  BY <1>2, <1>3, <1>5, <1>6, <1>7

\* A finished handler leaves its own run and no other.
LEMMA FinishInFlight ==
  ASSUME TypeOK, NEW s \in Sessions, FinishExec(s)
  PROVE  /\ s \in InFlight(sessions[s].run)
         /\ sessions[s].run \in Runs
         /\ \A q \in Runs : InFlight(q)' = InFlight(q) \ {s}
         /\ \A q \in Runs : q # sessions[s].run => InFlight(q)' = InFlight(q)
<1>1. Running(s) /\ sessions[s] \in Session
  BY DEF FinishExec, Running, TypeOK
<1>2. \A t \in Sessions :
        sessions'[t] = IF t = s THEN NoSession ELSE sessions[t]
  BY DEF FinishExec, TypeOK
<1>3. \A q \in Runs : InFlight(q)' = InFlight(q) \ {s}
  BY <1>2 DEF InFlight, Running
<1>4. QED
  BY <1>1, <1>3 DEF InFlight, Session

-----------------------------------------------------------------------------
(* Type correctness. *)

\* What the bounds and the inputs of a step range over.
LEMMA InputTypes ==
  /\ MaxTTL \in Nat /\ GenBound \in Nat /\ TimeBound \in Nat
  /\ TTLInputs \subseteq Nat
  /\ CredInputs \subseteq Credential
BY BoundsAreNat DEF TTLInputs, CredInputs, Credential

LEMMA InitTypeOK == Init => TypeOK
BY DEF Init, TypeOK, Lives, Command

LEMMA NextTypeOK == TypeOK /\ [Next]_vars => TypeOK'
<1> SUFFICES ASSUME TypeOK, [Next]_vars PROVE TypeOK'
  OBVIOUS
<1> USE InputTypes
<1>1. CASE Tick
  BY <1>1 DEF Tick, TypeOK, registry
<1>2. ASSUME NEW r \in Runs, RunStep(r) PROVE TypeOK'
  <2>1. CASE \E began \in 0 .. now, ttl \in TTLInputs : Create(r, began, ttl)
    BY <2>1 DEF Create, Valid, TypeOK, Lives
  <2>2. CASE DestroyUntracks(r) \/ DestroyRetracks(r)
    BY <2>2 DEF DestroyUntracks, DestroyRetracks, TypeOK, Lives
  <2>3. CASE DestroyRemoves(r)
    BY <2>3 DEF DestroyRemoves, TypeOK, Lives
  <2>4. QED
    BY <1>2, <2>1, <2>2, <2>3 DEF RunStep
<1>3. ASSUME NEW read \in 0 .. now, Reap(read) PROVE TypeOK'
  BY <1>3 DEF Reap, TypeOK, Lives
<1>4. ASSUME NEW r \in Runs, NEW owner \in Owners, LeaseCall(r, owner)
      PROVE  TypeOK'
  <2>1. ASSUME NEW ttl \in TTLInputs, AcquireLease(r, owner, ttl) PROVE TypeOK'
    <3>1. [holder |-> owner, generation |-> leaseGen[r] + 1, expiresAt |-> now + ttl]
            \in LeaseState
      BY DEF LeaseState, TypeOK
    <3>2. lease' \in [Runs -> LeaseState \cup {NoLease}]
      BY <2>1, <3>1 DEF AcquireLease, TypeOK
    <3>3. leaseGen' \in [Runs -> Nat]
      BY <2>1 DEF AcquireLease, TypeOK
    <3>4. QED
      BY <2>1, <3>2, <3>3 DEF AcquireLease, TypeOK, registry
  <2>2. ASSUME NEW generation \in 0 .. GenBound, NEW ttl \in TTLInputs,
               RenewLease(r, owner, generation, ttl)
        PROVE  TypeOK'
    <3>1. lease[r] # NoLease
      BY <2>2 DEF RenewLease, Leased, ActiveLease
    <3>2. lease[r] \in LeaseState
      BY <3>1 DEF TypeOK
    <3>3. generation \in Nat \ {0}
      BY <2>2, <3>2 DEF RenewLease, CredOf, LeaseState
    <3>4. now' \in Nat /\ ttl \in Nat
      <4>1. now' \in {now, now + 1} /\ now \in Nat
        BY <2>2 DEF RenewLease, TypeOK
      <4>2. QED
        BY <4>1
    <3>5. [holder |-> owner, generation |-> generation, expiresAt |-> now' + ttl]
            \in LeaseState
      <4>1. \A m, n \in Nat : m + n \in Nat
        OBVIOUS
      <4>2. QED
        BY <3>3, <3>4, <4>1 DEF LeaseState
    <3>6. lease' \in [Runs -> LeaseState \cup {NoLease}]
      BY <2>2, <3>5 DEF RenewLease, TypeOK
    <3>7. QED
      BY <2>2, <3>4, <3>6 DEF RenewLease, TypeOK, registry
  <2>3. ASSUME NEW generation \in 0 .. GenBound,
               ReleaseLease(r, owner, generation)
        PROVE  TypeOK'
    BY <2>3 DEF ReleaseLease, TypeOK, registry
  <2>4. QED
    BY <1>4, <2>1, <2>2, <2>3 DEF LeaseCall
<1>5. ASSUME NEW s \in Sessions, NEW r \in Runs, NEW cred \in CredInputs,
             BeginExec(s, r, cred) \/ WriteFile(s, r, cred)
      PROVE  TypeOK'
  <2>1. PICK phase \in Phases : Admit(s, r, cred, phase)
    BY <1>5 DEF BeginExec, WriteFile, Phases
  <2>2. [run |-> r, cred |-> cred, phase |-> phase] \in Session
    BY DEF Session
  <2>3. sessions' \in [Sessions -> Session \cup {NoSession}]
    BY <2>1, <2>2 DEF Admit, TypeOK
  <2>4. execs' \in [Runs -> Nat]
    BY <2>1 DEF Admit, TypeOK
  <2>5. QED
    BY <2>1, <2>3, <2>4 DEF Admit, TypeOK, registry
<1>6. ASSUME NEW s \in Sessions, StartExec(s) \/ RuntimeReturns(s)
      PROVE  TypeOK'
  <2>1. PICK phase \in Phases : Running(s) /\ Enter(s, phase)
    BY <1>6 DEF StartExec, RuntimeReturns, Phases
  <2>2. sessions' \in [Sessions -> Session \cup {NoSession}]
    BY <2>1, EnterInFlight
  <2>3. QED
    BY <1>6, <2>2 DEF StartExec, RuntimeReturns, TypeOK, registry
<1>7. ASSUME NEW s \in Sessions, ExecCancelled(s) PROVE TypeOK'
  <2>1. sessions[s] \in Session
    BY <1>7 DEF ExecCancelled, Running, TypeOK
  <2>2. sessions' \in [Sessions -> Session \cup {NoSession}]
    BY <1>7, EnterInFlight DEF ExecCancelled, Phases
  <2>3. orphans' \subseteq Command
    BY <1>7, <2>1 DEF ExecCancelled, Session, Command, TypeOK
  <2>4. QED
    BY <1>7, <2>2, <2>3 DEF ExecCancelled, TypeOK, registry
<1>8. ASSUME NEW s \in Sessions, FinishExec(s) PROVE TypeOK'
  <2>1. execs' \in [Runs -> Nat]
    <3>1. sessions[s].run \in Runs
      BY <1>8, FinishInFlight
    <3>2. CASE execs' = execs
      BY <3>2 DEF TypeOK
    <3>3. CASE /\ execs[sessions[s].run] > 0
               /\ execs' = [execs EXCEPT ![sessions[s].run] = @ - 1]
      BY <3>1, <3>3 DEF TypeOK
    <3>4. QED
      BY <1>8, <3>2, <3>3 DEF FinishExec, ReleaseSlot
  <2>2. QED
    BY <1>8, <2>1 DEF FinishExec, TypeOK, registry
<1>9. ASSUME NEW c \in orphans, OrphanEnds(c) PROVE TypeOK'
  BY <1>9 DEF OrphanEnds, TypeOK, registry
<1>10. CASE UNCHANGED vars
  BY <1>10 DEF vars, TypeOK, registry
<1>11. QED
  BY <1>1, <1>2, <1>3, <1>4, <1>5, <1>6, <1>7, <1>8, <1>9, <1>10
     DEF Next, RegistryStep, LeaseStep, SessionStep, RunStep, LeaseCall

\* Every variable keeps its type: in particular execs is never negative and
\* a lease never carries generation 0.
THEOREM TypeCorrect == Spec => []TypeOK
<1>1. QED
  BY InitTypeOK, NextTypeOK, PTL DEF Spec

-----------------------------------------------------------------------------
(* Generations and slots. *)

LEMMA NextLatestGrant ==
  TypeOK /\ LeaseIsLatestGrant /\ [Next]_vars => LeaseIsLatestGrant'
<1> SUFFICES ASSUME TypeOK, LeaseIsLatestGrant, [Next]_vars
             PROVE  LeaseIsLatestGrant'
  OBVIOUS
<1>1. CASE UNCHANGED <<lease, leaseGen>>
  BY <1>1 DEF LeaseIsLatestGrant
<1>2. ASSUME NEW r \in Runs, NEW owner \in Owners, LeaseCall(r, owner)
      PROVE  LeaseIsLatestGrant'
  <2>1. ASSUME NEW ttl \in TTLInputs, AcquireLease(r, owner, ttl)
        PROVE  LeaseIsLatestGrant'
    BY <2>1 DEF AcquireLease, TypeOK, LeaseIsLatestGrant
  <2>2. ASSUME NEW generation \in 0 .. GenBound, NEW ttl \in TTLInputs,
               RenewLease(r, owner, generation, ttl)
        PROVE  LeaseIsLatestGrant'
    <3>1. lease[r] # NoLease
      BY <2>2 DEF RenewLease, Leased, ActiveLease
    <3>2. generation = leaseGen[r]
      BY <2>2, <3>1 DEF RenewLease, CredOf, LeaseIsLatestGrant
    <3>3. QED
      BY <2>2, <3>2 DEF RenewLease, TypeOK, LeaseIsLatestGrant
  <2>3. ASSUME NEW generation \in 0 .. GenBound,
               ReleaseLease(r, owner, generation)
        PROVE  LeaseIsLatestGrant'
    BY <2>3 DEF ReleaseLease, TypeOK, LeaseIsLatestGrant
  <2>4. QED
    BY <1>2, <2>1, <2>2, <2>3 DEF LeaseCall
<1>3. QED
  BY <1>1, <1>2 DEF Next, RegistryStep, LeaseStep, SessionStep, LeaseCall,
     Tick, Create, DestroyUntracks, DestroyRemoves, DestroyRetracks, Reap,
     BeginExec, WriteFile, Admit, StartExec, RuntimeReturns, ExecCancelled,
     FinishExec, OrphanEnds, vars

LEMMA NextCountCovers ==
  TypeOK /\ CountCoversInFlight /\ [Next]_vars => CountCoversInFlight'
<1> SUFFICES ASSUME TypeOK, CountCoversInFlight, [Next]_vars
             PROVE  CountCoversInFlight'
  OBVIOUS
<1>1. CASE UNCHANGED <<execs, sessions>>
  BY <1>1 DEF CountCoversInFlight, InFlight, Running
<1>2. ASSUME NEW s \in Sessions, NEW r \in Runs, NEW cred \in CredInputs,
             BeginExec(s, r, cred) \/ WriteFile(s, r, cred)
      PROVE  CountCoversInFlight'
  <2>1. PICK phase \in Phases : Admit(s, r, cred, phase)
    BY <1>2 DEF BeginExec, WriteFile, Phases
  <2>2. /\ s \notin InFlight(r)
        /\ \A q \in Runs :
             InFlight(q)' = IF q = r THEN InFlight(q) \cup {s} ELSE InFlight(q)
    BY <2>1, InputTypes, AdmitInFlight
  <2>3. \A q \in Runs : execs'[q] = IF q = r THEN execs[q] + 1 ELSE execs[q]
    BY <2>1 DEF Admit, TypeOK
  <2>4. Cardinality(InFlight(r) \cup {s}) = Cardinality(InFlight(r)) + 1
    BY <2>2, InFlightFinite, FS_AddElement
  <2>5. ASSUME NEW q \in Runs PROVE Cardinality(InFlight(q)') <= execs'[q]
    <3>1. CASE q = r
      <4>1. Cardinality(InFlight(q)') = Cardinality(InFlight(r)) + 1
        BY <2>2, <2>4, <3>1
      <4>2. Cardinality(InFlight(r)) <= execs[r] /\ execs[r] \in Nat
        BY DEF CountCoversInFlight, TypeOK
      <4>3. QED
        BY <2>3, <3>1, <4>1, <4>2, InFlightFinite
    <3>2. CASE q # r
      BY <2>2, <2>3, <3>2 DEF CountCoversInFlight
    <3>3. QED
      BY <3>1, <3>2
  <2>6. QED
    BY <2>5 DEF CountCoversInFlight
<1>3. ASSUME NEW s \in Sessions,
             StartExec(s) \/ RuntimeReturns(s) \/ ExecCancelled(s)
      PROVE  CountCoversInFlight'
  <2>1. PICK phase \in Phases : Running(s) /\ Enter(s, phase)
    BY <1>3 DEF StartExec, RuntimeReturns, ExecCancelled, Phases
  <2>2. \A q \in Runs : InFlight(q)' = InFlight(q)
    BY <2>1, EnterInFlight
  <2>3. execs' = execs
    BY <1>3 DEF StartExec, RuntimeReturns, ExecCancelled
  <2>4. QED
    BY <2>2, <2>3 DEF CountCoversInFlight
<1>4. ASSUME NEW s \in Sessions, FinishExec(s)
      PROVE  CountCoversInFlight'
  <2> DEFINE r == sessions[s].run
  <2>1. /\ r \in Runs
        /\ s \in InFlight(r)
        /\ \A q \in Runs : InFlight(q)' = InFlight(q) \ {s}
        /\ \A q \in Runs : q # r => InFlight(q)' = InFlight(q)
    BY <1>4, FinishInFlight
  <2>2. Cardinality(InFlight(r) \ {s}) = Cardinality(InFlight(r)) - 1
    BY <2>1, InFlightFinite, FS_RemoveElement
  <2>3. \A q \in Runs : q # r => execs'[q] = execs[q]
    BY <1>4, <2>1 DEF FinishExec, ReleaseSlot, TypeOK
  <2>4. execs'[r] \in {execs[r], execs[r] - 1} /\ execs[r] \in Nat
    BY <1>4, <2>1 DEF FinishExec, ReleaseSlot, TypeOK
  <2>5. ASSUME NEW q \in Runs PROVE Cardinality(InFlight(q)') <= execs'[q]
    <3>1. CASE q = r
      <4>1. Cardinality(InFlight(q)') = Cardinality(InFlight(r)) - 1
        BY <2>1, <2>2, <3>1
      <4>2. Cardinality(InFlight(r)) <= execs[r]
        BY <2>1 DEF CountCoversInFlight
      <4>3. QED
        BY <2>4, <3>1, <4>1, <4>2, InFlightFinite
    <3>2. CASE q # r
      BY <2>1, <2>3, <3>2 DEF CountCoversInFlight
    <3>3. QED
      BY <3>1, <3>2
  <2>6. QED
    BY <2>5 DEF CountCoversInFlight
<1>5. QED
  BY <1>1, <1>2, <1>3, <1>4 DEF Next, RegistryStep, LeaseStep, SessionStep,
     Tick, Create, DestroyUntracks, DestroyRemoves, DestroyRetracks, Reap,
     AcquireLease, RenewLease, ReleaseLease, OrphanEnds, vars

-----------------------------------------------------------------------------
(* The fence. *)

\* The clock only moves on: a lease nobody replaced can lapse, never come back.
LEMMA LeasesOnlyLapse ==
  ASSUME TypeOK, NEW r \in Runs, now' \in Nat, now' >= now, lease'[r] = lease[r],
         Leased(r)'
  PROVE  Leased(r) /\ CredOf(lease[r])' = CredOf(lease[r])
<1>1. lease[r] # NoLease /\ lease[r].expiresAt > now'
  BY SentinelsAreFresh DEF Leased, ActiveLease
<1>2. lease[r].expiresAt \in Nat
  BY <1>1 DEF TypeOK, LeaseState
<1>3. lease[r].expiresAt > now
  BY <1>1, <1>2 DEF TypeOK
<1>4. QED
  BY <1>1, <1>3 DEF Leased, ActiveLease, CredOf

\* A step that replaces no lease and admits nobody cannot break the fence.
LEMMA FenceKept ==
  ASSUME TypeOK, FencedSessions, now' \in Nat, now' >= now, lease' = lease,
         \A q \in Runs : InFlight(q)' \subseteq InFlight(q),
         \A q \in Runs : \A t \in InFlight(q)' : sessions'[t].cred = sessions[t].cred
  PROVE  FencedSessions'
<1>1. SUFFICES ASSUME NEW q \in Runs, NEW t \in InFlight(q)', Leased(q)'
               PROVE  sessions'[t].cred = CredOf(lease[q])'
  BY DEF FencedSessions
<1>2. Leased(q) /\ CredOf(lease[q])' = CredOf(lease[q])
  BY <1>1, LeasesOnlyLapse
<1>3. QED
  BY <1>1, <1>2 DEF FencedSessions

LEMMA NextFenced == LeaseInv /\ [Next]_vars => FencedSessions'
<1> SUFFICES ASSUME TypeOK, LeaseIsLatestGrant, CountCoversInFlight,
                    FencedSessions, [Next]_vars
             PROVE  FencedSessions'
  BY DEF LeaseInv
<1>1. CASE UNCHANGED <<lease, sessions>> /\ now' \in Nat /\ now' >= now
  BY <1>1, FenceKept DEF InFlight, Running
<1>2. ASSUME NEW r \in Runs, NEW owner \in Owners, LeaseCall(r, owner)
      PROVE  FencedSessions'
  <2>1. sessions' = sessions /\ \A q \in Runs : InFlight(q)' = InFlight(q)
    BY <1>2 DEF LeaseCall, AcquireLease, RenewLease, ReleaseLease, InFlight, Running
  <2>2. now' \in Nat /\ now' >= now
    BY <1>2 DEF LeaseCall, AcquireLease, RenewLease, ReleaseLease, TypeOK
  <2>3. ASSUME NEW q \in Runs, q # r PROVE lease'[q] = lease[q]
    BY <1>2, <2>3 DEF LeaseCall, AcquireLease, RenewLease, ReleaseLease, TypeOK
  <2>4. ASSUME NEW t \in InFlight(r), Leased(r)'
        PROVE  sessions[t].cred = CredOf(lease[r])'
    <3>1. ASSUME NEW ttl \in TTLInputs, AcquireLease(r, owner, ttl)
          PROVE  InFlight(r) = {}
      BY <3>1, IdleRunIsEmpty DEF AcquireLease
    <3>2. ASSUME NEW generation \in 0 .. GenBound, NEW ttl \in TTLInputs,
                 RenewLease(r, owner, generation, ttl)
          PROVE  sessions[t].cred = CredOf(lease[r])'
      <4>1. lease'[r] = [holder |-> owner, generation |-> generation,
                         expiresAt |-> now' + ttl]
        BY <3>2 DEF RenewLease, TypeOK
      <4>2. CredOf(lease[r])' = CredOf(lease[r])
        BY <3>2, <4>1 DEF RenewLease, CredOf
      <4>3. Leased(r)
        BY <3>2 DEF RenewLease
      <4>4. QED
        BY <2>4, <4>2, <4>3 DEF FencedSessions
    <3>3. ASSUME NEW generation \in 0 .. GenBound,
                 ReleaseLease(r, owner, generation)
          PROVE  FALSE
      BY <2>4, <3>3 DEF ReleaseLease, TypeOK, Leased, ActiveLease
    <3>4. QED
      BY <1>2, <2>4, <3>1, <3>2, <3>3 DEF LeaseCall
  <2>5. SUFFICES ASSUME NEW q \in Runs, NEW t \in InFlight(q), Leased(q)'
                 PROVE  sessions[t].cred = CredOf(lease[q])'
    BY <2>1 DEF FencedSessions
  <2>6. CASE q # r
    BY <2>2, <2>3, <2>5, <2>6, LeasesOnlyLapse DEF FencedSessions
  <2>7. QED
    BY <2>4, <2>5, <2>6
<1>3. ASSUME NEW s \in Sessions, NEW r \in Runs, NEW cred \in CredInputs,
             BeginExec(s, r, cred) \/ WriteFile(s, r, cred)
      PROVE  FencedSessions'
  <2>1. PICK phase \in Phases : Admit(s, r, cred, phase)
    BY <1>3 DEF BeginExec, WriteFile, Phases
  <2>2. /\ s \notin InFlight(r)
        /\ \A q \in Runs :
             InFlight(q)' = IF q = r THEN InFlight(q) \cup {s} ELSE InFlight(q)
    BY <2>1, InputTypes, AdmitInFlight
  <2>3. /\ \A t \in Sessions : t # s => sessions'[t] = sessions[t]
        /\ sessions'[s].cred = cred
    BY <2>1 DEF Admit, TypeOK
  <2>4. \A q : (Leased(q)' <=> Leased(q)) /\ CredOf(lease[q])' = CredOf(lease[q])
    BY <2>1 DEF Admit, Leased, ActiveLease, CredOf
  <2>5. Leased(r) => cred = CredOf(lease[r])
    BY <2>1 DEF Admit, PassesFence
  <2>6. \A q \in Runs : s \notin InFlight(q)
    BY <2>1 DEF Admit, InFlight
  <2>7. ASSUME NEW q \in Runs, NEW t \in InFlight(q)', Leased(q)'
        PROVE  sessions'[t].cred = CredOf(lease[q])'
    <3>1. CASE t = s
      BY <2>2, <2>3, <2>4, <2>5, <2>6, <2>7, <3>1
    <3>2. CASE t # s
      <4>1. t \in InFlight(q) /\ t \in Sessions
        BY <2>2, <2>7, <3>2 DEF InFlight
      <4>2. QED
        BY <2>3, <2>4, <2>7, <3>2, <4>1 DEF FencedSessions
    <3>3. QED
      BY <3>1, <3>2
  <2>8. QED
    BY <2>7 DEF FencedSessions
<1>4. ASSUME NEW s \in Sessions,
             StartExec(s) \/ RuntimeReturns(s) \/ ExecCancelled(s)
      PROVE  FencedSessions'
  <2>1. PICK phase \in Phases : Running(s) /\ Enter(s, phase)
    BY <1>4 DEF StartExec, RuntimeReturns, ExecCancelled, Phases
  <2>2. /\ \A q \in Runs : InFlight(q)' = InFlight(q)
        /\ \A t \in Sessions : Running(t) => sessions'[t].cred = sessions[t].cred
    BY <2>1, EnterInFlight
  <2>3. UNCHANGED <<now, lease>>
    BY <1>4 DEF StartExec, RuntimeReturns, ExecCancelled
  <2>4. QED
    <3>1. now' \in Nat /\ now' >= now
      BY <2>3 DEF TypeOK
    <3>2. \A q \in Runs : \A t \in InFlight(q)' : sessions'[t].cred = sessions[t].cred
      BY <2>2 DEF InFlight
    <3>3. QED
      BY <2>2, <2>3, <3>1, <3>2, FenceKept
<1>5. ASSUME NEW s \in Sessions, FinishExec(s) PROVE FencedSessions'
  <2>1. \A q \in Runs : InFlight(q)' = InFlight(q) \ {s}
    BY <1>5, FinishInFlight
  <2>2. \A t \in Sessions : t # s => sessions'[t] = sessions[t]
    BY <1>5 DEF FinishExec, TypeOK
  <2>3. UNCHANGED <<now, lease>> /\ now' \in Nat /\ now' >= now
    BY <1>5 DEF FinishExec, TypeOK
  <2>4. \A q \in Runs : \A t \in InFlight(q)' : sessions'[t].cred = sessions[t].cred
    BY <2>1, <2>2 DEF InFlight
  <2>5. QED
    BY <2>1, <2>3, <2>4, FenceKept
<1>6. QED
  <2>1. now \in Nat
    BY DEF TypeOK
  <2>2. QED
    BY <1>1, <1>2, <1>3, <1>4, <1>5, <2>1 DEF Next, RegistryStep, LeaseStep,
       SessionStep, LeaseCall, Tick, Create, DestroyUntracks, DestroyRemoves,
       DestroyRetracks, Reap, OrphanEnds, vars

LEMMA InitLeaseInv == Init => LeaseInv
<1> SUFFICES ASSUME Init PROVE LeaseInv
  OBVIOUS
<1>1. \A r \in Runs : InFlight(r) = {}
  BY DEF Init, InFlight, Running
<1>2. \A r \in Runs : Cardinality(InFlight(r)) = 0
  BY <1>1, FS_EmptySet
<1>3. LeaseIsLatestGrant /\ CountCoversInFlight /\ FencedSessions
  BY <1>1, <1>2 DEF Init, LeaseIsLatestGrant, CountCoversInFlight, FencedSessions
<1>4. QED
  BY <1>3, InitTypeOK DEF LeaseInv

LEMMA NextLeaseInv == LeaseInv /\ [Next]_vars => LeaseInv'
BY NextTypeOK, NextLatestGrant, NextCountCovers, NextFenced DEF LeaseInv

\* The invariant that carries every result below.
THEOREM LeaseInvariant == Spec => []LeaseInv
<1>1. QED
  BY InitLeaseInv, NextLeaseInv, PTL DEF Spec

\* While a lease is active, everything in flight on its run was admitted with
\* its credential: BeginExec and WriteFile fence, AcquireLease waits.
THEOREM LeaseFencesSessions == Spec => []FencedSessions
<1>1. LeaseInv => FencedSessions
  BY DEF LeaseInv
<1>2. QED
  BY <1>1, LeaseInvariant, PTL

\* finishExec and Destroy never make the run look idler than it is.
THEOREM SlotsCoverInFlight == Spec => []CountCoversInFlight
<1>1. LeaseInv => CountCoversInFlight
  BY DEF LeaseInv
<1>2. QED
  BY <1>1, LeaseInvariant, PTL

-----------------------------------------------------------------------------
(* What a step may never do. *)

\* No grant lands under an exec or a write that has not come back.
THEOREM TakeoversAreBetweenExecs == Spec => TakeoverBetweenExecs
<1>1. ASSUME LeaseInv, [Next]_vars, NEW r \in Runs, leaseGen'[r] # leaseGen[r]
      PROVE  InFlight(r) = {}
  <2>1. PICK q \in Runs, owner \in Owners, ttl \in TTLInputs :
               AcquireLease(q, owner, ttl)
    BY <1>1 DEF Next, RegistryStep, LeaseStep, SessionStep, Tick, Create,
       DestroyUntracks, DestroyRemoves, DestroyRetracks, Reap, RenewLease,
       ReleaseLease, BeginExec, WriteFile, Admit, StartExec, RuntimeReturns,
       ExecCancelled, FinishExec, OrphanEnds, vars
  <2>2. r = q
    BY <1>1, <2>1 DEF AcquireLease, LeaseInv, TypeOK
  <2>3. QED
    BY <1>1, <2>1, <2>2, IdleRunIsEmpty DEF AcquireLease, LeaseInv
<1>2. LeaseInv /\ [Next]_vars =>
        [\A r \in Runs : leaseGen'[r] # leaseGen[r] => InFlight(r) = {}]_vars
  BY <1>1
<1>3. QED
  BY <1>2, LeaseInvariant, PTL DEF Spec, TakeoverBetweenExecs

\* A step other than a grant on r leaves r's active credential as it is, or
\* takes it away.
LEMMA OnlyGrantsActivate ==
  ASSUME LeaseInv, [Next]_vars, NEW r \in Runs, Leased(r)',
         ~(Leased(r) /\ CredOf(lease[r])' = CredOf(lease[r]))
  PROVE  lease'[r].generation > leaseGen[r]
<1> USE DEF LeaseInv
<1>1. CASE lease' = lease /\ now' \in Nat /\ now' >= now
  BY <1>1, LeasesOnlyLapse
<1>2. ASSUME NEW q \in Runs, NEW owner \in Owners, LeaseCall(q, owner)
      PROVE  lease'[r].generation > leaseGen[r]
  <2>1. now' \in Nat /\ now' >= now
    BY <1>2 DEF LeaseCall, AcquireLease, RenewLease, ReleaseLease, TypeOK
  <2>2. CASE q # r
    <3>1. lease'[r] = lease[r]
      BY <1>2, <2>2 DEF LeaseCall, AcquireLease, RenewLease, ReleaseLease, TypeOK
    <3>2. QED
      BY <2>1, <3>1, LeasesOnlyLapse
  <2>3. CASE q = r
    <3>1. ASSUME NEW ttl \in TTLInputs, AcquireLease(r, owner, ttl)
          PROVE  lease'[r].generation > leaseGen[r]
      BY <3>1 DEF AcquireLease, TypeOK
    <3>2. ASSUME NEW generation \in 0 .. GenBound, NEW ttl \in TTLInputs,
                 RenewLease(r, owner, generation, ttl)
          PROVE  Leased(r) /\ CredOf(lease[r])' = CredOf(lease[r])
      <4>1. lease'[r] = [holder |-> owner, generation |-> generation,
                         expiresAt |-> now' + ttl]
        BY <3>2 DEF RenewLease, TypeOK
      <4>2. QED
        BY <3>2, <4>1 DEF RenewLease, CredOf
    <3>3. ASSUME NEW generation \in 0 .. GenBound,
                 ReleaseLease(r, owner, generation)
          PROVE  FALSE
      BY <3>3 DEF ReleaseLease, TypeOK, Leased, ActiveLease
    <3>4. QED
      BY <1>2, <2>3, <3>1, <3>2, <3>3 DEF LeaseCall
  <2>4. QED
    BY <2>2, <2>3
<1>3. QED
  BY <1>1, <1>2 DEF Next, RegistryStep, LeaseStep, SessionStep, LeaseCall, Tick,
     Create, DestroyUntracks, DestroyRemoves, DestroyRetracks, Reap, BeginExec,
     WriteFile, Admit, StartExec, RuntimeReturns, ExecCancelled, FinishExec,
     OrphanEnds, vars, TypeOK

\* A credential that lapsed, was released or was granted over is never active
\* again.
THEOREM CredentialsDieForever == Spec => DeadCredentialsStayDead
<1>1. LeaseInv /\ [Next]_vars =>
        [\A r \in Runs :
           Leased(r)' /\ (Leased(r) => CredOf(lease[r])' # CredOf(lease[r]))
             => lease'[r].generation > leaseGen[r]]_vars
  BY OnlyGrantsActivate
<1>2. QED
  BY <1>1, LeaseInvariant, PTL DEF Spec, DeadCredentialsStayDead

-----------------------------------------------------------------------------
(* The lease implements the exclusive writer. *)

LEMMA InitRefines == Init => EW!Init
BY SentinelsAreFresh
   DEF Init, EW!Init, HolderOf, Admission, Leased, ActiveLease, Running

\* An active lease has an owner for a holder, so that the run is held.
LEMMA HolderIsOwner ==
  ASSUME TypeOK, NEW r \in Runs, Leased(r)
  PROVE  HolderOf(r) = lease[r].holder /\ HolderOf(r) \in Owners
BY DEF TypeOK, LeaseState, HolderOf, Leased, ActiveLease

\* The abstract writers in a run are the handlers in flight on it.
LEMMA InIsInFlight ==
  ASSUME TypeOK, NEW r \in Runs
  PROVE  EW!In(r) = InFlight(r)
<1>1. \A s \in Sessions : Running(s) => sessions[s] \in Session
  BY DEF TypeOK, Running
<1>2. \A s \in Sessions : Running(s) =>
        [run |-> sessions[s].run, cred |-> sessions[s].cred] \in Command
  BY <1>1 DEF Session, Command
<1>3. \A s \in Sessions : Admission(s) # NoSession <=> Running(s)
  BY <1>2, SentinelsAreFresh DEF Admission
<1>4. QED
  BY <1>3 DEF EW!In, InFlight, Admission

\* A step that admits and grants nothing can only take holders away.
LEMMA VacateRefines ==
  ASSUME leaseGen' = leaseGen,
         \A s \in Sessions : Admission(s)' = Admission(s),
         \A r \in Runs : HolderOf(r)' \in {HolderOf(r), NoOwner}
  PROVE  EW!Next
<1> DEFINE R == {r \in Runs : HolderOf(r)' = NoOwner}
<1>1. [r \in Runs |-> HolderOf(r)]' =
        [r \in Runs |-> IF r \in R THEN NoOwner
                        ELSE [q \in Runs |-> HolderOf(q)][r]]
  OBVIOUS
<1>2. EW!Vacate(R)
  BY <1>1 DEF EW!Vacate
<1>3. R \in SUBSET Runs
  OBVIOUS
<1>4. QED
  BY <1>2, <1>3 DEF EW!Next

\* As long as the clock only moves on, an untouched lease keeps its holder or
\* loses it.
LEMMA HolderLapses ==
  ASSUME TypeOK, NEW r \in Runs, now' \in Nat, now' >= now, lease'[r] = lease[r]
  PROVE  HolderOf(r)' \in {HolderOf(r), NoOwner}
BY LeasesOnlyLapse DEF HolderOf

LEMMA GrantRefines ==
  ASSUME LeaseInv, NEW r \in Runs, NEW owner \in Owners, NEW ttl \in TTLInputs,
         AcquireLease(r, owner, ttl)
  PROVE  EW!Next
<1> USE DEF LeaseInv
<1>1. lease' = [lease EXCEPT ![r] = [holder |-> owner,
                  generation |-> leaseGen[r] + 1, expiresAt |-> now + ttl]]
      /\ now' = now /\ sessions' = sessions
      /\ leaseGen' = [leaseGen EXCEPT ![r] = @ + 1]
  BY DEF AcquireLease
<1>2. HolderOf(r)' = owner
  <2>1. ttl \in Nat /\ ttl > 0 /\ now \in Nat /\ leaseGen[r] \in Nat
    BY InputTypes DEF AcquireLease, Valid, TypeOK
  <2>2. now + ttl > now /\ now + ttl \in Nat /\ leaseGen[r] + 1 \in Nat \ {0}
    BY <2>1
  <2>3. lease'[r] = [holder |-> owner, generation |-> leaseGen[r] + 1,
                     expiresAt |-> now + ttl]
    BY <1>1 DEF TypeOK
  <2>4. lease'[r] \in LeaseState
    BY <2>2, <2>3 DEF LeaseState
  <2>5. Leased(r)'
    BY <1>1, <2>2, <2>3, <2>4, SentinelsAreFresh DEF Leased, ActiveLease
  <2>6. QED
    BY <2>3, <2>5 DEF HolderOf
<1>3. \A q \in Runs : q # r => HolderOf(q)' = HolderOf(q)
  BY <1>1 DEF HolderOf, Leased, ActiveLease, TypeOK
<1>4. [q \in Runs |-> HolderOf(q)]' =
        [[q \in Runs |-> HolderOf(q)] EXCEPT ![r] = owner]
  BY <1>2, <1>3
<1>5. HolderOf(r) \in {NoOwner, owner}
  BY DEF AcquireLease, HolderOf
<1>6. EW!In(r) = {}
  BY InIsInFlight, IdleRunIsEmpty DEF AcquireLease
<1>7. [s \in Sessions |-> Admission(s)]' = [s \in Sessions |-> Admission(s)]
  BY <1>1 DEF Admission, Running
<1>8. EW!Grant(r, owner)
  BY <1>1, <1>4, <1>5, <1>6, <1>7 DEF EW!Grant
<1>9. QED
  BY <1>8 DEF EW!Next

LEMMA RenewRefines ==
  ASSUME LeaseInv, NEW r \in Runs, NEW owner \in Owners, NEW ttl \in TTLInputs,
         NEW generation \in 0 .. GenBound, RenewLease(r, owner, generation, ttl)
  PROVE  EW!Next
<1> USE DEF LeaseInv
<1>1. now' \in Nat /\ now' >= now
  BY DEF RenewLease, TypeOK
<1>2. HolderOf(r)' \in {HolderOf(r), NoOwner}
  <2>1. Leased(r) /\ lease[r].holder = owner
    BY DEF RenewLease, CredOf
  <2>2. lease'[r].holder = owner
    BY DEF RenewLease, TypeOK
  <2>3. QED
    BY <2>1, <2>2 DEF HolderOf
<1>3. \A q \in Runs : q # r => lease'[q] = lease[q]
  BY DEF RenewLease, TypeOK
<1>4. \A q \in Runs : HolderOf(q)' \in {HolderOf(q), NoOwner}
  BY <1>1, <1>2, <1>3, HolderLapses
<1>5. leaseGen' = leaseGen /\ \A s \in Sessions : Admission(s)' = Admission(s)
  BY DEF RenewLease, Admission, Running
<1>6. QED
  BY <1>4, <1>5, VacateRefines

LEMMA ReleaseRefines ==
  ASSUME LeaseInv, NEW r \in Runs, NEW owner \in Owners,
         NEW generation \in 0 .. GenBound, ReleaseLease(r, owner, generation)
  PROVE  EW!Next
<1>1. HolderOf(r)' = NoOwner
  BY DEF ReleaseLease, LeaseInv, TypeOK, HolderOf, Leased, ActiveLease
<1>2. \A q \in Runs : q # r => HolderOf(q)' = HolderOf(q)
  BY DEF ReleaseLease, LeaseInv, TypeOK, HolderOf, Leased, ActiveLease
<1>3. leaseGen' = leaseGen /\ \A s \in Sessions : Admission(s)' = Admission(s)
  BY DEF ReleaseLease, Admission, Running
<1>4. QED
  BY <1>1, <1>2, <1>3, VacateRefines

LEMMA AdmitRefines ==
  ASSUME LeaseInv, NEW s \in Sessions, NEW r \in Runs, NEW cred \in CredInputs,
         NEW phase \in Phases, Admit(s, r, cred, phase)
  PROVE  EW!Next
<1> USE DEF LeaseInv
<1> DEFINE writing == [t \in Sessions |-> Admission(t)]
<1>1. writing[s] = NoSession
  BY DEF Admit, Admission
<1>2. EW!Held(r) => cred = EW!Title(r)
  <2>1. CASE Leased(r)
    <3>1. cred = CredOf(lease[r])
      BY <2>1 DEF Admit, PassesFence
    <3>2. lease[r] # NoLease
      BY <2>1 DEF Leased, ActiveLease
    <3>3. EW!Title(r) = CredOf(lease[r])
      BY <2>1, <3>2, HolderIsOwner DEF EW!Title, CredOf, LeaseIsLatestGrant
    <3>4. QED
      BY <3>1, <3>3
  <2>2. CASE ~Leased(r)
    BY <2>2 DEF EW!Held, HolderOf
  <2>3. QED
    BY <2>1, <2>2
<1>3. Admission(s)' = [run |-> r, cred |-> cred]
  <2>1. sessions'[s] = [run |-> r, cred |-> cred, phase |-> phase]
    BY DEF Admit, TypeOK
  <2>2. sessions'[s] \in Session
    BY <2>1, InputTypes DEF Session
  <2>3. QED
    BY <2>1, <2>2, SentinelsAreFresh DEF Admission, Running
<1>4. \A t \in Sessions : t # s => Admission(t)' = Admission(t)
  BY DEF Admit, Admission, Running, TypeOK
<1>5. writing' = [writing EXCEPT ![s] = [run |-> r, cred |-> cred]]
  BY <1>3, <1>4
<1>6. UNCHANGED <<leaseGen, [q \in Runs |-> HolderOf(q)]>>
  BY DEF Admit, HolderOf, Leased, ActiveLease
<1>7. EW!Enter(s, r, cred)
  BY <1>1, <1>2, <1>5, <1>6 DEF EW!Enter
<1>8. QED
  BY <1>7 DEF EW!Next

LEMMA ProgressRefines ==
  ASSUME LeaseInv, NEW s \in Sessions,
         StartExec(s) \/ RuntimeReturns(s) \/ ExecCancelled(s)
  PROVE  UNCHANGED EW!vars
<1>1. PICK phase \in Phases : Running(s) /\ Enter(s, phase)
  BY DEF StartExec, RuntimeReturns, ExecCancelled, Phases
<1>2. /\ \A t \in Sessions : Running(t)' <=> Running(t)
      /\ \A t \in Sessions : Running(t)
           => sessions'[t].cred = sessions[t].cred /\ sessions'[t].run = sessions[t].run
  BY <1>1, EnterInFlight DEF LeaseInv
<1>3. \A t \in Sessions : Admission(t)' = Admission(t)
  BY <1>2 DEF Admission
<1>4. UNCHANGED <<now, lease, leaseGen>>
  BY DEF StartExec, RuntimeReturns, ExecCancelled
<1>5. QED
  BY <1>3, <1>4 DEF EW!vars, HolderOf, Leased, ActiveLease

LEMMA FinishRefines ==
  ASSUME LeaseInv, NEW s \in Sessions, FinishExec(s)
  PROVE  EW!Next
<1> USE DEF LeaseInv
<1> DEFINE writing == [t \in Sessions |-> Admission(t)]
<1>1. sessions[s] \in Session /\ Running(s)
  BY DEF FinishExec, Running, TypeOK
<1>2. writing[s] # NoSession
  <2>1. [run |-> sessions[s].run, cred |-> sessions[s].cred] \in Command
    BY <1>1 DEF Session, Command
  <2>2. QED
    BY <1>1, <2>1, SentinelsAreFresh DEF Admission
<1>3. Admission(s)' = NoSession
  BY DEF FinishExec, Admission, Running, TypeOK
<1>4. \A t \in Sessions : t # s => Admission(t)' = Admission(t)
  BY DEF FinishExec, Admission, Running, TypeOK
<1>5. writing' = [writing EXCEPT ![s] = NoSession]
  BY <1>3, <1>4
<1>6. UNCHANGED <<leaseGen, [q \in Runs |-> HolderOf(q)]>>
  BY DEF FinishExec, HolderOf, Leased, ActiveLease
<1>7. EW!Leave(s)
  BY <1>2, <1>5, <1>6 DEF EW!Leave
<1>8. QED
  BY <1>7 DEF EW!Next

LEMMA NextRefines == LeaseInv /\ [Next]_vars => [EW!Next]_(EW!vars)
<1> SUFFICES ASSUME LeaseInv, [Next]_vars PROVE EW!Next \/ UNCHANGED EW!vars
  OBVIOUS
<1>1. CASE UNCHANGED <<lease, leaseGen, sessions>> /\ now' \in Nat /\ now' >= now
  <2>1. \A q \in Runs : HolderOf(q)' \in {HolderOf(q), NoOwner}
    BY <1>1, HolderLapses DEF LeaseInv
  <2>2. \A s \in Sessions : Admission(s)' = Admission(s)
    BY <1>1 DEF Admission, Running
  <2>3. QED
    BY <1>1, <2>1, <2>2, VacateRefines
<1>2. ASSUME NEW r \in Runs, NEW owner \in Owners, LeaseCall(r, owner)
      PROVE  EW!Next
  BY <1>2, GrantRefines, RenewRefines, ReleaseRefines DEF LeaseCall
<1>3. ASSUME NEW s \in Sessions, NEW r \in Runs, NEW cred \in CredInputs,
             BeginExec(s, r, cred) \/ WriteFile(s, r, cred)
      PROVE  EW!Next
  BY <1>3, AdmitRefines DEF BeginExec, WriteFile, Phases
<1>4. ASSUME NEW s \in Sessions,
             StartExec(s) \/ RuntimeReturns(s) \/ ExecCancelled(s)
      PROVE  UNCHANGED EW!vars
  BY <1>4, ProgressRefines
<1>5. ASSUME NEW s \in Sessions, FinishExec(s) PROVE EW!Next
  BY <1>5, FinishRefines
<1>6. now \in Nat
  BY DEF LeaseInv, TypeOK
<1>7. QED
  BY <1>1, <1>2, <1>3, <1>4, <1>5, <1>6 DEF Next, RegistryStep, LeaseStep,
     SessionStep, LeaseCall, Tick, Create, DestroyUntracks, DestroyRemoves,
     DestroyRetracks, Reap, OrphanEnds, vars

\* Every behaviour of the lease code is one of the abstract exclusive writer.
THEOREM LeaseImplementsExclusiveWriter == Spec => ImplementsExclusiveWriter
<1>1. QED
  BY InitRefines, NextRefines, LeaseInvariant, PTL
     DEF Spec, ImplementsExclusiveWriter, EW!Spec

=============================================================================

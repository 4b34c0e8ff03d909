-------------------------- MODULE EgressPoolProofs --------------------------
(***************************************************************************)
(* The egress proxies for every set of runs, connections, listeners and    *)
(* goroutines that call into the pool.                                     *)
(*                                                                         *)
(* The tunnels' count is kept by the goroutines alone.  That no listener   *)
(* is lost rests on who has it in hand: a listener is fresh until it is    *)
(* registered (NewIsFresh), it is out of perRun before a Close closes it   *)
(* (DoorsAreTaken), and OpenFor, which closes one that is still            *)
(* registered, has the mutex until it has put the new one in its place     *)
(* (MutexIsHeld).                                                          *)
(***************************************************************************)
EXTENDS EgressPool, FiniteSetTheorems, TLAPS

\* The phases in which a call closes the listener in its hand.
Closing == {"range", "wait", "blocked", "woken", "shut", "panicked"}

-----------------------------------------------------------------------------
(* The inductive invariant.                                                *)

\* What a call has in its hand at each point.
FitCall(q) ==
  /\ q.at = "idle" => q = Idle
  /\ q.job = "none" <=> q.at \in {"idle", "exited"}
  /\ q.job = "none" => q.door = None /\ q.new = None
  /\ q.at = "lock" => q.job = "open" /\ q.door = None
  /\ q.at = "next" => q.job = "shutdown"
  /\ q.job = "open" => q.at \in {"lock"} \cup Closing /\ q.run \in Runs /\ q.new # None
  /\ q.job # "open" => q.new = None

CallsFit == \A p \in Procs : FitCall(proc[p])

\* A goroutine that copies belongs to a connection whose handler started it.
FlowsAreStarted ==
  /\ copying \cap unwinding = {}
  /\ \A c \in Conns :
       /\ handler[c] \in {"dialing", "hijacked", "stored", "copying"} => via[c] # None
       /\ \A flow \in Flows : <<c, flow>> \in copying \cup unwinding =>
            /\ via[c] # None
            /\ handler[c] = "ended" \/ (handler[c] = "copying" /\ flow = "up")

\* A server that closes takes the connections in its care with it.
DialersAreServed ==
  \A c \in Conns :
    handler[c] = "dialing" /\ open[c] # {} => server[via[c]] = "serving"

TunnelInv == TypeOK /\ CallsFit /\ FlowsAreStarted /\ CountsAreExact /\ DialersAreServed

\* OpenFor keeps the mutex while it closes the listener that is registered.
MutexIsHeld ==
  \A p \in Procs :
    /\ proc[p].job = "open" /\ proc[p].at \in Closing <=> mutex = p
    /\ mutex = p => perRun[proc[p].run] = proc[p].door

\* A listener in the hand of Close or Shutdown is registered for no run.
DoorsAreTaken ==
  \A p \in Procs :
    /\ proc[p].at \in Closing /\ proc[p].job # "open" =>
         \A r \in Runs : perRun[r] # proc[p].door
    /\ proc[p].door # None => server[proc[p].door] # "unbound"
    /\ proc[p].at = "next" => proc[p].door = None \/ server[proc[p].door] = "closed"

\* A listener that OpenFor is about to register is in nobody else's hand.
NewIsFresh ==
  \A p \in Procs : proc[p].new # None =>
    /\ server[proc[p].new] = "serving" /\ owner[proc[p].new] = proc[p].run
    /\ \A r \in Runs : perRun[r] # proc[p].new
    /\ \A q \in Procs : proc[q].door # proc[p].new
                        /\ (q # p => proc[q].new # proc[p].new)

\* A private listener that serves was bound for a run, the shared one for none.
OwnersFit ==
  /\ owner[Shared] = None /\ server[Shared] # "unbound"
  /\ \A l \in Listeners \ {Shared} : server[l] = "serving" => owner[l] \in Runs

PoolInv ==
  /\ ListenersAreRegistered
  /\ MutexIsHeld /\ DoorsAreTaken /\ NewIsFresh /\ OwnersFit

-----------------------------------------------------------------------------
(* What the steps do to the calls into the pool.                           *)

\* The steps of connections and containers leave the calls to whoever makes
\* them, but for the last Done of a proxy, which wakes who waits for it.
TunnelSide ==
  \/ \E r \in Runs : ContainerStep(r)
  \/ \E c \in Conns, r \in Runs, l \in Listeners : Connect(c, r, l)
  \/ \E c \in Conns : TunnelStep(c)
  \/ \E c \in Conns, flow \in Flows : CopierStep(c, flow)

LEMMA IdleFits ==
  /\ Idle \in Call /\ FitCall(Idle)
  /\ [Idle EXCEPT !.at = "exited"] \in Call /\ FitCall([Idle EXCEPT !.at = "exited"])
BY DEF Idle, Call, FitCall, Jobs, At, Closing

\* A call that is closing a listener may move on to any other point of that.
LEMMA GoesFits ==
  ASSUME NEW q \in Call, FitCall(q), q.at \in Closing, NEW at \in Closing
  PROVE  [q EXCEPT !.at = at] \in Call /\ FitCall([q EXCEPT !.at = at])
BY DEF Call, FitCall, At, Closing

LEMMA PoolCalls ==
  ASSUME TypeOK, CallsFit, NEW p \in Procs, PoolStep(p), ~DaemonPanics(p)
  PROVE  \E q \in Call : FitCall(q) /\ proc' = [proc EXCEPT ![p] = q]
<1> DEFINE Fits(q) == q \in Call /\ FitCall(q) /\ proc' = [proc EXCEPT ![p] = q]
<1>1. proc \in [Procs -> Call] /\ proc[p] \in Call /\ FitCall(proc[p])
      /\ perRun \in [Runs -> Listeners \cup {None}]
      /\ Shared \in Listeners /\ Shared # None
  BY ListenersAreApart DEF TypeOK, CallsFit
<1>2. ASSUME NEW r \in Runs, NEW l \in Listeners, OpenBinds(p, r, l)
      PROVE  Fits([Idle EXCEPT !.job = "open", !.at = "lock", !.run = r, !.new = l])
  BY <1>2, ListenersAreApart DEF OpenBinds, Idle, Call, FitCall, Jobs, At, Closing
<1>3. CASE OpenRegisters(p)
  BY <1>3, IdleFits DEF OpenRegisters, Registers
<1>4. CASE OpenReplaces(p)
  <2>1. Fits([proc[p] EXCEPT !.at = "range", !.door = perRun[proc[p].run]])
    BY <1>1, <1>4 DEF OpenReplaces, Call, FitCall, At, Closing
  <2>2. QED
    BY <2>1
<1>5. ASSUME NEW r \in Runs, NEW job \in {"close", "reap"}, CloseBegins(p, r, job)
      PROVE  Fits([Idle EXCEPT !.job = job, !.at = "range", !.run = r, !.door = perRun[r]])
  BY <1>1, <1>5 DEF CloseBegins, Idle, Call, FitCall, Jobs, At, Closing
<1>6. CASE ShutdownBegins(p)
  <2>1. Fits([Idle EXCEPT !.job = "shutdown", !.at = "next",
                          !.todo = {r \in Runs : perRun[r] # None}])
    BY <1>6 DEF ShutdownBegins, Idle, Call, FitCall, Jobs, At, Closing
  <2>2. QED
    BY <2>1
<1>7. ASSUME NEW r \in Runs, ShutdownCloses(p, r)
      PROVE  Fits([proc[p] EXCEPT !.todo = proc[p].todo \ {r}, !.door = perRun[r],
                     !.at = IF perRun[r] = None THEN "next" ELSE "range"])
  <2>1. CASE perRun[r] = None
    BY <1>1, <1>7, <2>1 DEF ShutdownCloses, Call, FitCall, At, Closing
  <2>2. CASE perRun[r] # None
    BY <1>1, <1>7, <2>2 DEF ShutdownCloses, Call, FitCall, At, Closing
  <2>3. QED
    BY <2>1, <2>2
<1>8. CASE ShutdownClosesShared(p)
  <2>1. Fits([proc[p] EXCEPT !.door = Shared, !.at = "range"])
    BY <1>1, <1>8 DEF ShutdownClosesShared, Call, FitCall, At, Closing
  <2>2. QED
    BY <2>1
<1>9. CASE RangeCloses(p) \/ WaitBegins(p) \/ WaitReturns(p) \/ HandlerPanics(p)
  <2>1. \E at \in Closing : proc' = [proc EXCEPT ![p] = [proc[p] EXCEPT !.at = at]]
    BY <1>9 DEF RangeCloses, WaitBegins, WaitReturns, HandlerPanics, Goes, Closing
  <2>2. proc[p].at \in Closing
    BY <1>9 DEF RangeCloses, WaitBegins, WaitReturns, HandlerPanics, Reused, Closing
  <2>3. QED
    BY <1>1, <2>1, <2>2, GoesFits
<1>10. CASE ServerCloses(p)
  <2>1. CASE proc[p].job = "shutdown" /\ proc[p].door # Shared
    <3>1. Fits([proc[p] EXCEPT !.at = "next"])
      BY <1>1, <1>10, <2>1 DEF ServerCloses, Returns, Goes, Call, FitCall, At, Closing
    <3>2. QED
      BY <3>1
  <2>2. CASE ~(proc[p].job = "shutdown" /\ proc[p].door # Shared)
    BY <1>10, <2>2, IdleFits DEF ServerCloses, Returns
  <2>3. QED
    BY <2>1, <2>2
<1>11. QED
  BY <1>2, <1>3, <1>4, <1>5, <1>6, <1>7, <1>8, <1>9, <1>10 DEF PoolStep, TeardownStep

\* A Done changes no more about a call than that it is woken.
LEMMA DoneWakes ==
  ASSUME TypeOK, CallsFit, NEW c \in Conns, NEW flow \in Flows, Done(c, flow)
  PROVE  /\ proc' \in [Procs -> Call] /\ CallsFit'
         /\ \A p \in Procs :
              \/ proc'[p] = proc[p]
              \/ proc[p].at = "blocked" /\ proc'[p] = [proc[p] EXCEPT !.at = "woken"]
<1>1. \A p \in Procs : proc[p] \in Call /\ FitCall(proc[p])
  BY DEF TypeOK, CallsFit
<1>2. \A p \in Procs :
        \/ proc'[p] = proc[p]
        \/ proc[p].at = "blocked" /\ proc'[p] = [proc[p] EXCEPT !.at = "woken"]
  BY DEF Done
<1>3. "blocked" \in Closing /\ "woken" \in Closing
  BY DEF Closing
<1>4. ASSUME NEW p \in Procs PROVE proc'[p] \in Call /\ FitCall(proc'[p])
  <2>1. CASE proc'[p] = proc[p]
    BY <1>1, <2>1
  <2>2. CASE proc[p].at = "blocked" /\ proc'[p] = [proc[p] EXCEPT !.at = "woken"]
    <3>1. [proc[p] EXCEPT !.at = "woken"] \in Call
          /\ FitCall([proc[p] EXCEPT !.at = "woken"])
      BY <1>1, <1>3, <2>2, GoesFits
    <3>2. QED
      BY <2>2, <3>1
  <2>3. QED
    BY <1>2, <2>1, <2>2
<1>5. proc' \in [Procs -> Call]
  BY <1>4 DEF Done
<1>6. QED
  BY <1>2, <1>4, <1>5 DEF CallsFit

LEMMA TunnelCalls ==
  ASSUME TypeOK, CallsFit, TunnelSide
  PROVE  /\ proc' \in [Procs -> Call] /\ CallsFit'
         /\ \A p \in Procs :
              \/ proc'[p] = proc[p]
              \/ proc[p].at = "blocked" /\ proc'[p] = [proc[p] EXCEPT !.at = "woken"]
         /\ UNCHANGED <<perRun, mutex, owner, server>>
<1>1. CASE \E c \in Conns, flow \in Flows : Done(c, flow)
  BY <1>1, DoneWakes DEF Done
<1>2. CASE ~\E c \in Conns, flow \in Flows : Done(c, flow)
  <2>1. UNCHANGED pool
    BY <1>2 DEF TunnelSide, ContainerStep, ContainerStarts, ContainerDies, Connect,
         TunnelStep, Refuse, Hijack, Store, StartUp, StartDown, StartFlow, CopierStep,
         PeerStalls, PeerTakes, Unwind, Unwinds
  <2>2. QED
    BY <2>1 DEF pool, TypeOK, CallsFit
<1>3. QED
  BY <1>1, <1>2

-----------------------------------------------------------------------------
(* Type correctness, together with the tunnels' count, on which the counter *)
(* not going below zero depends.                                            *)

LEMMA CountedAreFinite ==
  ASSUME TypeOK
  PROVE  \A l : IsFiniteSet(Counted(l)) /\ Cardinality(Counted(l)) \in Nat
<1>1. Flows = {"up"} \cup {"down"}
  BY DEF Flows
<1>2. IsFiniteSet(Flows)
  BY <1>1, FS_Singleton, FS_AddElement
<1>3. IsFiniteSet(Conns \X Flows)
  BY <1>2, ConnsAreFinite, FS_Product
<1>4. \A l : Counted(l) \subseteq Conns \X Flows
  BY DEF Counted, TypeOK
<1>5. QED
  BY <1>3, <1>4, FS_Subset, FS_CardinalityType

\* A proxy that counts nothing has no goroutine left.
LEMMA ZeroIsEmpty ==
  ASSUME TypeOK, CountsAreExact, NEW l \in Listeners, closeTun[l] = 0
  PROVE  Counted(l) = {}
BY CountedAreFinite, FS_EmptySet DEF CountsAreExact

\* Nothing that is counted changes unless a flow starts or is done.
LEMMA CountsStay ==
  ASSUME TypeOK, CountsAreExact, closeTun' = closeTun,
         copying' \cup unwinding' = copying \cup unwinding,
         \A t \in copying \cup unwinding : via'[t[1]] = via[t[1]]
  PROVE  CountsAreExact'
<1>1. \A l \in Listeners : Counted(l)' = Counted(l)
  BY DEF Counted
<1>2. QED
  BY <1>1 DEF CountsAreExact

LEMMA FlowIsCounted ==
  ASSUME TypeOK, CountsAreExact, NEW c \in Conns, NEW flow \in Flows, StartFlow(c, flow),
         <<c, flow>> \notin copying \cup unwinding, via[c] # None
  PROVE  CountsAreExact' /\ closeTun' \in [Listeners -> Nat]
<1>1. via[c] \in Listeners
  BY DEF TypeOK
<1>2. \A l \in Listeners :
        Counted(l)' = IF l = via[c] THEN Counted(l) \cup {<<c, flow>>} ELSE Counted(l)
  BY DEF StartFlow, Counted
<1>3. \A l : <<c, flow>> \notin Counted(l)
  BY DEF Counted
<1>4. \A l \in Listeners :
        closeTun'[l] = IF l = via[c] THEN closeTun[l] + 1 ELSE closeTun[l]
  BY DEF StartFlow, TypeOK
<1>5. Cardinality(Counted(via[c]) \cup {<<c, flow>>}) = Cardinality(Counted(via[c])) + 1
  BY <1>3, CountedAreFinite, FS_AddElement
<1>6. CountsAreExact'
  BY <1>1, <1>2, <1>4, <1>5 DEF CountsAreExact
<1>7. closeTun' \in [Listeners -> Nat]
  BY DEF StartFlow, TypeOK
<1>8. QED
  BY <1>6, <1>7

LEMMA DoneIsCounted ==
  ASSUME TypeOK, CountsAreExact, FlowsAreStarted, NEW c \in Conns, NEW flow \in Flows,
         Done(c, flow)
  PROVE  CountsAreExact' /\ closeTun' \in [Listeners -> Nat]
<1>1. via[c] \in Listeners
  BY DEF Done, FlowsAreStarted, TypeOK
<1>2. <<c, flow>> \notin copying /\ <<c, flow>> \in Counted(via[c])
  BY DEF Done, FlowsAreStarted, Counted
<1>3. \A l \in Listeners :
        Counted(l)' = IF l = via[c] THEN Counted(l) \ {<<c, flow>>} ELSE Counted(l)
  BY <1>2 DEF Done, Counted, conns
<1>4. \A l \in Listeners :
        closeTun'[l] = IF l = via[c] THEN closeTun[l] - 1 ELSE closeTun[l]
  BY DEF Done, TypeOK
<1>5. /\ Cardinality(Counted(via[c]) \ {<<c, flow>>}) = Cardinality(Counted(via[c])) - 1
      /\ Cardinality(Counted(via[c]) \ {<<c, flow>>}) \in Nat
  BY <1>2, CountedAreFinite, FS_RemoveElement, FS_CardinalityType
<1>6. closeTun[via[c]] = Cardinality(Counted(via[c]))
  BY <1>1 DEF CountsAreExact
<1>7. CountsAreExact'
  BY <1>1, <1>3, <1>4, <1>5, <1>6 DEF CountsAreExact
<1>8. closeTun' = [closeTun EXCEPT ![via[c]] = closeTun[via[c]] - 1]
      /\ closeTun[via[c]] - 1 \in Nat
  BY <1>5, <1>6 DEF Done
<1>9. closeTun' \in [Listeners -> Nat]
  BY <1>8 DEF TypeOK
<1>10. QED
  BY <1>7, <1>9

LEMMA InitTunnelInv == Init => TunnelInv
<1> SUFFICES ASSUME Init PROVE TunnelInv
  OBVIOUS
<1>1. TypeOK
  BY IdleFits DEF Init, TypeOK, Handler, Sides
<1>2. CallsFit
  BY IdleFits DEF Init, CallsFit
<1>3. FlowsAreStarted /\ DialersAreServed
  BY DEF Init, FlowsAreStarted, DialersAreServed
<1>4. CountsAreExact
  BY FS_EmptySet DEF Init, CountsAreExact, Counted
<1>5. QED
  BY <1>1, <1>2, <1>3, <1>4 DEF TunnelInv

LEMMA ConnectKeeps ==
  ASSUME TunnelInv, NEW c \in Conns, NEW r \in Runs, NEW l \in Listeners, Connect(c, r, l)
  PROVE  TunnelInv'
<1> USE DEF TunnelInv, Connect
<1>1. /\ \A d \in Conns : via'[d] = IF d = c THEN l ELSE via[d]
      /\ \A d \in Conns : handler'[d] = IF d = c THEN "dialing" ELSE handler[d]
      /\ \A d \in Conns : d # c => open'[d] = open[d]
      /\ l # None
  BY ListenersAreApart DEF TypeOK
<1>2. \A flow \in Flows : <<c, flow>> \notin copying \cup unwinding
  BY DEF FlowsAreStarted
<1>3. \A t \in copying \cup unwinding : via'[t[1]] = via[t[1]]
  BY <1>1, <1>2 DEF TypeOK
<1>4. CountsAreExact'
  BY <1>3, CountsStay DEF copiers
<1>5. FlowsAreStarted'
  BY <1>1, <1>2 DEF FlowsAreStarted, copiers
<1>6. DialersAreServed'
  BY <1>1 DEF DialersAreServed, pool
<1>7. TypeOK'
  BY DEF TypeOK, Handler, Sides, copiers, pool
<1>8. CallsFit'
  BY DEF CallsFit, pool
<1>9. QED
  BY <1>4, <1>5, <1>6, <1>7, <1>8

\* A handler that goes on: only StartUp and StartDown touch what is counted.
LEMMA TunnelKeeps ==
  ASSUME TunnelInv, NEW c \in Conns, TunnelStep(c) PROVE TunnelInv'
<1> USE DEF TunnelInv
<1>1. CASE Refuse(c) \/ Hijack(c) \/ Store(c)
  <2>1. /\ UNCHANGED <<container, from, via, copiers, pool>>
        /\ \A d \in Conns : d # c => handler'[d] = handler[d] /\ open'[d] = open[d]
        /\ handler[c] \in {"dialing", "hijacked"}
        /\ handler'[c] \in {"ended", "hijacked", "stored"}
    BY <1>1 DEF Refuse, Hijack, Store, TypeOK
  <2>2. /\ handler' \in [Conns -> Handler] /\ open' \in [Conns -> SUBSET Sides]
        /\ tunnels' \in SUBSET Conns
    BY <1>1 DEF Refuse, Hijack, Store, TypeOK, Handler, Sides
  <2>3. CountsAreExact'
    BY <2>1, CountsStay DEF copiers
  <2>4. FlowsAreStarted'
    BY <2>1 DEF FlowsAreStarted, copiers
  <2>5. DialersAreServed' /\ CallsFit'
    BY <2>1 DEF DialersAreServed, CallsFit, pool
  <2>6. TypeOK'
    BY <2>1, <2>2 DEF TypeOK, copiers, pool
  <2>7. QED
    BY <2>3, <2>4, <2>5, <2>6
<1>2. ASSUME NEW flow \in Flows,
             \/ StartUp(c) /\ flow = "up"
             \/ StartDown(c) /\ flow = "down"
      PROVE  TunnelInv'
  <2>1. /\ StartFlow(c, flow)
        /\ <<c, flow>> \notin copying \cup unwinding /\ via[c] # None
        /\ handler'[c] = IF flow = "up" THEN "copying" ELSE "ended"
        /\ \A d \in Conns : d # c => handler'[d] = handler[d]
        /\ handler' \in [Conns -> Handler]
    BY <1>2 DEF StartUp, StartDown, FlowsAreStarted, TypeOK, Handler
  <2>2. CountsAreExact' /\ closeTun' \in [Listeners -> Nat]
    BY <2>1, FlowIsCounted
  <2>3. FlowsAreStarted'
    <3>1. copying' \cap unwinding' = {}
      BY <2>1 DEF StartFlow, FlowsAreStarted
    <3>2. ASSUME NEW d \in Conns, NEW f \in Flows, <<d, f>> \in copying' \cup unwinding'
          PROVE  /\ via'[d] # None
                 /\ handler'[d] = "ended" \/ (handler'[d] = "copying" /\ f = "up")
      <4>1. <<d, f>> \in copying \cup unwinding \/ (d = c /\ f = flow)
        BY <2>1, <3>2 DEF StartFlow
      <4>2. CASE d = c /\ f = flow
        BY <2>1, <4>2 DEF StartFlow, Flows
      <4>3. CASE <<d, f>> \in copying \cup unwinding
        BY <1>2, <2>1, <4>3 DEF StartFlow, FlowsAreStarted, StartUp, StartDown
      <4>4. QED
        BY <4>1, <4>2, <4>3
    <3>3. \A d \in Conns :
            handler'[d] \in {"dialing", "hijacked", "stored", "copying"} => via'[d] # None
      BY <2>1 DEF StartFlow, FlowsAreStarted
    <3>4. QED
      BY <3>1, <3>2, <3>3 DEF FlowsAreStarted
  <2>4. DialersAreServed' /\ CallsFit'
    BY <2>1 DEF StartFlow, DialersAreServed, CallsFit, pool
  <2>5. TypeOK'
    BY <2>1, <2>2 DEF StartFlow, TypeOK, pool
  <2>6. QED
    BY <2>2, <2>3, <2>4, <2>5
<1>3. QED
  BY <1>1, <1>2 DEF TunnelStep, Flows

LEMMA CopierKeeps ==
  ASSUME TunnelInv, NEW c \in Conns, NEW flow \in Flows, CopierStep(c, flow)
  PROVE  TunnelInv'
<1> USE DEF TunnelInv
<1>1. CASE Unwind(c, flow)
  <2>1. CountsAreExact'
    BY <1>1, CountsStay DEF Unwind, Unwinds
  <2>2. FlowsAreStarted'
    BY <1>1 DEF Unwind, Unwinds, FlowsAreStarted
  <2>3. \A d \in Conns : open'[d] \subseteq open[d]
    BY <1>1 DEF Unwind, Unwinds, TypeOK
  <2>4. DialersAreServed' /\ CallsFit'
    BY <1>1, <2>3 DEF Unwind, Unwinds, DialersAreServed, CallsFit, pool
  <2>5. TypeOK'
    BY <1>1 DEF Unwind, Unwinds, TypeOK, pool
  <2>6. QED
    BY <2>1, <2>2, <2>4, <2>5
<1>2. CASE Done(c, flow)
  <2>1. CountsAreExact' /\ closeTun' \in [Listeners -> Nat]
    BY <1>2, DoneIsCounted
  <2>2. FlowsAreStarted' /\ DialersAreServed'
    BY <1>2 DEF Done, FlowsAreStarted, DialersAreServed, conns
  <2>3. proc' \in [Procs -> Call] /\ CallsFit'
    BY <1>2, DoneWakes
  <2>4. TypeOK'
    BY <1>2, <2>1, <2>3 DEF Done, TypeOK, conns
  <2>5. QED
    BY <2>1, <2>2, <2>3, <2>4
<1>3. CASE PeerStalls(c, flow) \/ PeerTakes(c, flow)
  <2>1. CountsAreExact' /\ FlowsAreStarted' /\ DialersAreServed' /\ CallsFit'
    BY <1>3 DEF PeerStalls, PeerTakes, conns, pool, CountsAreExact, Counted, FlowsAreStarted,
         DialersAreServed, CallsFit
  <2>2. TypeOK'
    BY <1>3 DEF PeerStalls, PeerTakes, conns, pool, TypeOK
  <2>3. QED
    BY <2>1, <2>2
<1>4. QED
  BY <1>1, <1>2, <1>3 DEF CopierStep

\* What a call into the pool does to connections: it closes sockets.
LEMMA PoolCloses ==
  ASSUME TunnelInv, NEW p \in Procs, PoolStep(p), ~DaemonPanics(p)
  PROVE  /\ UNCHANGED <<handler, from, via, tunnels, copiers>>
         /\ open' \in [Conns -> SUBSET Sides]
         /\ \A c \in Conns : open'[c] = open[c] \/ open'[c] = {}
<1> USE DEF TunnelInv
<1>1. CASE RangeCloses(p) \/ ServerCloses(p)
  BY <1>1 DEF RangeCloses, ServerCloses, TypeOK
<1>2. CASE ~(RangeCloses(p) \/ ServerCloses(p))
  <2>1. UNCHANGED <<conns, copiers>>
    BY <1>2 DEF PoolStep, TeardownStep, OpenBinds, OpenRegisters, Registers, OpenReplaces,
         CloseBegins, ShutdownBegins, ShutdownCloses, ShutdownClosesShared, WaitBegins,
         WaitReturns, HandlerPanics
  <2>2. QED
    BY <2>1 DEF conns, TypeOK
<1>3. QED
  BY <1>1, <1>2

\* ... and to the servers: one is bound, or one is closed and with it the
\* connections whose handlers are still dialing.
LEMMA PoolServers ==
  ASSUME TunnelInv, NEW p \in Procs, PoolStep(p), ~DaemonPanics(p)
  PROVE  /\ server' \in [Listeners -> {"unbound", "serving", "closed"}]
         /\ \A l \in Listeners : server[l] = "serving" /\ server'[l] # "serving" =>
              \A c \in Conns : handler[c] = "dialing" /\ via[c] = l => open'[c] = {}
<1> USE DEF TunnelInv
<1>1. CASE ServerCloses(p)
  BY <1>1 DEF ServerCloses, TypeOK
<1>2. ASSUME NEW r \in Runs, NEW l \in Listeners, OpenBinds(p, r, l)
      PROVE  /\ server' \in [Listeners -> {"unbound", "serving", "closed"}]
             /\ \A k \in Listeners : server'[k] = server[k] \/ server'[k] = "serving"
  BY <1>2 DEF OpenBinds, TypeOK
<1>3. CASE ~(ServerCloses(p) \/ \E r \in Runs, l \in Listeners : OpenBinds(p, r, l))
  <2>1. server' = server
    BY <1>3 DEF PoolStep, TeardownStep, OpenRegisters, Registers, OpenReplaces,
         CloseBegins, ShutdownBegins, ShutdownCloses, ShutdownClosesShared, RangeCloses,
         WaitBegins, WaitReturns, HandlerPanics
  <2>2. QED
    BY <2>1 DEF TypeOK
<1>4. QED
  BY <1>1, <1>2, <1>3

\* ... and to what the pool knows.
LEMMA PoolTypes ==
  ASSUME TypeOK, CallsFit, NEW p \in Procs, PoolStep(p), ~DaemonPanics(p)
  PROVE  /\ container' \in [Runs -> {"none", "running", "dead"}]
         /\ perRun' \in [Runs -> Listeners \cup {None}]
         /\ mutex' \in Procs \cup {None}
         /\ owner' \in [Listeners -> Runs \cup {None}]
<1> USE DEF TypeOK
<1>1. proc[p] \in Call /\ proc[p].new \in Listeners \cup {None}
  BY DEF Call
<1>2. CASE OpenRegisters(p)
  BY <1>1, <1>2 DEF OpenRegisters, Registers
<1>3. CASE ServerCloses(p)
  <2>1. \/ perRun' = perRun /\ mutex' = mutex
        \/ perRun' = [perRun EXCEPT ![proc[p].run] = proc[p].new] /\ mutex' = None
    BY <1>3 DEF ServerCloses, Returns, Goes
  <2>2. QED
    BY <1>1, <1>3, <2>1 DEF ServerCloses
<1>4. ASSUME NEW r \in Runs, NEW job, CloseBegins(p, r, job)
      PROVE  /\ container' \in [Runs -> {"none", "running", "dead"}]
             /\ perRun' \in [Runs -> Listeners \cup {None}]
             /\ UNCHANGED <<mutex, owner>>
  BY <1>4 DEF CloseBegins
<1>5. CASE \E r \in Runs, l \in Listeners : OpenBinds(p, r, l)
  BY <1>5 DEF OpenBinds
<1>6. CASE OpenReplaces(p) \/ \E r \in Runs : ShutdownCloses(p, r)
  BY <1>6 DEF OpenReplaces, ShutdownCloses
<1>7. CASE ShutdownBegins(p) \/ ShutdownClosesShared(p) \/ RangeCloses(p) \/ WaitBegins(p)
             \/ WaitReturns(p) \/ HandlerPanics(p)
  BY <1>7 DEF ShutdownBegins, ShutdownClosesShared, RangeCloses, WaitBegins, WaitReturns,
       HandlerPanics
<1>8. QED
  BY <1>2, <1>3, <1>4, <1>5, <1>6, <1>7 DEF PoolStep, TeardownStep

LEMMA PoolKeeps ==
  ASSUME TunnelInv, NEW p \in Procs, PoolStep(p), ~DaemonPanics(p) PROVE TunnelInv'
<1> USE DEF TunnelInv
<1>1. proc' \in [Procs -> Call] /\ CallsFit'
  <2>1. PICK q \in Call : FitCall(q) /\ proc' = [proc EXCEPT ![p] = q]
    BY PoolCalls
  <2>2. QED
    BY <2>1 DEF TypeOK, CallsFit
<1>2. TypeOK'
  BY <1>1, PoolCloses, PoolServers, PoolTypes DEF TypeOK, copiers
<1>3. FlowsAreStarted'
  BY PoolCloses DEF FlowsAreStarted, copiers
<1>4. CountsAreExact'
  BY PoolCloses, CountsStay DEF copiers
<1>5. DialersAreServed'
  <2>1. ASSUME NEW c \in Conns, handler'[c] = "dialing", open'[c] # {}
        PROVE  server'[via'[c]] = "serving"
    <3>1. handler[c] = "dialing" /\ open[c] # {} /\ via'[c] = via[c]
      BY <2>1, PoolCloses
    <3>2. via[c] \in Listeners /\ server[via[c]] = "serving"
      BY <3>1 DEF DialersAreServed, FlowsAreStarted, TypeOK
    <3>3. QED
      BY <2>1, <3>1, <3>2, PoolServers
  <2>2. QED
    BY <2>1 DEF DialersAreServed
<1>6. QED
  BY <1>1, <1>2, <1>3, <1>4, <1>5

\* Everything ends with the daemon.
LEMMA PanicKeeps ==
  ASSUME TunnelInv, NEW p \in Procs, DaemonPanics(p) PROVE TunnelInv'
<1> USE DEF TunnelInv, DaemonPanics
<1>1. proc' \in [Procs -> Call] /\ CallsFit'
  BY IdleFits DEF CallsFit
<1>2. TypeOK'
  BY <1>1 DEF TypeOK, Handler
<1>3. FlowsAreStarted' /\ DialersAreServed'
  BY DEF FlowsAreStarted, DialersAreServed
<1>4. CountsAreExact'
  <2>1. \A l \in Listeners : Counted(l)' = {} /\ closeTun'[l] = 0
    BY DEF Counted
  <2>2. QED
    BY <2>1, FS_EmptySet DEF CountsAreExact
<1>5. QED
  BY <1>1, <1>2, <1>3, <1>4

LEMMA NextTunnelInv == TunnelInv /\ [Next]_vars => TunnelInv'
<1> SUFFICES ASSUME TunnelInv, [Next]_vars PROVE TunnelInv'
  OBVIOUS
<1>1. CASE UNCHANGED <<conns, copiers, pool>> /\ container' \in [Runs -> {"none", "running", "dead"}]
  <2>1. CountsAreExact'
    BY <1>1 DEF TunnelInv, CountsAreExact, Counted, conns, copiers
  <2>2. QED
    BY <1>1, <2>1 DEF TunnelInv, TypeOK, CallsFit, FlowsAreStarted, DialersAreServed, conns,
         copiers, pool
<1>2. CASE UNCHANGED vars \/ \E r \in Runs : ContainerStep(r)
  <2>1. UNCHANGED <<conns, copiers, pool>>
        /\ container' \in [Runs -> {"none", "running", "dead"}]
    BY <1>2 DEF vars, ContainerStep, ContainerStarts, ContainerDies, TunnelInv, TypeOK
  <2>2. QED
    BY <1>1, <2>1
<1>3. QED
  BY <1>2, ConnectKeeps, TunnelKeeps, CopierKeeps, PoolKeeps, PanicKeeps DEF Next

\* Every variable of the proxies keeps its type, and no counter of a WaitGroup
\* goes below zero, which would be a panic.
THEOREM TypeCorrect == Spec => []TypeOK
<1>1. TunnelInv => TypeOK
  BY DEF TunnelInv
<1>2. QED
  BY <1>1, InitTunnelInv, NextTunnelInv, PTL DEF Spec

\* Every proxy's WaitGroup counts the copying goroutines of that proxy that were
\* started and have not ended.
THEOREM CountsCorrect == Spec => []CountsAreExact
<1>1. TunnelInv => CountsAreExact
  BY DEF TunnelInv
<1>2. QED
  BY <1>1, InitTunnelInv, NextTunnelInv, PTL DEF Spec

-----------------------------------------------------------------------------
(* What a step may never do.                                               *)

\* Only WaitBegins and WaitReturns let a call go on to close the server.
LEMMA ShutComesFromWait ==
  ASSUME TunnelInv, [Next]_vars, NEW p \in Procs, proc[p].at # "shut", proc'[p].at = "shut"
  PROVE  WaitBegins(p) \/ WaitReturns(p)
<1> USE DEF TunnelInv
<1>1. proc \in [Procs -> Call] /\ \A q \in Procs : proc[q] \in Call
  BY DEF TypeOK
<1>2. CASE UNCHANGED vars
  BY <1>2 DEF vars, pool
<1>3. CASE TunnelSide
  <2>1. proc'[p] = [proc[p] EXCEPT !.at = "woken"]
    BY <1>3, TunnelCalls
  <2>2. proc'[p].at = "woken"
    BY <1>1, <2>1 DEF Call
  <2>3. QED
    BY <2>2
<1>4. ASSUME NEW q \in Procs, PoolStep(q) PROVE q = p /\ (WaitBegins(p) \/ WaitReturns(p))
  <2>1. CASE DaemonPanics(q)
    BY <2>1 DEF DaemonPanics, Idle
  <2>2. CASE ~DaemonPanics(q)
    <3>1. q = p
      BY <1>1, <1>4, <2>2, PoolCalls
    <3>2. proc[p] \in [job : Jobs, at : At, run : Runs \cup {None},
                       door : Listeners \cup {None}, new : Listeners \cup {None},
                       todo : SUBSET Runs]
          /\ p \in DOMAIN proc
      BY <1>1 DEF Call
    <3>3. CASE RangeCloses(q) \/ HandlerPanics(q)
      BY <3>1, <3>2, <3>3 DEF RangeCloses, HandlerPanics, Goes
    <3>4. CASE OpenReplaces(q) \/ ShutdownClosesShared(q)
      BY <3>1, <3>2, <3>4 DEF OpenReplaces, ShutdownClosesShared
    <3>5. ASSUME NEW r \in Runs, ShutdownCloses(q, r) PROVE proc'[p].at \in {"next", "range"}
      BY <3>1, <3>2, <3>5 DEF ShutdownCloses
    <3>6. ASSUME NEW r \in Runs, \/ \E l \in Listeners : OpenBinds(q, r, l)
                                \/ \E job \in {"close", "reap"} : CloseBegins(q, r, job)
          PROVE  proc'[p].at \in {"lock", "range"}
      <4>1. /\ \A l : [Idle EXCEPT !.job = "open", !.at = "lock",
                                   !.run = r, !.new = l].at = "lock"
            /\ \A job, l : [Idle EXCEPT !.job = job, !.at = "range",
                                        !.run = r, !.door = l].at = "range"
        BY DEF Idle
      <4>2. \E rec : proc' = [proc EXCEPT ![p] = rec] /\ rec.at \in {"lock", "range"}
        <5>1. ASSUME NEW l \in Listeners, OpenBinds(q, r, l)
              PROVE  \E rec : proc' = [proc EXCEPT ![p] = rec] /\ rec.at = "lock"
          BY <3>1, <4>1, <5>1 DEF OpenBinds
        <5>2. ASSUME NEW job \in {"close", "reap"}, CloseBegins(q, r, job)
              PROVE  \E rec : proc' = [proc EXCEPT ![p] = rec] /\ rec.at = "range"
          BY <3>1, <4>1, <5>2 DEF CloseBegins
        <5>3. QED
          BY <3>6, <5>1, <5>2
      <4>3. QED
        BY <3>2, <4>2
    <3>7. CASE OpenRegisters(q) \/ ShutdownBegins(q)
      <4>1. Idle.at = "idle"
            /\ \A todo : [Idle EXCEPT !.job = "shutdown", !.at = "next", !.todo = todo].at = "next"
        BY DEF Idle
      <4>2. proc'[p].at \in {"idle", "next"}
        BY <3>1, <3>2, <3>7, <4>1 DEF OpenRegisters, Registers, ShutdownBegins
      <4>3. QED
        BY <4>2
    <3>8. CASE ServerCloses(q)
      <4>1. Idle.at = "idle"
        BY DEF Idle
      <4>2. proc' = [proc EXCEPT ![p] = Idle]
            \/ proc' = [proc EXCEPT ![p] = [proc[p] EXCEPT !.at = "next"]]
        BY <3>1, <3>8 DEF ServerCloses, Returns, Goes
      <4>3. proc'[p].at \in {"idle", "next"}
        BY <3>2, <4>1, <4>2
      <4>4. QED
        BY <4>3
    <3>9. QED
      BY <1>4, <2>2, <3>1, <3>3, <3>4, <3>5, <3>6, <3>7, <3>8 DEF PoolStep, TeardownStep
  <2>3. QED
    BY <2>1, <2>2
<1>5. QED
  BY <1>2, <1>3, <1>4 DEF Next, TunnelSide

\* CloseTunnels returns only when no goroutine of a tunnel of its proxy copies
\* or holds a socket.
THEOREM CloseTunnelsCorrect == Spec => CloseTunnelsWaits
<1>1. TunnelInv /\ [Next]_vars =>
        [\A p \in Procs : proc[p].at # "shut" /\ proc'[p].at = "shut" =>
           Counted(proc[p].door) = {}]_vars
  <2> SUFFICES ASSUME TunnelInv, [Next]_vars, NEW p \in Procs,
                      proc[p].at # "shut", proc'[p].at = "shut"
               PROVE  Counted(proc[p].door) = {}
    OBVIOUS
  <2>1. proc[p] \in Call /\ proc \in [Procs -> Call]
    BY DEF TunnelInv, TypeOK
  <2>2. WaitBegins(p) \/ WaitReturns(p)
    BY ShutComesFromWait
  <2>3. proc[p].door \in Listeners
    BY <2>1, <2>2 DEF WaitBegins, WaitReturns, Call
  <2>4. closeTun[proc[p].door] = 0
    <3>1. CASE WaitBegins(p)
      <4>1. proc' = [proc EXCEPT ![p] = [proc[p] EXCEPT !.at =
                        IF closeTun[proc[p].door] = 0 THEN "shut" ELSE "blocked"]]
        BY <3>1 DEF WaitBegins, Goes
      <4>2. proc'[p].at = IF closeTun[proc[p].door] = 0 THEN "shut" ELSE "blocked"
        BY <2>1, <4>1 DEF Call
      <4>3. QED
        BY <4>2
    <3>2. CASE WaitReturns(p)
      BY <3>2 DEF WaitReturns
    <3>3. QED
      BY <2>2, <3>1, <3>2
  <2>5. QED
    BY <2>3, <2>4, ZeroIsEmpty DEF TunnelInv
<1>2. QED
  BY <1>1, InitTunnelInv, NextTunnelInv, PTL DEF Spec, CloseTunnelsWaits

\* A tunnel comes to be only while the listener of its connection serves.
THEOREM ClosedDoorsCorrect == Spec => NoTunnelThroughClosedDoor
<1>1. TunnelInv /\ [Next]_vars =>
        [\A c \in Conns : open[c] # Sides /\ open'[c] = Sides =>
           server[via[c]] = "serving"]_vars
  <2> SUFFICES ASSUME TunnelInv, [Next]_vars, NEW c \in Conns, open[c] # Sides,
                      open'[c] = Sides
               PROVE  server[via[c]] = "serving"
    OBVIOUS
  <2>1. open \in [Conns -> SUBSET Sides] /\ "client" \in Sides /\ "upstream" \in Sides
        /\ Sides # {} /\ Sides # {"client"} /\ ("upstream" # "client")
    BY DEF TunnelInv, TypeOK, Sides
  <2>2. CASE Hijack(c)
    <3>1. open[c] # {}
      BY <2>1, <2>2 DEF Hijack
    <3>2. QED
      BY <2>2, <3>1 DEF Hijack, TunnelInv, DialersAreServed
  <2>3. CASE ~Hijack(c)
    <3>1. open'[c] = open[c] \/ open'[c] \subseteq {"client"} \/ open'[c] \subseteq open[c]
      <4>1. ASSUME NEW d \in Conns, TunnelStep(d)
            PROVE  open'[c] = open[c] \/ open'[c] = {}
        BY <2>1, <2>3, <4>1 DEF TunnelStep, Refuse, Hijack, Store, StartUp, StartDown,
             StartFlow
      <4>2. ASSUME NEW d \in Conns, NEW flow \in Flows, CopierStep(d, flow)
            PROVE  open'[c] \subseteq open[c]
        BY <2>1, <4>2 DEF CopierStep, PeerStalls, PeerTakes, Unwind, Unwinds, Done, conns
      <4>3. ASSUME NEW d \in Conns, NEW r \in Runs, NEW l \in Listeners, Connect(d, r, l)
            PROVE  open'[c] = open[c] \/ open'[c] \subseteq {"client"}
        BY <2>1, <4>3 DEF Connect
      <4>4. ASSUME NEW p \in Procs, PoolStep(p)
            PROVE  open'[c] = open[c] \/ open'[c] = {}
        <5>1. CASE DaemonPanics(p)
          BY <5>1 DEF DaemonPanics
        <5>2. CASE ~DaemonPanics(p)
          BY <4>4, <5>2, PoolCloses
        <5>3. QED
          BY <5>1, <5>2
      <4>5. ASSUME NEW r \in Runs, ContainerStep(r) PROVE open'[c] = open[c]
        BY <4>5 DEF ContainerStep, ContainerStarts, ContainerDies, conns
      <4>6. QED
        BY <4>1, <4>2, <4>3, <4>4, <4>5 DEF Next, vars, conns
    <3>2. open[c] \subseteq Sides
      BY <2>1
    <3>3. QED
      BY <2>1, <3>1, <3>2
  <2>4. QED
    BY <2>2, <2>3
<1>2. QED
  BY <1>1, InitTunnelInv, NextTunnelInv, PTL DEF Spec, NoTunnelThroughClosedDoor

-----------------------------------------------------------------------------
(* The listeners.                                                          *)

\* A call that moves on while it closes a listener changes nothing here.
LEMMA MovesOnKeep ==
  ASSUME TypeOK, PoolInv, UNCHANGED <<perRun, mutex, owner, server>>,
         \A p \in Procs :
           \/ proc'[p] = proc[p]
           \/ /\ proc[p].at \in Closing
              /\ \E at \in Closing : proc'[p] = [proc[p] EXCEPT !.at = at]
  PROVE  PoolInv'
<1>1. ASSUME NEW p \in Procs
      PROVE  /\ proc'[p].job = proc[p].job /\ proc'[p].run = proc[p].run
             /\ proc'[p].door = proc[p].door /\ proc'[p].new = proc[p].new
             /\ proc'[p].at \in Closing <=> proc[p].at \in Closing
             /\ proc'[p].at = "idle" <=> proc[p].at = "idle"
             /\ proc'[p].at = "next" <=> proc[p].at = "next"
  BY DEF TypeOK, Call, Closing
<1>2. ListenersAreRegistered'
  BY <1>1 DEF PoolInv, ListenersAreRegistered, InHand
<1>3. MutexIsHeld'
  BY <1>1 DEF PoolInv, MutexIsHeld
<1>4. DoorsAreTaken' /\ OwnersFit'
  BY <1>1 DEF PoolInv, DoorsAreTaken, OwnersFit
<1>5. NewIsFresh'
  BY <1>1 DEF PoolInv, NewIsFresh
<1>6. QED
  BY <1>2, <1>3, <1>4, <1>5 DEF PoolInv

\* No run has the shared listener for its own.
LEMMA SharedIsUnregistered ==
  ASSUME PoolInv PROVE \A r \in Runs : perRun[r] # Shared
BY ListenersAreApart DEF PoolInv, ListenersAreRegistered, OwnersFit

LEMMA OpenBindsKeeps ==
  ASSUME TypeOK, CallsFit, PoolInv, NEW p \in Procs, NEW r \in Runs, NEW l \in Listeners,
         OpenBinds(p, r, l)
  PROVE  PoolInv'
<1> USE DEF PoolInv
<1>1. /\ proc'[p].job = "open" /\ proc'[p].at = "lock" /\ proc'[p].run = r
      /\ proc'[p].new = l /\ proc'[p].door = None
      /\ \A q \in Procs : q # p => proc'[q] = proc[q]
  BY DEF OpenBinds, TypeOK, Idle
<1>2. /\ proc[p].at = "idle" /\ proc[p].job = "none" /\ proc[p].door = None
      /\ proc[p].new = None
  BY DEF OpenBinds, Idle
<1>3. /\ \A k \in Listeners : server'[k] = IF k = l THEN "serving" ELSE server[k]
      /\ \A k \in Listeners : owner'[k] = IF k = l THEN r ELSE owner[k]
      /\ server[l] = "unbound" /\ perRun' = perRun /\ mutex' = mutex
  BY DEF OpenBinds, TypeOK
<1>4. l # None /\ l # Shared
  BY <1>3, ListenersAreApart DEF OwnersFit
<1>5. \A q \in Runs : perRun[q] # l
  BY <1>3, <1>4 DEF ListenersAreRegistered
<1>6. \A q \in Procs : proc[q].door # l /\ proc[q].new # l
                       /\ proc[q].door \in Listeners \cup {None}
                       /\ proc[q].new \in Listeners \cup {None}
  BY <1>3, <1>4 DEF DoorsAreTaken, NewIsFresh, TypeOK, Call
<1>7. ListenersAreRegistered'
  <2>1. ASSUME NEW q \in Runs, perRun'[q] # None
        PROVE  server'[perRun'[q]] = "serving" /\ owner'[perRun'[q]] = q
    BY <1>3, <1>5, <2>1 DEF ListenersAreRegistered, TypeOK
  <2>2. ASSUME NEW k \in Listeners \ {Shared}, server'[k] = "serving"
        PROVE  perRun'[owner'[k]] = k \/ InHand(k)'
    <3>1. CASE k = l
      BY <1>1, <3>1 DEF InHand
    <3>2. CASE k # l
      <4>1. perRun[owner[k]] = k \/ InHand(k)
        BY <1>3, <2>2, <3>2 DEF ListenersAreRegistered
      <4>2. InHand(k) => InHand(k)'
        BY <1>1, <1>2 DEF InHand
      <4>3. QED
        BY <1>3, <3>2, <4>1, <4>2
    <3>3. QED
      BY <3>1, <3>2
  <2>3. QED
    BY <2>1, <2>2 DEF ListenersAreRegistered
<1>8. MutexIsHeld'
  BY <1>1, <1>2, <1>3 DEF MutexIsHeld, Closing
<1>9. DoorsAreTaken'
  BY <1>1, <1>3, <1>4, <1>6 DEF DoorsAreTaken, Closing
<1>10. NewIsFresh'
  BY <1>1, <1>2, <1>3, <1>4, <1>5, <1>6 DEF NewIsFresh
<1>11. OwnersFit'
  BY <1>3, <1>4, ListenersAreApart DEF OwnersFit
<1>12. QED
  BY <1>7, <1>8, <1>9, <1>10, <1>11

LEMMA OpenRegistersKeeps ==
  ASSUME TypeOK, CallsFit, PoolInv, NEW p \in Procs, OpenRegisters(p)
  PROVE  PoolInv'
<1> USE DEF PoolInv
<1> DEFINE r == proc[p].run
           l == proc[p].new
<1>1. r \in Runs /\ l # None /\ l \in Listeners /\ proc[p].door = None
      /\ proc[p].job = "open" /\ proc[p].at = "lock" /\ perRun[r] = None
  BY DEF OpenRegisters, CallsFit, FitCall, TypeOK, Call
<1>2. /\ proc'[p].job = "none" /\ proc'[p].at = "idle" /\ proc'[p].door = None
      /\ proc'[p].new = None
      /\ \A q \in Procs : q # p => proc'[q] = proc[q]
  BY DEF OpenRegisters, Registers, TypeOK, Idle
<1>3. /\ \A q \in Runs : perRun'[q] = IF q = r THEN l ELSE perRun[q]
      /\ mutex = None /\ mutex' = None /\ server' = server /\ owner' = owner
  BY <1>1 DEF OpenRegisters, Registers, TypeOK
<1>4. server[l] = "serving" /\ owner[l] = r
  BY <1>1 DEF NewIsFresh
<1> HIDE DEF r, l
<1>5. ListenersAreRegistered'
  <2>1. ASSUME NEW q \in Runs, perRun'[q] # None
        PROVE  server'[perRun'[q]] = "serving" /\ owner'[perRun'[q]] = q
    BY <1>3, <1>4, <2>1 DEF ListenersAreRegistered
  <2>2. ASSUME NEW k \in Listeners \ {Shared}, server'[k] = "serving"
        PROVE  perRun'[owner'[k]] = k \/ InHand(k)'
    <3>1. CASE k = l
      BY <1>1, <1>3, <1>4, <3>1
    <3>2. CASE k # l
      <4>1. perRun[owner[k]] = k \/ InHand(k)
        BY <1>3, <2>2 DEF ListenersAreRegistered
      <4>2. CASE InHand(k)
        <5>1. k # None
          BY ListenersAreApart
        <5>2. InHand(k)'
          BY <1>1, <1>2, <3>2, <4>2, <5>1 DEF InHand, l
        <5>3. QED
          BY <5>2
      <4>3. CASE perRun[owner[k]] = k /\ ~InHand(k)
        <5>1. k # None /\ owner[k] \in Runs \cup {None}
          BY ListenersAreApart DEF TypeOK
        <5>2. owner[k] \in Runs
          BY <1>3, <2>2 DEF OwnersFit
        <5>3. QED
          BY <1>1, <1>3, <4>3, <5>1, <5>2
      <4>4. QED
        BY <4>1, <4>2, <4>3
    <3>3. QED
      BY <3>1, <3>2
  <2>3. QED
    BY <2>1, <2>2 DEF ListenersAreRegistered
<1>6. MutexIsHeld'
  BY <1>1, <1>2, <1>3, ListenersAreApart DEF MutexIsHeld, Closing
<1>7. DoorsAreTaken'
  BY <1>1, <1>2, <1>3 DEF DoorsAreTaken, Closing, NewIsFresh, l
<1>8. NewIsFresh'
  BY <1>1, <1>2, <1>3 DEF NewIsFresh, l
<1>9. OwnersFit'
  BY <1>3 DEF OwnersFit
<1>10. QED
  BY <1>5, <1>6, <1>7, <1>8, <1>9

LEMMA OpenReplacesKeeps ==
  ASSUME TypeOK, CallsFit, PoolInv, NEW p \in Procs, OpenReplaces(p)
  PROVE  PoolInv'
<1> USE DEF PoolInv
<1>1. /\ proc[p].run \in Runs /\ proc[p].new # None /\ proc[p].job = "open"
      /\ proc[p].at = "lock" /\ perRun[proc[p].run] # None /\ mutex = None
      /\ proc[p].door = None
  BY DEF OpenReplaces, CallsFit, FitCall
<1>2. /\ proc'[p].job = "open" /\ proc'[p].at = "range" /\ proc'[p].run = proc[p].run
      /\ proc'[p].new = proc[p].new /\ proc'[p].door = perRun[proc[p].run]
      /\ \A q \in Procs : q # p => proc'[q] = proc[q]
  BY <1>1 DEF OpenReplaces, TypeOK, Call
<1>3. perRun' = perRun /\ mutex' = p /\ server' = server /\ owner' = owner
  BY DEF OpenReplaces
<1>4. server[perRun[proc[p].run]] = "serving"
  BY <1>1 DEF ListenersAreRegistered
<1>5. ListenersAreRegistered'
  <2>1. \A k \in Listeners : InHand(k) => InHand(k)'
    BY <1>1, <1>2, ListenersAreApart DEF InHand
  <2>2. QED
    BY <1>3, <2>1 DEF ListenersAreRegistered
<1>6. MutexIsHeld'
  BY <1>1, <1>2, <1>3, ListenersAreApart DEF MutexIsHeld, Closing
<1>7. DoorsAreTaken'
  BY <1>1, <1>2, <1>3, <1>4 DEF DoorsAreTaken
<1>8. NewIsFresh'
  BY <1>1, <1>2, <1>3 DEF NewIsFresh
<1>9. OwnersFit'
  BY <1>3 DEF OwnersFit
<1>10. QED
  BY <1>5, <1>6, <1>7, <1>8, <1>9

\* Close and Shutdown take a run's listener out of perRun and into their hand.
LEMMA TakesKeep ==
  ASSUME TypeOK, CallsFit, PoolInv, NEW p \in Procs, NEW r \in Runs, mutex = None,
         perRun' = [perRun EXCEPT ![r] = None], UNCHANGED <<mutex, owner, server>>,
         \A q \in Procs : q # p => proc'[q] = proc[q],
         proc[p].at = "idle" \/ proc[p].at = "next",
         proc'[p].job \notin {"none", "open"}, proc'[p].new = None,
         proc'[p].door = perRun[r],
         proc'[p].at = IF perRun[r] = None THEN "next" ELSE "range"
  PROVE  PoolInv'
<1> USE DEF PoolInv
<1>1. \A q \in Runs : perRun'[q] = IF q = r THEN None ELSE perRun[q]
  BY DEF TypeOK
<1>2. proc[p].job # "open" /\ proc[p].new = None
  BY DEF CallsFit, FitCall, Closing
<1>3. proc[p].door # None => server[proc[p].door] = "closed"
  BY DEF CallsFit, FitCall, Idle, DoorsAreTaken
<1>4. ListenersAreRegistered'
  <2>1. ASSUME NEW k \in Listeners \ {Shared}, server'[k] = "serving"
        PROVE  perRun'[owner'[k]] = k \/ InHand(k)'
    <3>1. k # None /\ owner[k] \in Runs /\ (perRun[owner[k]] = k \/ InHand(k))
      BY <2>1, ListenersAreApart DEF ListenersAreRegistered, OwnersFit
    <3>2. CASE perRun[owner[k]] = k /\ owner[k] # r
      BY <1>1, <3>1, <3>2
    <3>3. CASE perRun[owner[k]] = k /\ owner[k] = r
      BY <3>1, <3>3 DEF InHand
    <3>4. CASE InHand(k)
      <4>1. PICK q \in Procs : proc[q].at # "idle" /\ k \in {proc[q].door, proc[q].new}
        BY <3>4 DEF InHand
      <4>2. q # p
        BY <1>2, <1>3, <2>1, <3>1, <4>1
      <4>3. QED
        BY <4>1, <4>2 DEF InHand
    <3>5. QED
      BY <3>1, <3>2, <3>3, <3>4
  <2>2. QED
    BY <1>1, <2>1 DEF ListenersAreRegistered
<1>5. MutexIsHeld'
  BY <1>2, ListenersAreApart DEF MutexIsHeld
<1>6. DoorsAreTaken'
  <2>1. perRun[r] # None => server[perRun[r]] = "serving" /\ owner[perRun[r]] = r
    BY DEF ListenersAreRegistered
  <2>2. \A q \in Runs : q # r /\ perRun[q] # None => perRun[q] # perRun[r]
    BY <2>1 DEF ListenersAreRegistered
  <2>3. \A d \in Procs : d # p =>
          /\ proc'[d].at \in Closing /\ proc'[d].job # "open" =>
               \A q \in Runs : perRun'[q] # proc'[d].door
          /\ proc'[d].door # None => server'[proc'[d].door] # "unbound"
          /\ proc'[d].at = "next" => proc'[d].door = None \/ server'[proc'[d].door] = "closed"
    <3>1. \A d \in Procs : proc[d].at \in Closing => proc[d].door # None
      BY DEF TypeOK, Call, Closing
    <3>2. QED
      BY <1>1, <3>1 DEF DoorsAreTaken
  <2>4. "next" \notin Closing
    BY DEF Closing
  <2>5. QED
    BY <1>1, <2>1, <2>2, <2>3, <2>4 DEF DoorsAreTaken
<1>7. NewIsFresh'
  BY <1>1 DEF NewIsFresh
<1>8. OwnersFit'
  BY DEF OwnersFit
<1>9. QED
  BY <1>4, <1>5, <1>6, <1>7, <1>8

LEMMA CloseBeginsKeeps ==
  ASSUME TypeOK, CallsFit, PoolInv, NEW p \in Procs, NEW r \in Runs,
         NEW job \in {"close", "reap"}, CloseBegins(p, r, job)
  PROVE  PoolInv'
<1>1. /\ proc'[p].job = job /\ proc'[p].at = "range" /\ proc'[p].new = None
      /\ proc'[p].door = perRun[r] /\ perRun[r] # None
      /\ \A q \in Procs : q # p => proc'[q] = proc[q]
  BY DEF CloseBegins, TypeOK, Idle
<1>2. proc[p].at = "idle" /\ mutex = None
  BY DEF CloseBegins, Idle
<1>3. perRun' = [perRun EXCEPT ![r] = None] /\ UNCHANGED <<mutex, owner, server>>
  BY DEF CloseBegins
<1>4. QED
  BY <1>1, <1>2, <1>3, TakesKeep

LEMMA ShutdownClosesKeeps ==
  ASSUME TypeOK, CallsFit, PoolInv, NEW p \in Procs, NEW r \in Runs, ShutdownCloses(p, r)
  PROVE  PoolInv'
<1>1. proc[p].job = "shutdown" /\ proc[p].new = None /\ proc[p].at = "next"
  BY DEF ShutdownCloses, CallsFit, FitCall
<1>2. /\ proc'[p].job = "shutdown" /\ proc'[p].new = None
      /\ proc'[p].at = IF perRun[r] = None THEN "next" ELSE "range"
      /\ proc'[p].door = perRun[r]
      /\ \A q \in Procs : q # p => proc'[q] = proc[q]
  BY <1>1 DEF ShutdownCloses, TypeOK, Call
<1>3. /\ perRun' = [perRun EXCEPT ![r] = None] /\ mutex = None
      /\ UNCHANGED <<mutex, owner, server>>
  BY DEF ShutdownCloses
<1>4. QED
  BY <1>1, <1>2, <1>3, TakesKeep

\* Shutdown begins with nothing in its hand and ends with the shared listener.
LEMMA ShutdownKeeps ==
  ASSUME TypeOK, CallsFit, PoolInv, NEW p \in Procs,
         ShutdownBegins(p) \/ ShutdownClosesShared(p)
  PROVE  PoolInv'
<1> USE DEF PoolInv
<1>1. UNCHANGED <<perRun, mutex, owner, server>>
  BY DEF ShutdownBegins, ShutdownClosesShared
<1>2. /\ proc[p].at \in {"idle", "next"} /\ proc[p].job # "open" /\ proc[p].new = None
      /\ proc[p].door # None => server[proc[p].door] = "closed"
  BY DEF ShutdownBegins, ShutdownClosesShared, Idle, CallsFit, FitCall, Closing, DoorsAreTaken
<1>3. /\ proc'[p].job = "shutdown" /\ proc'[p].new = None
      /\ \/ proc'[p].at = "next" /\ proc'[p].door = None
         \/ proc'[p].at = "range" /\ proc'[p].door = Shared
      /\ \A q \in Procs : q # p => proc'[q] = proc[q]
  <2>1. CASE ShutdownBegins(p)
    <3>1. proc'[p] = [Idle EXCEPT !.job = "shutdown", !.at = "next",
                         !.todo = {r \in Runs : perRun[r] # None}]
      BY <2>1 DEF ShutdownBegins, TypeOK
    <3>2. \A todo : /\ [Idle EXCEPT !.job = "shutdown", !.at = "next", !.todo = todo].at = "next"
                    /\ [Idle EXCEPT !.job = "shutdown", !.at = "next", !.todo = todo].job = "shutdown"
                    /\ [Idle EXCEPT !.job = "shutdown", !.at = "next", !.todo = todo].door = None
                    /\ [Idle EXCEPT !.job = "shutdown", !.at = "next", !.todo = todo].new = None
      BY DEF Idle
    <3>3. \A q \in Procs : q # p => proc'[q] = proc[q]
      BY <2>1 DEF ShutdownBegins, TypeOK
    <3>4. QED
      BY <3>1, <3>2, <3>3
  <2>2. CASE ShutdownClosesShared(p)
    <3>1. proc[p].job = "shutdown"
      BY <2>2 DEF ShutdownClosesShared, CallsFit, FitCall
    <3>2. QED
      BY <1>2, <2>2, <3>1 DEF ShutdownClosesShared, TypeOK, Call
  <2>3. QED
    BY <2>1, <2>2
<1>4. ListenersAreRegistered'
  <2>1. ASSUME NEW k \in Listeners, server[k] = "serving", InHand(k) PROVE InHand(k)'
    <3>1. PICK q \in Procs : proc[q].at # "idle" /\ k \in {proc[q].door, proc[q].new}
      BY <2>1 DEF InHand
    <3>2. q # p
      BY <1>2, <2>1, <3>1, ListenersAreApart
    <3>3. QED
      BY <1>3, <3>1, <3>2 DEF InHand
  <2>2. QED
    BY <1>1, <2>1 DEF ListenersAreRegistered
<1>5. MutexIsHeld'
  BY <1>1, <1>2, <1>3 DEF MutexIsHeld
<1>6. DoorsAreTaken'
  <2>1. "next" \notin Closing /\ Shared # None
    BY ListenersAreApart DEF Closing
  <2>2. QED
    BY <1>1, <1>3, <2>1, SharedIsUnregistered DEF DoorsAreTaken, OwnersFit
<1>7. NewIsFresh'
  <2>1. \A q \in Procs : proc[q].new # Shared
    BY ListenersAreApart DEF NewIsFresh, OwnersFit, CallsFit, FitCall
  <2>2. QED
    BY <1>1, <1>2, <1>3, <2>1 DEF NewIsFresh
<1>8. OwnersFit'
  BY <1>1 DEF OwnersFit
<1>9. QED
  BY <1>4, <1>5, <1>6, <1>7, <1>8

\* Whoever closes a listener leaves it registered for nobody; OpenFor has put
\* the new one in its place.
LEMMA ServerClosesKeeps ==
  ASSUME TypeOK, CallsFit, PoolInv, NEW p \in Procs, ServerCloses(p)
  PROVE  PoolInv'
<1> USE DEF PoolInv
<1>1. /\ proc[p].at = "shut" /\ proc[p].at \in Closing /\ proc[p].door # None
      /\ proc[p].door \in Listeners
      /\ proc[p].job = "open" => proc[p].run \in Runs /\ proc[p].new # None
                                 /\ proc[p].new \in Listeners
      /\ proc[p].job # "open" => proc[p].new = None
  BY DEF ServerCloses, TypeOK, CallsFit, FitCall, Call, Closing
<1>2. /\ \A k \in Listeners : server'[k] = IF k = proc[p].door THEN "closed" ELSE server[k]
      /\ owner' = owner
  BY DEF ServerCloses, TypeOK
<1>3. /\ \A q \in Procs : q # p => proc'[q] = proc[q]
      /\ \/ /\ proc'[p].at = "idle" /\ proc'[p].job = "none" /\ proc'[p].door = None
            /\ proc'[p].new = None
         \/ /\ proc'[p].at = "next" /\ proc'[p].job # "open"
            /\ proc'[p].door = proc[p].door /\ proc'[p].new = None /\ proc[p].job # "open"
  BY <1>1 DEF ServerCloses, Returns, Goes, TypeOK, Call, Idle
<1>4. \/ /\ proc[p].job = "open" /\ mutex = p /\ mutex' = None
         /\ perRun[proc[p].run] = proc[p].door
         /\ \A r \in Runs : perRun'[r] = IF r = proc[p].run THEN proc[p].new ELSE perRun[r]
      \/ /\ proc[p].job # "open" /\ perRun' = perRun /\ mutex' = mutex
         /\ \A r \in Runs : perRun[r] # proc[p].door
  BY <1>1 DEF ServerCloses, Returns, Goes, TypeOK, MutexIsHeld, DoorsAreTaken
<1>5. \A r \in Runs : perRun[r] = proc[p].door => proc[p].job = "open" /\ r = proc[p].run
  BY <1>1, <1>4 DEF ListenersAreRegistered
<1>6. proc[p].new # None =>
        /\ server[proc[p].new] = "serving" /\ owner[proc[p].new] = proc[p].run
        /\ proc[p].new # proc[p].door
        /\ \A q \in Procs : q # p => proc[q].door # proc[p].new /\ proc[q].new # proc[p].new
  BY DEF NewIsFresh
<1>7. ListenersAreRegistered'
  <2>1. ASSUME NEW r \in Runs, perRun'[r] # None
        PROVE  server'[perRun'[r]] = "serving" /\ owner'[perRun'[r]] = r
    <3>1. perRun'[r] # proc[p].door /\ perRun'[r] \in Listeners
      BY <1>1, <1>4, <1>5, <1>6, <2>1 DEF TypeOK
    <3>2. QED
      BY <1>1, <1>2, <1>4, <1>6, <2>1, <3>1 DEF ListenersAreRegistered
  <2>2. ASSUME NEW k \in Listeners \ {Shared}, server'[k] = "serving"
        PROVE  perRun'[owner'[k]] = k \/ InHand(k)'
    <3>1. k # proc[p].door /\ server[k] = "serving" /\ k # None /\ owner[k] \in Runs
      BY <1>2, <2>2, ListenersAreApart DEF OwnersFit
    <3>2. CASE perRun[owner[k]] = k
      BY <1>2, <1>4, <3>1, <3>2
    <3>3. CASE InHand(k)
      <4>1. PICK q \in Procs : proc[q].at # "idle" /\ k \in {proc[q].door, proc[q].new}
        BY <3>3 DEF InHand
      <4>2. CASE q = p
        BY <1>1, <1>2, <1>4, <1>6, <3>1, <4>1, <4>2
      <4>3. CASE q # p
        BY <1>3, <4>1, <4>3 DEF InHand
      <4>4. QED
        BY <4>2, <4>3
    <3>4. QED
      BY <3>1, <3>2, <3>3 DEF ListenersAreRegistered
  <2>3. QED
    BY <2>1, <2>2 DEF ListenersAreRegistered
<1>8. MutexIsHeld'
  BY <1>1, <1>3, <1>4, ListenersAreApart DEF MutexIsHeld, Closing
<1>9. DoorsAreTaken'
  <2>1. \A q \in Procs : /\ proc[q].door \in Listeners \cup {None}
                         /\ proc[q].at \in Closing => proc[q].door # None
    BY DEF TypeOK, Call, Closing
  <2>2. "next" \notin Closing /\ "idle" \notin Closing
    BY DEF Closing
  <2>3. ASSUME NEW q \in Procs
        PROVE  /\ proc'[q].at \in Closing /\ proc'[q].job # "open" =>
                    \A r \in Runs : perRun'[r] # proc'[q].door
               /\ proc'[q].door # None => server'[proc'[q].door] # "unbound"
               /\ proc'[q].at = "next" => proc'[q].door = None
                                          \/ server'[proc'[q].door] = "closed"
    <3>1. CASE q = p
      BY <1>1, <1>2, <1>3, <2>2, <3>1
    <3>2. CASE q # p
      <4>1. \A r \in Runs : perRun'[r] = perRun[r] \/ perRun'[r] = proc[p].new
        BY <1>4
      <4>2. proc'[q] = proc[q] /\ (proc[p].new # None => proc[q].door # proc[p].new)
        BY <1>3, <1>6, <3>2
      <4>3. QED
        BY <1>1, <1>2, <2>1, <4>1, <4>2 DEF DoorsAreTaken
    <3>3. QED
      BY <3>1, <3>2
  <2>4. QED
    BY <2>3 DEF DoorsAreTaken
<1>10. NewIsFresh'
  <2>1. ASSUME NEW q \in Procs, proc'[q].new # None
        PROVE  /\ server'[proc'[q].new] = "serving" /\ owner'[proc'[q].new] = proc'[q].run
               /\ \A r \in Runs : perRun'[r] # proc'[q].new
               /\ \A d \in Procs : proc'[d].door # proc'[q].new
                                   /\ (d # q => proc'[d].new # proc'[q].new)
    <3>1. q # p /\ proc'[q] = proc[q] /\ proc[q].new \in Listeners
      BY <1>3, <2>1 DEF TypeOK, Call
    <3>2. /\ server[proc[q].new] = "serving" /\ owner[proc[q].new] = proc[q].run
          /\ \A r \in Runs : perRun[r] # proc[q].new
          /\ \A d \in Procs : proc[d].door # proc[q].new
                              /\ (d # q => proc[d].new # proc[q].new)
      BY <2>1, <3>1 DEF NewIsFresh
    <3>3. QED
      BY <1>2, <1>3, <1>4, <2>1, <3>1, <3>2
  <2>2. QED
    BY <2>1 DEF NewIsFresh
<1>11. OwnersFit'
  BY <1>1, <1>2, ListenersAreApart DEF OwnersFit
<1>12. QED
  BY <1>7, <1>8, <1>9, <1>10, <1>11

LEMMA NextPoolInv ==
  ASSUME TunnelInv, PoolInv, [Next]_vars PROVE PoolInv'
<1> USE DEF TunnelInv
<1>1. CASE UNCHANGED vars
  BY <1>1 DEF vars, pool, PoolInv, ListenersAreRegistered, InHand, MutexIsHeld,
       DoorsAreTaken, NewIsFresh, OwnersFit
<1>2. CASE TunnelSide
  <2>1. "blocked" \in Closing /\ "woken" \in Closing
    BY DEF Closing
  <2>2. QED
    BY <1>2, <2>1, TunnelCalls, MovesOnKeep
<1>3. ASSUME NEW p \in Procs, PoolStep(p) PROVE PoolInv'
  <2>1. CASE RangeCloses(p) \/ WaitBegins(p) \/ WaitReturns(p) \/ HandlerPanics(p)
    <3>1. /\ proc[p].at \in Closing
          /\ \E at \in Closing : proc' = [proc EXCEPT ![p] = [proc[p] EXCEPT !.at = at]]
      BY <2>1 DEF RangeCloses, WaitBegins, WaitReturns, HandlerPanics, Reused, Goes, Closing
    <3>2. UNCHANGED <<perRun, mutex, owner, server>>
      BY <2>1 DEF RangeCloses, WaitBegins, WaitReturns, HandlerPanics
    <3>3. QED
      BY <3>1, <3>2, MovesOnKeep DEF TypeOK
  <2>2. CASE DaemonPanics(p)
    <3>1. /\ \A q \in Procs : proc'[q].at = "exited" /\ proc'[q].job = "none"
                              /\ proc'[q].door = None /\ proc'[q].new = None
          /\ perRun' = [r \in Runs |-> None] /\ mutex' = None /\ owner' = owner
          /\ \A l \in Listeners : server'[l] = "closed"
      BY <2>2 DEF DaemonPanics, Idle
    <3>2. ListenersAreRegistered' /\ DoorsAreTaken' /\ NewIsFresh'
      BY <3>1 DEF ListenersAreRegistered, DoorsAreTaken, NewIsFresh, Closing
    <3>3. MutexIsHeld'
      BY <3>1, ListenersAreApart DEF MutexIsHeld
    <3>4. OwnersFit'
      BY <3>1, ListenersAreApart DEF PoolInv, OwnersFit
    <3>5. QED
      BY <3>2, <3>3, <3>4 DEF PoolInv
  <2>3. QED
    BY <1>3, <2>1, <2>2, OpenBindsKeeps, OpenRegistersKeeps, OpenReplacesKeeps,
       CloseBeginsKeeps, ShutdownClosesKeeps, ShutdownKeeps, ServerClosesKeeps
       DEF PoolStep, TeardownStep
<1>4. QED
  BY <1>1, <1>2, <1>3 DEF Next, TunnelSide

\* A private listener serves for as long as it is registered for its run, and
\* one that serves unregistered is in the hand of a call.
THEOREM ListenersCorrect == Spec => []ListenersAreRegistered
<1>1. Init => PoolInv
  <2> SUFFICES ASSUME Init PROVE PoolInv
    OBVIOUS
  <2>1. \A p \in Procs : proc[p].at = "idle" /\ proc[p].job = "none" /\ proc[p].door = None
                         /\ proc[p].new = None
    BY DEF Init, Idle
  <2>2. ListenersAreRegistered /\ OwnersFit
    BY ListenersAreApart DEF Init, ListenersAreRegistered, OwnersFit
  <2>3. MutexIsHeld /\ DoorsAreTaken /\ NewIsFresh
    BY <2>1, ListenersAreApart DEF Init, MutexIsHeld, DoorsAreTaken, NewIsFresh, Closing
  <2>4. QED
    BY <2>2, <2>3 DEF PoolInv
<1>2. TunnelInv /\ PoolInv /\ [Next]_vars => PoolInv'
  BY NextPoolInv
<1>3. PoolInv => ListenersAreRegistered
  BY DEF PoolInv
<1>4. QED
  BY <1>1, <1>2, <1>3, InitTunnelInv, NextTunnelInv, PTL DEF Spec
=============================================================================

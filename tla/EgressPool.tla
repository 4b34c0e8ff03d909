----------------------------- MODULE EgressPool -----------------------------
(***************************************************************************)
(* The egress proxies of the daemon (src/internal/egress/pool.go and the   *)
(* tunnels of proxy.go): the shared listener, the private listeners of     *)
(* runs with entries of their own, the CONNECT tunnels through them, and   *)
(* what OpenFor, Close and Shutdown do to tunnels that are being made.     *)
(*                                                                         *)
(* A listener stands for its http.Server and its Proxy.  A hijacked        *)
(* connection belongs to no server, only to the tunnel registry of its     *)
(* proxy; its two copying goroutines are counted in the proxy's WaitGroup. *)
(***************************************************************************)
EXTENDS Integers, FiniteSets

CONSTANTS
  Runs,       \* run ids
  Conns,      \* client connections; bound: each is made once
  Listeners,  \* what net.Listen returns; bound: each is bound once
  Shared,     \* the deployment's listener
  Procs,      \* goroutines that call into the pool
  None

ASSUME ConnsAreFinite == IsFiniteSet(Conns)
ASSUME ListenersAreApart ==
  Shared \in Listeners /\ None \notin Listeners \cup Procs \cup Runs

Sides == {"client", "upstream"}
\* The two copying goroutines of a tunnel: client to upstream, and back.
Flows == {"up", "down"}
Handler == {"idle", "dialing", "hijacked", "stored", "copying", "ended"}
Jobs == {"none", "close", "reap", "open", "shutdown"}
At == {"idle", "lock", "next", "range", "wait", "blocked", "woken", "shut",
       "panicked", "exited"}

VARIABLES
  container,  \* "none", "running" or "dead", per run
  perRun,     \* Pool.perRun and Pool.perRunPx, which change together
  mutex,      \* the goroutine inside OpenFor's replacement, or None
  owner,      \* the run a private listener was opened for
  server,     \* "unbound", "serving" or "closed", per listener
  handler,    \* ServeHTTP of each connection
  from, via,  \* the run and the listener of a connection
  open,       \* the sockets of a connection that the proxy has not closed
  tunnels,    \* Proxy.tunnels, of all proxies
  copying,    \* copying goroutines inside io.Copy
  stuck,      \* those in a Write that its peer does not take: a full window
  unwinding,  \* copying goroutines that have closed and unregistered their tunnel
  closeTun,   \* Proxy.closeTun: the counter of the WaitGroup
  proc        \* the calls into the pool

conns == <<handler, from, via, open, tunnels>>
copiers == <<copying, stuck, unwinding, closeTun>>
pool == <<perRun, mutex, owner, server, proc>>
vars == <<container, conns, copiers, pool>>

-----------------------------------------------------------------------------
Idle == [job |-> "none", at |-> "idle", run |-> None, door |-> None,
         new |-> None, todo |-> {}]

Through(l) == {c \in Conns : via[c] = l}
Counted(l) == {t \in copying \cup unwinding : via[t[1]] = l}

Init ==
  /\ container = [r \in Runs |-> "none"]
  /\ perRun = [r \in Runs |-> None]
  /\ mutex = None
  /\ owner = [l \in Listeners |-> None]
  /\ server = [l \in Listeners |-> IF l = Shared THEN "serving" ELSE "unbound"]
  /\ handler = [c \in Conns |-> "idle"]
  /\ from = [c \in Conns |-> None]
  /\ via = [c \in Conns |-> None]
  /\ open = [c \in Conns |-> {}]
  /\ tunnels = {} /\ copying = {} /\ stuck = {} /\ unwinding = {}
  /\ closeTun = [l \in Listeners |-> 0]
  /\ proc = [p \in Procs |-> Idle]

-----------------------------------------------------------------------------
(* The containers, as far as the proxies notice them.                      *)

Opening(r) == \E p \in Procs : proc[p].job = "open" /\ proc[p].run = r

ContainerStarts(r) ==
  /\ container[r] = "none" /\ ~Opening(r)
  /\ container' = [container EXCEPT ![r] = "running"]
  /\ UNCHANGED <<conns, copiers, pool>>

ContainerDies(r) ==
  /\ container[r] = "running"
  /\ container' = [container EXCEPT ![r] = "dead"]
  /\ UNCHANGED <<conns, copiers, pool>>

-----------------------------------------------------------------------------
(* ServeHTTP and tunnel.                                                   *)

\* The server accepts a connection and its request is permitted.
Connect(c, r, l) ==
  /\ handler[c] = "idle"
  /\ server[l] = "serving"
  /\ container[r] = "running"
  /\ l = Shared \/ owner[l] = r
  /\ handler' = [handler EXCEPT ![c] = "dialing"]
  /\ from' = [from EXCEPT ![c] = r]
  /\ via' = [via EXCEPT ![c] = l]
  /\ open' = [open EXCEPT ![c] = {"client"}]
  /\ UNCHANGED <<container, tunnels, copiers, pool>>

\* A dial that fails; also a request denied, or one that is not CONNECT.
Refuse(c) ==
  /\ handler[c] = "dialing"
  /\ handler' = [handler EXCEPT ![c] = "ended"]
  /\ open' = [open EXCEPT ![c] = {}]
  /\ UNCHANGED <<container, from, via, tunnels, copiers, pool>>

\* The dial succeeds and the connection leaves the server's care.  Hijack does
\* not fail on a connection that the server has closed meanwhile.
Hijack(c) ==
  /\ handler[c] = "dialing"
  /\ handler' = [handler EXCEPT ![c] = "hijacked"]
  /\ open' = [open EXCEPT ![c] = @ \cup {"upstream"}]
  /\ UNCHANGED <<container, from, via, tunnels, copiers, pool>>

Store(c) ==
  /\ handler[c] = "hijacked"
  /\ handler' = [handler EXCEPT ![c] = "stored"]
  /\ tunnels' = tunnels \cup {c}
  /\ UNCHANGED <<container, from, via, open, copiers, pool>>

StartFlow(c, flow) ==
  /\ copying' = copying \cup {<<c, flow>>}
  /\ closeTun' = [closeTun EXCEPT ![via[c]] = @ + 1]
  /\ UNCHANGED <<container, from, via, open, tunnels, stuck, unwinding, pool>>

StartUp(c) ==
  /\ handler[c] = "stored"
  /\ handler' = [handler EXCEPT ![c] = "copying"]
  /\ StartFlow(c, "up")

\* Mutant of StartDown: one Add for both goroutines.
StartDownUncounted(c) ==
  /\ handler[c] = "copying"
  /\ handler' = [handler EXCEPT ![c] = "ended"]
  /\ copying' = copying \cup {<<c, "down">>}
  /\ UNCHANGED <<container, from, via, open, tunnels, stuck, unwinding, closeTun, pool>>

StartDown(c) ==
  /\ handler[c] = "copying"
  /\ handler' = [handler EXCEPT ![c] = "ended"]
  /\ StartFlow(c, "down")

-----------------------------------------------------------------------------
(* The copying goroutines.                                                 *)

\* A peer may stop reading and go on when it likes.
PeerStalls(c, flow) ==
  /\ <<c, flow>> \in copying \ stuck
  /\ stuck' = stuck \cup {<<c, flow>>}
  /\ UNCHANGED <<container, conns, copying, unwinding, closeTun, pool>>

PeerTakes(c, flow) ==
  /\ <<c, flow>> \in stuck
  /\ stuck' = stuck \ {<<c, flow>>}
  /\ UNCHANGED <<container, conns, copying, unwinding, closeTun, pool>>

Source(flow) == IF flow = "up" THEN "client" ELSE "upstream"
Target(flow) == IF flow = "up" THEN "upstream" ELSE "client"

\* io.Copy waits for one side at a time, to read from it or to write to it, and
\* ends for certain only when that side is closed here or gone.
MustEnd(c, flow) ==
  LET side == IF <<c, flow>> \in stuck THEN Target(flow) ELSE Source(flow) IN
  /\ <<c, flow>> \in copying
  /\ side \notin open[c] \/ (side = "client" /\ container[from[c]] = "dead")

Unwinds(c, flow, sides) ==
  /\ <<c, flow>> \in copying
  /\ copying' = copying \ {<<c, flow>>} /\ stuck' = stuck \ {<<c, flow>>}
  /\ unwinding' = unwinding \cup {<<c, flow>>}
  /\ open' = [open EXCEPT ![c] = @ \ sides]
  /\ tunnels' = tunnels \ {c}
  /\ UNCHANGED <<container, handler, from, via, pool>>

\* Mutants of Unwind: a goroutine closes only the side it reads from; Done is
\* called here and once more when the goroutine ends.
UnwindHalf(c, flow) ==
  /\ Unwinds(c, flow, {Source(flow)})
  /\ UNCHANGED closeTun
UnwindDone(c, flow) ==
  /\ Unwinds(c, flow, Sides)
  /\ closeTun' = [closeTun EXCEPT ![via[c]] = @ - 1]

\* io.Copy ends, at any time: an endpoint may hang up.
Unwind(c, flow) == Unwinds(c, flow, Sides) /\ UNCHANGED closeTun

\* WaitGroup.Done; the counter reaching zero wakes who is blocked in Wait.
Done(c, flow) ==
  /\ <<c, flow>> \in unwinding
  /\ unwinding' = unwinding \ {<<c, flow>>}
  /\ closeTun' = [closeTun EXCEPT ![via[c]] = @ - 1]
  /\ proc' = [p \in Procs |->
                IF closeTun[via[c]] = 1 /\ proc[p].door = via[c] /\ proc[p].at = "blocked"
                THEN [proc[p] EXCEPT !.at = "woken"] ELSE proc[p]]
  /\ UNCHANGED <<container, conns, copying, stuck, perRun, mutex, owner, server>>

-----------------------------------------------------------------------------
(* OpenFor, Close and Shutdown.  Each closes listeners in the same way:    *)
(* CloseTunnels, then the server.                                          *)

Goes(p, at) == proc' = [proc EXCEPT ![p].at = at]

\* OpenFor, up to the mutex: the listener serves before it is registered.
OpenBinds(p, r, l) ==
  /\ proc[p] = Idle
  /\ server[l] = "unbound"
  /\ container[r] # "dead"
  /\ server' = [server EXCEPT ![l] = "serving"]
  /\ owner' = [owner EXCEPT ![l] = r]
  /\ proc' = [proc EXCEPT ![p] = [Idle EXCEPT !.job = "open", !.at = "lock",
                                              !.run = r, !.new = l]]
  /\ UNCHANGED <<container, conns, copiers, perRun, mutex>>

Registers(p) ==
  /\ proc[p].at = "lock" /\ mutex = None
  /\ perRun' = [perRun EXCEPT ![proc[p].run] = proc[p].new]
  /\ proc' = [proc EXCEPT ![p] = Idle]
  /\ UNCHANGED <<container, conns, copiers, mutex, owner, server>>

\* Mutant of OpenRegisters: an earlier listener of the run is forgotten.
OpenOverwrites(p) == Registers(p)

OpenRegisters(p) ==
  proc[p].at = "lock" /\ perRun[proc[p].run] = None /\ Registers(p)

\* A second OpenFor of a run closes the first listener, mutex in hand.
OpenReplaces(p) ==
  /\ proc[p].at = "lock" /\ mutex = None
  /\ perRun[proc[p].run] # None
  /\ mutex' = p
  /\ proc' = [proc EXCEPT ![p].at = "range", ![p].door = perRun[proc[p].run]]
  /\ UNCHANGED <<container, conns, copiers, perRun, owner, server>>

\* Destroy calls Close when the container is gone, but Create's error path with
\* one that may be running, or be made later; Reap with one that is running.
CloseBegins(p, r, job) ==
  /\ proc[p] = Idle /\ mutex = None
  /\ perRun[r] # None
  /\ \/ job = "close"
     \/ job = "reap" /\ container[r] # "none"
          /\ \A q \in Procs : proc[q].job # "reap"
  /\ perRun' = [perRun EXCEPT ![r] = None]
  /\ proc' = [proc EXCEPT ![p] = [Idle EXCEPT !.job = job, !.at = "range",
                                              !.run = r, !.door = perRun[r]]]
  /\ UNCHANGED <<container, conns, copiers, mutex, owner, server>>

ShutdownBegins(p) ==
  /\ proc[p] = Idle /\ mutex = None
  /\ server[Shared] = "serving"
  /\ \A q \in Procs : proc[q].job # "shutdown"
  /\ proc' = [proc EXCEPT ![p] = [Idle EXCEPT !.job = "shutdown", !.at = "next",
                                     !.todo = {r \in Runs : perRun[r] # None}]]
  /\ UNCHANGED <<container, conns, copiers, perRun, mutex, owner, server>>

\* Close of the next run that Shutdown has listed.
ShutdownCloses(p, r) ==
  /\ proc[p].at = "next" /\ r \in proc[p].todo /\ mutex = None
  /\ perRun' = [perRun EXCEPT ![r] = None]
  /\ proc' = [proc EXCEPT ![p].todo = @ \ {r}, ![p].door = perRun[r],
                          ![p].at = IF perRun[r] = None THEN "next" ELSE "range"]
  /\ UNCHANGED <<container, conns, copiers, mutex, owner, server>>

ShutdownClosesShared(p) ==
  /\ proc[p].at = "next" /\ proc[p].todo = {}
  /\ proc' = [proc EXCEPT ![p].door = Shared, ![p].at = "range"]
  /\ UNCHANGED <<container, conns, copiers, perRun, mutex, owner, server>>

\* CloseTunnels: both sides of every registered tunnel.
RangeCloses(p) ==
  /\ proc[p].at = "range"
  /\ open' = [c \in Conns |-> IF c \in tunnels \cap Through(proc[p].door)
                              THEN {} ELSE open[c]]
  /\ Goes(p, "wait")
  /\ UNCHANGED <<container, handler, from, via, tunnels, copiers, perRun,
                 mutex, owner, server>>

WaitBegins(p) ==
  /\ proc[p].at = "wait"
  /\ Goes(p, IF closeTun[proc[p].door] = 0 THEN "shut" ELSE "blocked")
  /\ UNCHANGED <<container, conns, copiers, perRun, mutex, owner, server>>

WaitReturns(p) ==
  /\ proc[p].at = "woken"
  /\ closeTun[proc[p].door] = 0
  /\ Goes(p, "shut")
  /\ UNCHANGED <<container, conns, copiers, perRun, mutex, owner, server>>

\* A WaitGroup reused before Wait has returned panics.
Reused(p) == proc[p].at = "woken" /\ closeTun[proc[p].door] # 0

\* net/http recovers a handler's panic: the listener stays as it is, and so
\* does OpenFor's mutex.
HandlerPanics(p) ==
  /\ Reused(p) /\ proc[p].job # "reap"
  /\ Goes(p, "panicked")
  /\ UNCHANGED <<container, conns, copiers, perRun, mutex, owner, server>>

\* Nobody recovers a panic in the reaper's goroutine: the daemon is gone.
DaemonPanics(p) ==
  /\ Reused(p) /\ proc[p].job = "reap"
  /\ handler' = [c \in Conns |-> "ended"]
  /\ open' = [c \in Conns |-> {}]
  /\ tunnels' = {} /\ copying' = {} /\ stuck' = {} /\ unwinding' = {}
  /\ closeTun' = [l \in Listeners |-> 0]
  /\ perRun' = [r \in Runs |-> None]
  /\ mutex' = None
  /\ server' = [l \in Listeners |-> "closed"]
  /\ proc' = [q \in Procs |-> [Idle EXCEPT !.at = "exited"]]
  /\ UNCHANGED <<container, from, via, owner>>

\* What the call does when it has closed the server.
Returns(p) ==
  CASE proc[p].job = "open" ->
         /\ perRun' = [perRun EXCEPT ![proc[p].run] = proc[p].new]
         /\ mutex' = None
         /\ proc' = [proc EXCEPT ![p] = Idle]
    [] proc[p].job = "shutdown" /\ proc[p].door # Shared ->
         Goes(p, "next") /\ UNCHANGED <<perRun, mutex>>
    [] OTHER ->
         proc' = [proc EXCEPT ![p] = Idle] /\ UNCHANGED <<perRun, mutex>>

\* Mutant of ServerCloses: the listener closes, accepted connections stay.
ListenerCloses(p) ==
  /\ proc[p].at = "shut"
  /\ server' = [server EXCEPT ![proc[p].door] = "closed"]
  /\ Returns(p)
  /\ UNCHANGED <<container, conns, copiers, owner>>

\* server.Close: the listener, and the connections that are not hijacked.
ServerCloses(p) ==
  /\ proc[p].at = "shut"
  /\ server' = [server EXCEPT ![proc[p].door] = "closed"]
  /\ open' = [c \in Conns |-> IF handler[c] = "dialing" /\ via[c] = proc[p].door
                              THEN {} ELSE open[c]]
  /\ Returns(p)
  /\ UNCHANGED <<container, handler, from, via, tunnels, copiers, owner>>

-----------------------------------------------------------------------------
ContainerStep(r) == ContainerStarts(r) \/ ContainerDies(r)
TunnelStep(c) ==
  \/ Refuse(c) \/ Hijack(c) \/ Store(c) \/ StartUp(c) \/ StartDown(c)
CopierStep(c, flow) ==
  PeerStalls(c, flow) \/ PeerTakes(c, flow) \/ Unwind(c, flow) \/ Done(c, flow)
TeardownStep(p) ==
  \/ RangeCloses(p) \/ WaitBegins(p) \/ WaitReturns(p)
  \/ HandlerPanics(p) \/ DaemonPanics(p) \/ ServerCloses(p)
PoolStep(p) ==
  \/ \E r \in Runs, l \in Listeners : OpenBinds(p, r, l)
  \/ OpenRegisters(p) \/ OpenReplaces(p)
  \/ \E r \in Runs, job \in {"close", "reap"} : CloseBegins(p, r, job)
  \/ ShutdownBegins(p)
  \/ \E r \in Runs : ShutdownCloses(p, r)
  \/ ShutdownClosesShared(p)
  \/ TeardownStep(p)

Next ==
  \/ \E r \in Runs : ContainerStep(r)
  \/ \E c \in Conns, r \in Runs, l \in Listeners : Connect(c, r, l)
  \/ \E c \in Conns : TunnelStep(c)
  \/ \E c \in Conns, flow \in Flows : CopierStep(c, flow)
  \/ \E p \in Procs : PoolStep(p)

Spec == Init /\ [][Next]_vars

\* Goroutines go on: a dial ends within its timeout, io.Copy when it must,
\* and whoever closes a listener when Wait lets it.  Peers owe nothing; but a
\* dead container has left a finite amount to copy, so that an io.Copy that
\* must end whenever its peer takes something ends (the strong fairness).
Fairness ==
  /\ \A c \in Conns : WF_vars(TunnelStep(c))
  /\ \A c \in Conns, flow \in Flows :
       /\ SF_vars(MustEnd(c, flow) /\ Unwind(c, flow))
       /\ WF_vars(Done(c, flow))
  /\ \A p \in Procs : WF_vars(TeardownStep(p))

FairSpec == Spec /\ Fairness

-----------------------------------------------------------------------------
Call ==
  {q \in [job : Jobs, at : At, run : Runs \cup {None}, door : Listeners \cup {None},
          new : Listeners \cup {None}, todo : SUBSET Runs] :
     q.at \in {"range", "wait", "blocked", "woken", "shut", "panicked"} => q.door # None}

\* Type correctness; the WaitGroup's counter never goes below zero.
TypeOK ==
  /\ container \in [Runs -> {"none", "running", "dead"}]
  /\ perRun \in [Runs -> Listeners \cup {None}]
  /\ mutex \in Procs \cup {None}
  /\ owner \in [Listeners -> Runs \cup {None}]
  /\ server \in [Listeners -> {"unbound", "serving", "closed"}]
  /\ handler \in [Conns -> Handler]
  /\ from \in [Conns -> Runs \cup {None}]
  /\ via \in [Conns -> Listeners \cup {None}]
  /\ open \in [Conns -> SUBSET Sides]
  /\ tunnels \in SUBSET Conns
  /\ copying \in SUBSET (Conns \X Flows) /\ unwinding \in SUBSET (Conns \X Flows)
  /\ stuck \subseteq copying
  /\ closeTun \in [Listeners -> Nat]
  /\ proc \in [Procs -> Call]

\* The calls that have a listener in hand: to register it, or to close it.
InHand(l) == \E p \in Procs : proc[p].at # "idle" /\ l \in {proc[p].door, proc[p].new}

\* A private listener serves for as long as it is registered for its run, and
\* one that serves unregistered is in the hands of a call that registers or
\* closes it, or whose Wait has panicked: replacement, Close and Shutdown leave
\* no listener behind an address nobody knows (Pool.OpenFor, Close, Shutdown).
ListenersAreRegistered ==
  /\ \A r \in Runs : perRun[r] # None =>
       server[perRun[r]] = "serving" /\ owner[perRun[r]] = r
  /\ \A l \in Listeners \ {Shared} : server[l] = "serving" =>
       perRun[owner[l]] = l \/ InHand(l)

\* The WaitGroup counts the goroutines that were started and have not ended,
\* each at its own proxy (proxy.go tunnel).
CountsAreExact == \A l \in Listeners : closeTun[l] = Cardinality(Counted(l))

\* CloseTunnels returns only when no tunnel of its proxy has a goroutine left
\* that copies or still holds a socket; it may leave tunnels behind that have
\* not started any (proxy.go CloseTunnels).
CloseTunnelsWaits ==
  [][\A p \in Procs : proc[p].at # "shut" /\ proc'[p].at = "shut" =>
       Counted(proc[p].door) = {}]_vars

\* No tunnel comes to be through a listener that is closed: a request whose
\* dial outlasts Close finds its client closed (Pool.Close, tunnel).
NoTunnelThroughClosedDoor ==
  [][\A c \in Conns : open[c] # Sides /\ open'[c] = Sides =>
       server[via[c]] = "serving"]_vars

\* The sockets of a run are closed once its container is dead, whatever Close
\* missed and through whichever listener they went: each goroutine closes both
\* sides of its tunnel.  Only an upstream that never takes what the container
\* sent it keeps them open (proxy.go tunnel).
DeadRunsLetGo ==
  \A c \in Conns :
    (from[c] # None /\ container[from[c]] = "dead")
      ~> (open[c] = {} \/ [](<<c, "up">> \in stuck))

\* A tunnel that no CloseTunnels has seen and that stays open: its container
\* runs, or its upstream takes nothing.
HeldOpen(l) ==
  \E c \in Through(l) :
    open[c] = Sides /\ (container[from[c]] = "running" \/ <<c, "up">> \in stuck)

\* Close comes to an end: it returns, or panics on a reused WaitGroup, or waits
\* for ever, and only for a tunnel that was registered after it had closed the
\* others and that is held open, by its container or by an upstream that takes
\* nothing (Pool.Close, CloseTunnels).
ClosesEnd ==
  \A p \in Procs :
    (proc[p].job \in {"close", "reap"} /\ proc[p].at = "range")
      ~> (\/ proc[p].at \in {"idle", "panicked", "exited"}
          \/ [](proc[p].at = "blocked" /\ HeldOpen(proc[p].door)))

=============================================================================

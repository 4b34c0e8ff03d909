-------------------------------- MODULE Exec --------------------------------
(***************************************************************************)
(* One exec, from its admission to its exit frame: handleExec and          *)
(* sseWriter (src/internal/server/server.go), DockerRuntime.Exec           *)
(* (src/internal/run/runtime.go), and around them the docker CLI, the      *)
(* command in the container under coreutils timeout, and the client.       *)
(*                                                                         *)
(* Output is counted in chunks.  The command writes them, the CLI relays   *)
(* them into two pipes, and os/exec's two copying goroutines read them and *)
(* write frames, as the handler does when Run has returned.  A frame is    *)
(* three writes: its event line, its data lines, its blank line.           *)
(*                                                                         *)
(* Time is counted in seconds since DockerRuntime.Exec was called.         *)
(***************************************************************************)
EXTENDS Durations, Sequences, Functions

CONSTANTS
  Asks,         \* the timeoutSec of requests; 0: none is given
  DefaultSecs,  \* the timeout of a request that gives none
  KillSecs,     \* timeout --kill-after
  GraceSecs,    \* execCliGrace
  Statuses,     \* what a command exits with when left alone
  ChunkBound,   \* bound: chunks in all
  TimeBound     \* bound: the last second

ASSUME BoundsAreNumbers == ChunkBound \in Nat /\ TimeBound \in Nat
ASSUME TimesAreNumbers ==
  Asks \subseteq Int /\ DefaultSecs \in Nat \ {0} /\ KillSecs \in Nat /\ GraceSecs \in Nat
ASSUME StatusesAreNumbers == Statuses \subseteq Nat
ASSUME DefaultFits == DefaultSecs * Unit + GraceSecs * Unit < HalfRange

Channels == {"stdout", "stderr"}
Handler == "handler"
Parts == <<"event", "data", "end">>

VARIABLES
  asked,    \* timeoutSec
  timeout,  \* the Duration handleExec passes on
  phase,    \* "idle", "env", "run" (in command.Run), "error", "exit", "returned"
  result,   \* what DockerRuntime.Exec returned
  ctx,      \* runCtx: "live", "expired" or "cancelled"
  cli,      \* docker exec: "none", "running", "exited", "failed", "killed", "piped"
  command,  \* in the container: "none", "running" or "ended", with its status
  started,  \* when it started
  termed,   \* when the watchdog sent TERM; 0: not yet
  written, relayed, read, framed,  \* per channel: chunks that came this far
  copier,   \* per channel: "read", "frame", "check", "done" or "broken"
  client,   \* "here", "stalled" (it does not read) or "gone"
  writing,  \* who holds sseWriter.mu inside frame, and at which part
  err,      \* sseWriter.err is set
  wire,     \* the writes that the stream accepted
  clock

asking == <<asked, timeout, phase, result>>
docker == <<cli, command, started, termed, written>>
pipes == <<relayed, read, framed, copier>>
stream == <<writing, err, wire>>
vars == <<asking, ctx, docker, pipes, client, stream, clock>>

-----------------------------------------------------------------------------
NoCommand == [state |-> "none", status |-> 0, by |-> "none"]
NoResult == [code |-> 0, timedOut |-> FALSE, err |-> FALSE]
Nobody == [by |-> "nobody"]

Chunks(ch, first, last) == [event |-> ch, first |-> first, last |-> last]
ErrorFrame == [event |-> "error"]
ExitFrame(code, timedOut) == [event |-> "exit", code |-> code, timedOut |-> timedOut]

Grace == GraceSecs * Unit
\* When runCtx expires.
Deadline == Wrap(timeout + Grace)

\* execArgs: the seconds the watchdog is given; 0: there is no watchdog.
Limit ==
  IF timeout <= 0 THEN 0 ELSE IF ToSeconds(timeout) < 1 THEN 1 ELSE ToSeconds(timeout)

\* Mutant of Classify: every failure is a timeout.
ClassifyAny(status) ==
  [code |-> status, timedOut |-> timeout > 0 /\ status # 0, err |-> FALSE]

\* classifyExit
Classify(status) ==
  [code |-> status, timedOut |-> timeout > 0 /\ status \in {124, 137}, err |-> FALSE]

Init ==
  /\ asked = 0 /\ timeout = 0 /\ phase = "idle"
  /\ result = NoResult
  /\ ctx = "live" /\ cli = "none"
  /\ command = NoCommand /\ started = 0 /\ termed = 0
  /\ written = [ch \in Channels |-> 0] /\ relayed = [ch \in Channels |-> 0]
  /\ read = [ch \in Channels |-> 0] /\ framed = [ch \in Channels |-> 0]
  /\ copier = [ch \in Channels |-> "read"]
  /\ client = "here"
  /\ writing = Nobody /\ err = FALSE /\ wire = <<>>
  /\ clock = 0

Tick ==
  /\ phase \notin {"idle", "returned"} /\ clock < TimeBound
  /\ clock' = clock + 1
  /\ UNCHANGED <<asking, ctx, docker, pipes, client, stream>>

-----------------------------------------------------------------------------
(* handleExec and DockerRuntime.Exec, up to command.Run.                   *)

\* A timeout and grace that do not fit into a Duration give a deadline that
\* has passed.
Accepts(n, given) ==
  /\ phase = "idle"
  /\ phase' = "env"
  /\ asked' = n /\ timeout' = given
  /\ ctx' = IF given > 0 /\ Wrap(given + Grace) <= 0 THEN "expired" ELSE "live"
  /\ UNCHANGED <<result, docker, pipes, client, stream, clock>>

\* Mutants of Ask: what is asked for is counted in the wrong unit; Durations are
\* of any size.
AskRaw(n) == Accepts(n, Wrap(IF n > 0 THEN n ELSE DefaultSecs))
AskUnbounded(n) == Accepts(n, (IF n > 0 THEN n ELSE DefaultSecs) * Unit)

Ask(n) == Accepts(n, Seconds(IF n > 0 THEN n ELSE DefaultSecs))

\* The env file is written, when the request needs one.
WritesEnv ==
  /\ phase = "env"
  /\ phase' = "run"
  /\ UNCHANGED <<asked, timeout, result, ctx, docker, pipes, client, stream, clock>>

Returns(r) ==
  /\ result' = r
  /\ phase' = IF r.err THEN "error" ELSE "exit"
  /\ UNCHANGED <<asked, timeout, ctx, docker, pipes, client, stream, clock>>

EnvFails ==
  /\ phase = "env"
  /\ Returns([code |-> -1, timedOut |-> FALSE, err |-> TRUE])

\* Start refuses when the context is done, and fails without a docker binary.
StartFails ==
  /\ phase = "run" /\ cli = "none"
  /\ Returns([code |-> -1, timedOut |-> ctx = "expired", err |-> ctx # "expired"])

CliStarts ==
  /\ phase = "run" /\ cli = "none" /\ ctx = "live"
  /\ cli' = "running"
  /\ UNCHANGED <<asking, ctx, command, started, termed, written, pipes, client, stream, clock>>

-----------------------------------------------------------------------------
(* The context of the call.                                                *)

CtxExpires ==
  /\ ctx = "live" /\ phase \in {"env", "run"}
  /\ timeout > 0 /\ clock * Unit >= Deadline
  /\ ctx' = "expired"
  /\ UNCHANGED <<asking, docker, pipes, client, stream, clock>>

\* net/http notices that the client has closed the connection.
CtxCancelled ==
  /\ ctx = "live" /\ client = "gone"
  /\ ctx' = "cancelled"
  /\ UNCHANGED <<asking, docker, pipes, client, stream, clock>>

-----------------------------------------------------------------------------
(* The command, in the container, and its watchdog.  Nothing says how soon *)
(* the container does what it should.                                      *)

CommandSteps == UNCHANGED <<asking, ctx, cli, pipes, client, stream, clock>>

CommandStarts ==
  /\ cli = "running" /\ command = NoCommand
  /\ command' = [NoCommand EXCEPT !.state = "running"]
  /\ started' = clock
  /\ CommandSteps /\ UNCHANGED <<termed, written>>

CommandWrites(ch) ==
  /\ command.state = "running"
  /\ written["stdout"] + written["stderr"] < ChunkBound
  /\ written' = [written EXCEPT ![ch] = @ + 1]
  /\ CommandSteps /\ UNCHANGED <<command, started, termed>>

\* The command ends, of itself or killed by somebody else, as when its container
\* is removed; after TERM the watchdog reports 124 in its place.
CommandEnds(status) ==
  /\ command.state = "running"
  /\ command' = [state |-> "ended",
                 status |-> IF termed = 0 THEN status ELSE 124,
                 by |-> IF termed = 0 THEN "other" ELSE "watchdog"]
  /\ CommandSteps /\ UNCHANGED <<started, termed, written>>

WatchdogTerms ==
  /\ command.state = "running" /\ termed = 0
  /\ Limit > 0 /\ clock >= started + Limit
  /\ termed' = clock
  /\ CommandSteps /\ UNCHANGED <<command, started, written>>

WatchdogKills ==
  /\ command.state = "running"
  /\ termed # 0 /\ clock >= termed + KillSecs
  /\ command' = [state |-> "ended", status |-> 137, by |-> "watchdog"]
  /\ CommandSteps /\ UNCHANGED <<started, termed, written>>

-----------------------------------------------------------------------------
(* The docker CLI.                                                         *)

CliGone == cli \notin {"none", "running"}

CliTo(state) ==
  /\ cli = "running"
  /\ cli' = state
  /\ UNCHANGED <<asking, ctx, command, started, termed, written, pipes, client, stream, clock>>

CliRelays(ch) ==
  /\ cli = "running" /\ relayed[ch] < written[ch] /\ copier[ch] # "broken"
  /\ relayed' = [relayed EXCEPT ![ch] = @ + 1]
  /\ UNCHANGED <<asking, ctx, docker, read, framed, copier, client, stream, clock>>

\* Its pipe was closed by the copying goroutine.
CliPiped(ch) ==
  /\ relayed[ch] < written[ch] /\ copier[ch] = "broken"
  /\ CliTo("piped")

CliExits ==
  /\ command.state = "ended" /\ relayed = written
  /\ CliTo("exited")

\* The CLI fails on its own account, with a status of its own: the container
\* or the docker daemon is gone.
CliFails == CliTo("failed")

\* Mutant of CliKilled: the CLI is given the context of the request.
CliKilledWithRequest == ctx = "cancelled" /\ CliTo("killed")

\* CommandContext kills the CLI, not the command.
CliKilled == ctx # "live" /\ CliTo("killed")

-----------------------------------------------------------------------------
(* The copying goroutines and the frames.                                  *)

CopierSteps == UNCHANGED <<asking, ctx, docker, relayed, client, clock>>

CopierReads(ch, last) ==
  /\ copier[ch] = "read" /\ cli # "none"
  /\ last \in read[ch] + 1 .. relayed[ch]
  /\ read' = [read EXCEPT ![ch] = last]
  /\ copier' = [copier EXCEPT ![ch] = "frame"]
  /\ CopierSteps /\ UNCHANGED <<framed, stream>>

CopierEnds(ch) ==
  /\ copier[ch] = "read" /\ CliGone /\ read[ch] = relayed[ch]
  /\ copier' = [copier EXCEPT ![ch] = "done"]
  /\ CopierSteps /\ UNCHANGED <<read, framed, stream>>

\* frame, entered by a channel writer.
CopierWrites(ch) ==
  /\ copier[ch] = "frame" /\ writing = Nobody
  /\ IF err
     THEN /\ copier' = [copier EXCEPT ![ch] = "broken"]
          /\ UNCHANGED writing
     ELSE /\ writing' = [by |-> ch, at |-> 1,
                         frame |-> Chunks(ch, framed[ch] + 1, read[ch])]
          /\ UNCHANGED copier
  /\ CopierSteps /\ UNCHANGED <<read, framed, err, wire>>

\* The channel writer looks at the error; an error ends io.Copy, which closes
\* the pipe.
CopierChecks(ch) ==
  /\ copier[ch] = "check" /\ writing = Nobody
  /\ IF err
     THEN /\ copier' = [copier EXCEPT ![ch] = "broken"]
          /\ UNCHANGED framed
     ELSE /\ copier' = [copier EXCEPT ![ch] = "read"]
          /\ framed' = [framed EXCEPT ![ch] = read[ch]]
  /\ CopierSteps /\ UNCHANGED <<read, stream>>

\* Who has been in frame goes on.
Leaves(by) ==
  IF by = Handler
  THEN /\ phase' = IF phase = "error" THEN "exit" ELSE "returned"
       /\ UNCHANGED copier
  ELSE /\ copier' = [copier EXCEPT ![by] = "check"]
       /\ UNCHANGED phase

FrameSteps == UNCHANGED <<asked, timeout, result, ctx, docker, relayed, read,
                          framed, client, clock>>

\* A write that the stream accepts.  A client that does not read holds it up:
\* the server sets no write timeout.
Writes ==
  /\ writing # Nobody /\ client # "stalled"
  /\ wire' = Append(wire, [part |-> Parts[writing.at], frame |-> writing.frame])
  /\ IF writing.at < Len(Parts)
     THEN writing' = [writing EXCEPT !.at = @ + 1] /\ UNCHANGED <<phase, copier>>
     ELSE writing' = Nobody /\ Leaves(writing.by)
  /\ FrameSteps /\ UNCHANGED err

\* Mutant of WriteFails: the error is not kept.
WriteFailsOnce ==
  /\ writing # Nobody /\ client = "gone"
  /\ writing' = Nobody /\ Leaves(writing.by)
  /\ FrameSteps /\ UNCHANGED <<err, wire>>

\* Once the client is gone any write may fail, and any may still be accepted.
WriteFails ==
  /\ writing # Nobody /\ client = "gone"
  /\ err' = TRUE
  /\ writing' = Nobody /\ Leaves(writing.by)
  /\ FrameSteps /\ UNCHANGED wire

\* A CLI that was killed has status -1; a copying error counts when the CLI
\* succeeded.
CliResult ==
  CASE cli = "exited" ->
         IF command.status = 0 /\ "broken" \in Range(copier)
         THEN [code |-> -1, timedOut |-> FALSE, err |-> TRUE]
         ELSE Classify(command.status)
    [] cli = "failed" -> Classify(1)
    [] OTHER -> [code |-> -1, timedOut |-> FALSE, err |-> FALSE]

TimedOut == [code |-> -1, timedOut |-> TRUE, err |-> FALSE]

\* Mutant of RunResult: a context that is done for any reason is a timeout.
RunResultDone == IF ctx # "live" THEN TimedOut ELSE CliResult

\* What Exec makes of the end of Run: an expired context comes first.
RunResult == IF ctx = "expired" THEN TimedOut ELSE CliResult

\* Mutant of RunReturns: the copying goroutines are not waited for.
RunReturnsEarly == phase = "run" /\ CliGone /\ Returns(RunResult)

\* Run returns when the CLI is gone and both copying goroutines have ended.
RunReturns ==
  /\ phase = "run" /\ CliGone
  /\ Range(copier) \subseteq {"done", "broken"}
  /\ Returns(RunResult)

\* frame, entered by the handler: the error frame, then the exit frame.
HandlerWrites ==
  /\ phase \in {"error", "exit"} /\ writing = Nobody
  /\ IF err
     THEN Leaves(Handler) /\ UNCHANGED writing
     ELSE /\ writing' = [by |-> Handler, at |-> 1,
                         frame |-> IF phase = "error" THEN ErrorFrame
                                   ELSE ExitFrame(result.code, result.timedOut)]
          /\ UNCHANGED <<phase, copier>>
  /\ FrameSteps /\ UNCHANGED <<err, wire>>

-----------------------------------------------------------------------------
(* The client.                                                             *)

ClientTo(state) ==
  /\ phase # "returned"
  /\ client' = state
  /\ UNCHANGED <<asking, ctx, docker, pipes, stream, clock>>

\* A client that does not read is noticed only by who writes to it.
ClientStalls == client = "here" /\ writing # Nobody /\ ClientTo("stalled")
ClientReads == client = "stalled" /\ ClientTo("here")
ClientLeaves == client # "gone" /\ ClientTo("gone")

-----------------------------------------------------------------------------
CommandStep ==
  \/ CommandStarts
  \/ \E ch \in Channels : CommandWrites(ch)
  \/ \E status \in Statuses : CommandEnds(status)
  \/ WatchdogTerms \/ WatchdogKills
CopierStep(ch) ==
  \/ \E last \in 1 .. ChunkBound : CopierReads(ch, last)
  \/ CopierEnds(ch) \/ CopierWrites(ch) \/ CopierChecks(ch)
FrameStep == Writes \/ WriteFails
HandlerStep ==
  \/ WritesEnv \/ EnvFails \/ StartFails \/ CliStarts \/ RunReturns \/ HandlerWrites

Next ==
  \/ Tick
  \/ \E n \in Asks : Ask(n)
  \/ HandlerStep
  \/ CtxExpires \/ CtxCancelled
  \/ CommandStep
  \/ \E ch \in Channels : CliRelays(ch) \/ CliPiped(ch)
  \/ CliExits \/ CliFails \/ CliKilled
  \/ \E ch \in Channels : CopierStep(ch)
  \/ FrameStep
  \/ ClientStalls \/ ClientReads \/ ClientLeaves

Spec == Init /\ [][Next]_vars

\* Time passes, timers fire, a killed process dies, goroutines go on, and a
\* client takes what is written whenever it reads.  Container, CLI and client owe
\* nothing else.
Fairness ==
  /\ WF_vars(Tick) /\ WF_vars(CtxExpires) /\ WF_vars(CliKilled)
  /\ WF_vars(HandlerStep) /\ SF_vars(FrameStep)
  /\ \A ch \in Channels : WF_vars(CopierStep(ch))

FairSpec == Spec /\ Fairness

-----------------------------------------------------------------------------
Wanted == IF asked > 0 THEN asked ELSE DefaultSecs
\* A Duration holds what is asked for, with the grace on top of it.
Fits == asked \in {n \in Asks : n * Unit + Grace < HalfRange}

Frame ==
  {ErrorFrame} \cup [event : Channels, first : Nat, last : Nat]
  \cup [event : {"exit"}, code : Int, timedOut : BOOLEAN]

CallOK ==
  /\ asked \in Asks \cup {0} /\ timeout \in -HalfRange .. HalfRange - 1
  /\ phase \in {"idle", "env", "run", "error", "exit", "returned"}
  /\ result \in [code : Statuses \cup {-1, 0, 1, 124, 137}, timedOut : BOOLEAN,
                 err : BOOLEAN]
  /\ ctx \in {"live", "expired", "cancelled"}
  /\ client \in {"here", "stalled", "gone"} /\ err \in BOOLEAN

CommandOK ==
  /\ cli \in {"none", "running", "exited", "failed", "killed", "piped"}
  /\ command \in [state : {"none", "running", "ended"},
                  status : Statuses \cup {0, 124, 137}, by : {"none", "other", "watchdog"}]
  /\ clock \in 0 .. TimeBound /\ started \in 0 .. clock /\ termed \in 0 .. clock

\* Nothing is read before it is relayed, or relayed before it is written.
PipesOK ==
  /\ \A count \in {written, relayed, read, framed} : count \in [Channels -> 0 .. ChunkBound]
  /\ \A ch \in Channels :
       framed[ch] <= read[ch] /\ read[ch] <= relayed[ch] /\ relayed[ch] <= written[ch]
  /\ copier \in [Channels -> {"read", "frame", "check", "done", "broken"}]

WireOK ==
  /\ writing \in {Nobody} \cup [by : Channels \cup {Handler}, at : 1 .. Len(Parts), frame : Frame]
  /\ wire \in Seq([part : Range(Parts), frame : Frame])

\* Type correctness, of the call, of docker and the command, of the pipes and of
\* the stream.
TypeOK == CallOK /\ CommandOK /\ PipesOK /\ WireOK

Ended(frame) == \E i \in 1 .. Len(wire) : wire[i] = [part |-> "end", frame |-> frame]

\* The stream is a sequence of whole frames, of which only the last may be cut
\* off: frames of the three writers do not mix, and nothing follows a write that
\* failed (sseWriter.frame).
FramesAreWhole ==
  \A i \in 1 .. Len(wire) :
    IF wire[i].part = "event"
    THEN i > 1 => wire[i - 1].part = "end"
    ELSE /\ i > 1
         /\ wire[i - 1].frame = wire[i].frame
         /\ \/ wire[i].part = "data" /\ wire[i - 1].part = "event"
            \/ wire[i].part = "end" /\ wire[i - 1].part = "data"

\* Where the frames of a channel begin.
Begins(ch) == {i \in 1 .. Len(wire) : wire[i].part = "event" /\ wire[i].frame.event = ch}

\* They hold each chunk up to that one, once and in order.
InOrder(ch, upto) ==
  /\ \A n \in 1 .. upto : \E i \in Begins(ch) :
       n \in wire[i].frame.first .. wire[i].frame.last
  /\ \A i \in Begins(ch) :
       /\ wire[i].frame.first \in 1 .. wire[i].frame.last /\ wire[i].frame.last <= upto
       /\ \A j \in Begins(ch) : i < j => wire[i].frame.last < wire[j].frame.first

\* The exit frame is the last one, and when it carries the status of the command
\* the frames before it are all that the command wrote, in order and without a
\* gap: Run waits for both goroutines, and an error of one of them stops the
\* handler too (handleExec, sseWriter).
ExitFramesCloseTheStream ==
  \A i \in 1 .. Len(wire) :
    wire[i].frame.event = "exit" =>
      /\ \A j \in i .. Len(wire) : wire[j].frame = wire[i].frame
      /\ wire[i].frame.code >= 0 /\ cli = "exited" =>
           \A ch \in Channels : InOrder(ch, written[ch])

\* What a delivered exit frame says is so: it carries the status of a command that
\* has ended, or the failure of the CLI, or it says -1 because the exec was given
\* up.  A command that still runs was left by a CLI that failed, by a client that
\* left, or by a deadline with its grace (DockerRuntime.Exec).
AnswersAreTrue ==
  \A code \in {result.code}, timedOut \in BOOLEAN :
    Ended(ExitFrame(code, timedOut)) =>
      \/ command.state = "ended" /\ code = command.status
      \/ cli = "failed" /\ code = 1 /\ ~timedOut
      \/ code = -1 /\ timedOut /\ (Fits => clock >= Wanted + GraceSecs)
      \/ code = -1 /\ ~timedOut /\ (client = "gone" \/ cli = "none")

\* An exit frame says timedOut only when the time that was asked for has passed,
\* or the command met a signal from elsewhere, or more was asked for than a
\* Duration holds with its grace (classifyExit, handleExec).
TimeoutsAreLate ==
  \A code \in {result.code} :
    Ended(ExitFrame(code, TRUE)) =>
      \/ clock >= Wanted
      \/ command.by = "other" /\ command.status \in {124, 137}
      \/ ~Fits

\* An exec is answered, whatever its command, its container and its CLI do,
\* unless its client stops reading without closing the connection (then the
\* writer waits, mutex in hand), or it asked for more than a Duration holds.
ExecsReturn ==
  []<>(client # "stalled") => ((phase = "run" /\ Fits) ~> (phase = "returned"))
=============================================================================

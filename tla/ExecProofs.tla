----------------------------- MODULE ExecProofs -----------------------------
(***************************************************************************)
(* One exec, for every timeout that is asked for, every width of a         *)
(* Duration and any amount of output.                                      *)
(*                                                                         *)
(* Three writers share the stream.  That their frames do not mix rests on  *)
(* what the last line on the wire is while somebody writes (FramesGoOn);   *)
(* that the exit frame is the last and follows all of the output, on what  *)
(* each copying goroutine still has to do (CopiersFit) and on which chunks *)
(* are on the wire already (ChunksAreFramed).  An error of the stream is   *)
(* kept, and every clause about the wire is one about a stream without it. *)
(***************************************************************************)
EXTENDS Exec, SequenceTheorems, DurationsProofs

-----------------------------------------------------------------------------
(* The inductive invariant.                                                *)

\* DockerRuntime.Exec has returned.
Past == {"error", "exit", "returned"}

\* How far the two goroutines are, and what they leave undone.
CopiersFit ==
  /\ phase \in {"idle", "env"} => cli = "none"
  /\ phase \in Past => cli # "running"
  /\ \A ch \in Channels :
       /\ cli = "none" => copier[ch] = "read"
       /\ phase \in Past /\ cli # "none" => copier[ch] \in {"done", "broken"}
       /\ copier[ch] \in {"frame", "check"} => framed[ch] < read[ch]
       /\ copier[ch] \in {"read", "done"} => framed[ch] = read[ch]
       /\ copier[ch] = "done" => read[ch] = relayed[ch] /\ CliGone
       /\ copier[ch] = "broken" => err

\* Who has the mutex writes the frame that is due.
WritersFit ==
  /\ writing # Nobody => ~err
  /\ \A ch \in Channels : writing.by = ch =>
       copier[ch] = "frame" /\ writing.frame = Chunks(ch, framed[ch] + 1, read[ch])
  /\ writing.by = Handler =>
       \/ phase = "error" /\ writing.frame = ErrorFrame
       \/ phase = "exit" /\ writing.frame = ExitFrame(result.code, result.timedOut)

\* A frame goes on where it was left.
FramesGoOn ==
  ~err =>
    IF writing = Nobody \/ writing.at = 1
    THEN wire = <<>> \/ wire[Len(wire)].part = "end"
    ELSE /\ wire # <<>>
         /\ wire[Len(wire)] = [part |-> Parts[writing.at - 1], frame |-> writing.frame]

\* The chunks of a channel that are in the frames on the wire.
Delivered(ch) ==
  IF (writing.by = ch /\ writing.at > 1) \/ copier[ch] = "check"
  THEN read[ch] ELSE framed[ch]

ChunksAreFramed == ~err => \A ch \in Channels : InOrder(ch, Delivered(ch))

\* A CLI that exits with its command's status has relayed all of its output.
CliFits == cli = "exited" => command.state = "ended" /\ relayed = written

StreamInv == TypeOK /\ CopiersFit /\ WritersFit /\ CliFits

\* The exit frame is the last.
ExitIsLast(i) ==
  wire[i].frame.event = "exit" =>
    /\ wire[i].frame = ExitFrame(result.code, result.timedOut)
    /\ phase = "returned" \/ (phase = "exit" /\ writing.by = Handler)
    /\ \A j \in i .. Len(wire) : wire[j].frame = wire[i].frame
    /\ cli = "exited" => \A ch \in Channels : InOrder(ch, written[ch])

ExitsAreLast == \A i \in 1 .. Len(wire) : ExitIsLast(i)

-----------------------------------------------------------------------------
\* The time that was asked for has passed, with the grace, if a Duration holds it.
WantedPassed == Fits => clock >= Wanted
GracePassed == Fits => clock >= Wanted + GraceSecs

\* The Duration is what is asked for, and before that there is nothing.
RequestFits ==
  /\ phase = "idle" => ctx # "expired" /\ asked = 0 /\ cli = "none"
  /\ phase # "idle" => timeout = Seconds(Wanted)

\* What the context, the watchdog and the CLI tell is so.
SignsAreTrue ==
  /\ cli = "none" => command = NoCommand /\ termed = 0
  /\ err => client = "gone"
  /\ ctx = "expired" => GracePassed
  /\ ctx = "cancelled" => client = "gone"
  /\ cli = "killed" => ctx # "live"
  /\ cli = "piped" => err
  /\ termed # 0 \/ command.by = "watchdog" => WantedPassed
  /\ command.state = "ended" => command.by \in {"other", "watchdog"}

\* And so is what Exec makes of them.
ResultIsTrue ==
  phase \in Past =>
    \/ /\ command.state = "ended" /\ result.code = command.status
       /\ result.timedOut => command.status \in {124, 137}
    \/ cli = "failed" /\ result.code = 1 /\ ~result.timedOut
    \/ result.code = -1 /\ result.timedOut /\ GracePassed
    \/ result.code = -1 /\ ~result.timedOut /\ (client = "gone" \/ cli = "none")

-----------------------------------------------------------------------------
(* Types.                                                                  *)

LEMMA PartsAre ==
  /\ Len(Parts) = 3 /\ Range(Parts) = {"event", "data", "end"}
  /\ Parts[1] = "event" /\ Parts[2] = "data" /\ Parts[3] = "end"
<1>1. /\ Len(Parts) = 3 /\ DOMAIN Parts = {1, 2, 3}
      /\ Parts[1] = "event" /\ Parts[2] = "data" /\ Parts[3] = "end"
  BY DEF Parts
<1>2. QED
  BY <1>1 DEF Range

LEMMA ConstantsAre ==
  /\ Asks \subseteq Int /\ Statuses \subseteq Nat /\ DefaultSecs \in Nat \ {0}
  /\ KillSecs \in Nat /\ GraceSecs \in Nat /\ ChunkBound \in Nat /\ TimeBound \in Nat
  /\ Unit \in Nat \ {0} /\ HalfRange \in Nat \ {0}
BY BoundsAreNumbers, TimesAreNumbers, StatusesAreNumbers, DurationsAreWide

LEMMA InitTypeOK == Init => TypeOK
<1> SUFFICES ASSUME Init PROVE TypeOK
  OBVIOUS
<1>1. CallOK
  <2>1. timeout \in -HalfRange .. HalfRange - 1
    BY ConstantsAre DEF Init
  <2>2. result \in [code : Statuses \cup {-1, 0, 1, 124, 137}, timedOut : BOOLEAN,
                   err : BOOLEAN]
    BY DEF Init, NoResult
  <2>3. QED
    BY <2>1, <2>2 DEF Init, CallOK
<1>2. CommandOK
  BY ConstantsAre DEF Init, CommandOK, NoCommand
<1>3. PipesOK
  BY ConstantsAre DEF Init, PipesOK
<1>4. WireOK
  BY DEF Init, WireOK
<1>5. QED
  BY <1>1, <1>2, <1>3, <1>4 DEF TypeOK

LEMMA RunResultTypeOK ==
  ASSUME TypeOK
  PROVE  RunResult \in [code : Statuses \cup {-1, 0, 1, 124, 137}, timedOut : BOOLEAN,
                        err : BOOLEAN]
BY ConstantsAre DEF TypeOK, CallOK, CommandOK, RunResult, CliResult, TimedOut, Classify

LEMMA NextCallOK ==
  ASSUME TypeOK, [Next]_vars
  PROVE  CallOK'
<1> USE DEF TypeOK, CallOK, asking
<1>1. ASSUME NEW n \in Asks, Ask(n)
      PROVE  CallOK'
  <2>1. Seconds(IF n > 0 THEN n ELSE DefaultSecs) \in -HalfRange .. HalfRange - 1
    BY ConstantsAre, WrapIsDuration DEF Seconds
  <2>2. QED
    BY <1>1, <2>1 DEF Ask, Accepts, stream
<1>2. ASSUME NEW r \in [code : Statuses \cup {-1, 0, 1, 124, 137}, timedOut : BOOLEAN,
                        err : BOOLEAN], Returns(r)
      PROVE  CallOK'
  BY <1>2 DEF Returns, stream
<1>3. CASE HandlerStep
  <2>1. CASE EnvFails \/ StartFails \/ RunReturns
    BY <1>2, <2>1, RunResultTypeOK DEF EnvFails, StartFails, RunReturns
  <2>2. CASE WritesEnv \/ CliStarts \/ HandlerWrites
    BY <2>2 DEF WritesEnv, CliStarts, HandlerWrites, Leaves, FrameSteps, stream
  <2>3. QED
    BY <1>3, <2>1, <2>2 DEF HandlerStep
<1>4. CASE FrameStep
  <2>1. phase' \in {"idle", "env", "run", "error", "exit", "returned"}
    BY <1>4 DEF FrameStep, Writes, WriteFails, Leaves
  <2>2. err' \in BOOLEAN
    BY <1>4 DEF FrameStep, Writes, WriteFails
  <2>3. UNCHANGED <<asked, timeout, result, ctx, client>>
    BY <1>4 DEF FrameStep, Writes, WriteFails, FrameSteps
  <2>4. QED
    BY <2>1, <2>2, <2>3
<1>5. ASSUME NEW ch \in Channels, CopierStep(ch)
      PROVE  CallOK'
  BY <1>5 DEF CopierStep, CopierReads, CopierEnds, CopierWrites, CopierChecks, CopierSteps, stream
<1>6. CASE CommandStep
  BY <1>6 DEF CommandStep, CommandStarts, CommandWrites, CommandEnds, WatchdogTerms,
     WatchdogKills, CommandSteps, stream
<1>7. CASE Tick \/ CtxExpires \/ CtxCancelled \/ ClientStalls \/ ClientReads \/ ClientLeaves
  BY <1>7 DEF Tick, CtxExpires, CtxCancelled, ClientStalls, ClientReads, ClientLeaves,
     ClientTo, stream
<1>8. ASSUME NEW ch \in Channels,
             CliRelays(ch) \/ CliPiped(ch) \/ CliExits \/ CliFails \/ CliKilled
      PROVE  CallOK'
  BY <1>8 DEF CliRelays, CliPiped, CliExits, CliFails, CliKilled, CliTo, stream
<1>9. CASE UNCHANGED vars
  BY <1>9 DEF vars, stream
<1> HIDE DEF TypeOK, CallOK
<1>10. \E ch : ch \in Channels
  BY DEF Channels
<1>11. QED
  BY <1>1, <1>3, <1>4, <1>5, <1>6, <1>7, <1>8, <1>9, <1>10 DEF Next

LEMMA NextCommandOK ==
  ASSUME TypeOK, [Next]_vars
  PROVE  CommandOK'
<1> USE DEF TypeOK, CommandOK
<1>1. CASE UNCHANGED <<docker, clock>>
  BY <1>1 DEF docker
<1>2. CASE Tick
  BY <1>2, ConstantsAre DEF Tick, docker
<1>3. CASE CliStarts \/ CliExits \/ CliFails \/ CliKilled \/ \E ch \in Channels : CliPiped(ch)
  BY <1>3 DEF CliStarts, CliExits, CliFails, CliKilled, CliPiped, CliTo
<1>4. CASE CommandStep
  BY <1>4, ConstantsAre DEF CommandStep, CommandStarts, CommandWrites, CommandEnds,
     WatchdogTerms, WatchdogKills, CommandSteps, NoCommand
<1> HIDE DEF TypeOK, CommandOK
<1>5. CASE HandlerStep /\ ~CliStarts
  BY <1>1, <1>5 DEF HandlerStep, WritesEnv, EnvFails, StartFails, RunReturns, Returns,
     HandlerWrites, FrameSteps
<1>6. CASE FrameStep \/ \E ch \in Channels : CopierStep(ch)
  BY <1>1, <1>6 DEF FrameStep, Writes, WriteFails, FrameSteps, CopierStep, CopierReads,
     CopierEnds, CopierWrites, CopierChecks, CopierSteps
<1>7. CASE \/ (\E n \in Asks : Ask(n)) \/ CtxExpires \/ CtxCancelled \/ UNCHANGED vars
           \/ ClientStalls \/ ClientReads \/ ClientLeaves \/ \E ch \in Channels : CliRelays(ch)
  BY <1>1, <1>7 DEF Ask, Accepts, CtxExpires, CtxCancelled, vars, ClientStalls, ClientReads,
     ClientLeaves, ClientTo, CliRelays
<1>8. QED
  BY <1>2, <1>3, <1>4, <1>5, <1>6, <1>7 DEF Next

LEMMA NextPipesOK ==
  ASSUME TypeOK, [Next]_vars
  PROVE  PipesOK'
<1> USE DEF TypeOK, PipesOK
<1>1. CASE UNCHANGED <<written, pipes>>
  BY <1>1 DEF pipes
<1>2. ASSUME NEW ch \in Channels, NEW last \in 1 .. ChunkBound, CopierReads(ch, last)
      PROVE  PipesOK'
  BY <1>2, ConstantsAre DEF CopierReads, CopierSteps, docker
<1>3. ASSUME NEW ch \in Channels, CopierEnds(ch) \/ CopierWrites(ch) \/ CopierChecks(ch)
      PROVE  PipesOK'
  BY <1>3, ConstantsAre DEF CopierEnds, CopierWrites, CopierChecks, CopierSteps, docker
<1>4. ASSUME NEW ch \in Channels, CliRelays(ch)
      PROVE  PipesOK'
  BY <1>4, ConstantsAre DEF CliRelays, docker
<1>5. ASSUME NEW ch \in Channels, CommandWrites(ch)
      PROVE  PipesOK'
  BY <1>5, ConstantsAre DEF CommandWrites, CommandSteps, pipes, Channels
<1>6. CASE FrameStep \/ HandlerWrites
  BY <1>6 DEF FrameStep, Writes, WriteFails, HandlerWrites, Leaves, FrameSteps, docker
<1> HIDE DEF TypeOK, PipesOK
<1>7. CASE HandlerStep /\ ~HandlerWrites
  BY <1>1, <1>7 DEF HandlerStep, WritesEnv, EnvFails, StartFails, CliStarts, RunReturns,
     Returns, docker
<1>8. CASE CommandStep /\ \A ch \in Channels : ~CommandWrites(ch)
  BY <1>1, <1>8 DEF CommandStep, CommandStarts, CommandEnds, WatchdogTerms, WatchdogKills,
     CommandSteps
<1>9. CASE \/ (\E n \in Asks : Ask(n)) \/ Tick \/ CtxExpires \/ CtxCancelled \/ UNCHANGED vars
           \/ ClientStalls \/ ClientReads \/ ClientLeaves
  BY <1>1, <1>9 DEF Ask, Accepts, Tick, CtxExpires, CtxCancelled, vars, ClientStalls,
     ClientReads, ClientLeaves, ClientTo, docker
<1>10. CASE CliExits \/ CliFails \/ CliKilled \/ \E ch \in Channels : CliPiped(ch)
  BY <1>1, <1>10 DEF CliExits, CliFails, CliKilled, CliPiped, CliTo
<1>11. QED
  BY <1>2, <1>3, <1>4, <1>5, <1>6, <1>7, <1>8, <1>9, <1>10 DEF Next, CopierStep

\* Who writes on the stream.
LEMMA StreamChanges ==
  ASSUME [Next]_vars, ~FrameStep, ~HandlerWrites, \A ch \in Channels : ~CopierWrites(ch)
  PROVE  UNCHANGED stream
<1>1. CASE HandlerStep \/ \E ch \in Channels : CopierStep(ch)
  BY <1>1 DEF HandlerStep, WritesEnv, EnvFails, StartFails, CliStarts, RunReturns, Returns,
     CopierStep, CopierReads, CopierEnds, CopierChecks
<1>2. CASE CommandStep
  BY <1>2 DEF CommandStep, CommandStarts, CommandWrites, CommandEnds, WatchdogTerms,
     WatchdogKills, CommandSteps
<1>3. CASE \/ (\E n \in Asks : Ask(n)) \/ Tick \/ CtxExpires \/ CtxCancelled \/ UNCHANGED vars
           \/ ClientStalls \/ ClientReads \/ ClientLeaves
  BY <1>3 DEF Ask, Accepts, Tick, CtxExpires, CtxCancelled, vars, ClientStalls,
     ClientReads, ClientLeaves, ClientTo
<1>4. CASE CliExits \/ CliFails \/ CliKilled \/ \E ch \in Channels : CliPiped(ch) \/ CliRelays(ch)
  BY <1>4 DEF CliExits, CliFails, CliKilled, CliPiped, CliRelays, CliTo
<1>5. QED
  BY <1>1, <1>2, <1>3, <1>4 DEF Next

Writing == [by : Channels \cup {Handler}, at : 1 .. Len(Parts), frame : Frame]
Lines == [part : Range(Parts), frame : Frame]

\* A write that the stream accepts, line by line.
LEMMA WritesAre ==
  ASSUME TypeOK, Writes
  PROVE  /\ writing \in Writing
         /\ wire' = Append(wire, [part |-> Parts[writing.at], frame |-> writing.frame])
         /\ [part |-> Parts[writing.at], frame |-> writing.frame] \in Lines
         /\ wire' \in Seq(Lines) /\ Len(wire') = Len(wire) + 1
         /\ wire'[Len(wire')] = [part |-> Parts[writing.at], frame |-> writing.frame]
         /\ \A i \in 1 .. Len(wire) : wire'[i] = wire[i]
         /\ err' = err
         /\ \/ writing.at < 3 /\ writing' = [writing EXCEPT !.at = writing.at + 1]
            \/ writing.at = 3 /\ writing' = Nobody
<1>1. writing \in Writing /\ wire \in Seq(Lines)
  BY DEF TypeOK, WireOK, Writes, Writing, Lines
<1>2. [part |-> Parts[writing.at], frame |-> writing.frame] \in Lines
  BY <1>1, PartsAre DEF Writing, Lines
<1>3. wire' = Append(wire, [part |-> Parts[writing.at], frame |-> writing.frame])
  BY DEF Writes
<1>4. /\ wire' \in Seq(Lines) /\ Len(wire') = Len(wire) + 1
      /\ wire'[Len(wire')] = [part |-> Parts[writing.at], frame |-> writing.frame]
      /\ \A i \in 1 .. Len(wire) : wire'[i] = wire[i]
  BY <1>1, <1>2, <1>3, AppendProperties
<1>5. /\ err' = err
      /\ \/ writing.at < 3 /\ writing' = [writing EXCEPT !.at = writing.at + 1]
         \/ writing.at = 3 /\ writing' = Nobody
  BY <1>1, PartsAre DEF Writes, Writing
<1>6. QED
  BY <1>1, <1>2, <1>3, <1>4, <1>5

LEMMA NextWireOK ==
  ASSUME TypeOK, [Next]_vars
  PROVE  WireOK'
<1>1. writing \in {Nobody} \cup Writing /\ wire \in Seq(Lines)
  BY DEF TypeOK, WireOK, Writing, Lines
<1>2. SUFFICES writing' \in {Nobody} \cup Writing /\ wire' \in Seq(Lines)
  BY DEF WireOK, Writing, Lines
<1>3. CASE Writes
  <2>1. writing \in Writing /\ writing.at < 3 => [writing EXCEPT !.at = writing.at + 1] \in Writing
    BY PartsAre DEF Writing
  <2>2. QED
    BY <1>3, <2>1, WritesAre
<1>4. CASE WriteFails
  BY <1>1, <1>4 DEF WriteFails, FrameSteps
<1>5. ASSUME NEW ch \in Channels, CopierWrites(ch)
      PROVE  writing' \in {Nobody} \cup Writing /\ wire' \in Seq(Lines)
  <2>1. Chunks(ch, framed[ch] + 1, read[ch]) \in Frame
    BY ConstantsAre DEF Chunks, Frame, TypeOK, PipesOK
  <2>2. [by |-> ch, at |-> 1, frame |-> Chunks(ch, framed[ch] + 1, read[ch])] \in Writing
    BY <2>1, PartsAre DEF Writing
  <2>3. QED
    BY <1>1, <1>5, <2>2 DEF CopierWrites
<1>6. CASE HandlerWrites
  <2>1. ErrorFrame \in Frame /\ ExitFrame(result.code, result.timedOut) \in Frame
    <3>1. result.code \in Statuses \cup {-1, 0, 1, 124, 137} /\ result.timedOut \in BOOLEAN
      BY DEF TypeOK, CallOK
    <3>2. \A code \in Statuses \cup {-1, 0, 1, 124, 137} : code \in Int
      BY StatusesAreNumbers
    <3>3. QED
      BY <3>1, <3>2 DEF ExitFrame, ErrorFrame, Frame
  <2>2. \A frame \in Frame : [by |-> Handler, at |-> 1, frame |-> frame] \in Writing
    BY PartsAre DEF Writing
  <2>3. QED
    BY <1>1, <1>6, <2>1, <2>2 DEF HandlerWrites
<1>7. CASE UNCHANGED stream
  BY <1>1, <1>7 DEF stream
<1>8. QED
  BY <1>3, <1>4, <1>5, <1>6, <1>7, StreamChanges DEF FrameStep

LEMMA NextTypeOK == TypeOK /\ [Next]_vars => TypeOK'
BY NextCallOK, NextCommandOK, NextPipesOK, NextWireOK DEF TypeOK

\* The variables keep their types, and no chunk of output overtakes another: none
\* is framed before it is read, read before it is relayed, relayed before it is
\* written (runtime.go, server.go).
THEOREM TypeCorrect == Spec => []TypeOK
BY InitTypeOK, NextTypeOK, PTL DEF Spec

-----------------------------------------------------------------------------
(* The pipes and who writes frames.                                        *)

LEMMA InitStream == Init => StreamInv
<1>1. Init => CopiersFit /\ WritersFit /\ CliFits
  BY DEF Init, CopiersFit, WritersFit, CliFits, Nobody, Channels, Handler, Past
<1>2. QED
  BY <1>1, InitTypeOK DEF StreamInv

LEMMA ChannelsAre ==
  ASSUME NEW ch \in Channels
  PROVE  ch # Handler /\ ch # "nobody" /\ ch # "exit" /\ ch # "error"
BY DEF Channels, Handler

\* Who leaves frame has been in it.
LEMMA LeavesFits ==
  ASSUME StreamInv, FrameStep, Leaves(writing.by)
  PROVE  \/ /\ writing.by = Handler /\ UNCHANGED copier
            /\ \/ phase = "error" /\ phase' = "exit"
               \/ phase = "exit" /\ phase' = "returned"
         \/ /\ UNCHANGED phase
            /\ \E ch \in Channels :
                 writing.by = ch /\ copier[ch] = "frame" /\ copier' = [copier EXCEPT ![ch] = "check"]
<1>1. writing \in Writing
  BY DEF FrameStep, Writes, WriteFails, StreamInv, TypeOK, WireOK, Writing
<1>2. CASE writing.by = Handler
  BY <1>2 DEF Leaves, StreamInv, WritersFit
<1>3. CASE writing.by \in Channels
  BY <1>3, ChannelsAre DEF Leaves, StreamInv, WritersFit
<1>4. QED
  BY <1>1, <1>2, <1>3 DEF Writing

LEMMA NextCopiersFit ==
  ASSUME StreamInv, [Next]_vars
  PROVE  CopiersFit'
<1>1. /\ copier \in [Channels -> {"read", "frame", "check", "done", "broken"}]
      /\ framed \in [Channels -> 0 .. ChunkBound] /\ read \in [Channels -> 0 .. ChunkBound]
      /\ relayed \in [Channels -> 0 .. ChunkBound]
      /\ phase \in {"idle", "env", "run", "error", "exit", "returned"}
      /\ cli \in {"none", "running", "exited", "failed", "killed", "piped"}
  BY DEF StreamInv, TypeOK, PipesOK, CallOK, CommandOK
<1>2. CopiersFit
  BY DEF StreamInv
<1> USE <1>1, <1>2, ConstantsAre DEF CopiersFit, Past, CliGone
<1>3. CASE UNCHANGED <<phase, cli, pipes, err>>
  BY <1>3 DEF pipes
<1>4. CASE FrameStep
  <2>1. UNCHANGED <<cli, relayed, read, framed>> /\ (err => err')
    BY <1>4 DEF FrameStep, Writes, WriteFails, FrameSteps, docker
  <2>2. CASE UNCHANGED <<phase, copier>>
    BY <2>1, <2>2
  <2>3. CASE Leaves(writing.by)
    <3>1. CASE UNCHANGED copier /\ phase \in Past /\ phase' \in Past
      BY <2>1, <3>1
    <3>2. ASSUME NEW ch \in Channels, copier[ch] = "frame", UNCHANGED phase,
                 copier' = [copier EXCEPT ![ch] = "check"]
          PROVE  CopiersFit'
      BY <2>1, <3>2
    <3>3. QED
      BY <1>4, <2>3, <3>1, <3>2, LeavesFits
  <2>4. QED
    BY <1>4, <2>2, <2>3 DEF FrameStep, Writes, WriteFails
<1>5. ASSUME NEW ch \in Channels, CopierStep(ch)
      PROVE  CopiersFit'
  <2>1. ASSUME NEW last \in 1 .. ChunkBound, CopierReads(ch, last)
        PROVE  CopiersFit'
    BY <2>1 DEF CopierReads, CopierSteps, asking, docker, stream
  <2>2. CASE CopierEnds(ch)
    BY <2>2 DEF CopierEnds, CopierSteps, asking, docker, stream
  <2>3. CASE CopierWrites(ch)
    BY <2>3 DEF CopierWrites, CopierSteps, asking, docker
  <2>4. CASE CopierChecks(ch)
    BY <2>4 DEF CopierChecks, CopierSteps, asking, docker, stream
  <2>5. QED
    BY <1>5, <2>1, <2>2, <2>3, <2>4 DEF CopierStep
<1>6. CASE HandlerStep
  <2>1. CASE WritesEnv \/ CliStarts
    BY <2>1 DEF WritesEnv, CliStarts, asking, docker, pipes, stream
  <2>2. CASE EnvFails \/ StartFails
    BY <2>2 DEF EnvFails, StartFails, Returns, docker, pipes, stream
  <2>3. CASE RunReturns
    <3>1. \A ch \in Channels : copier[ch] \in Range(copier)
      BY DEF Range
    <3>2. QED
      BY <2>3, <3>1 DEF RunReturns, Returns, docker, pipes, stream
  <2>4. CASE HandlerWrites
    BY <2>4 DEF HandlerWrites, Leaves, FrameSteps, docker
  <2>5. QED
    BY <1>6, <2>1, <2>2, <2>3, <2>4 DEF HandlerStep
<1>7. ASSUME NEW ch \in Channels, CliRelays(ch)
      PROVE  CopiersFit'
  BY <1>7 DEF CliRelays, asking, docker, stream
<1>8. ASSUME NEW ch \in Channels, CliExits \/ CliFails \/ CliKilled \/ CliPiped(ch)
      PROVE  CopiersFit'
  BY <1>8 DEF CliExits, CliFails, CliKilled, CliPiped, CliTo, asking, pipes, stream
<1>9. ASSUME NEW n \in Asks, Ask(n)
      PROVE  CopiersFit'
  BY <1>9 DEF Ask, Accepts, docker, pipes, stream
<1> HIDE DEF CopiersFit
<1>10. CASE CommandStep
  BY <1>3, <1>10 DEF CommandStep, CommandStarts, CommandWrites, CommandEnds, WatchdogTerms,
     WatchdogKills, CommandSteps, asking, stream
<1>11. CASE \/ Tick \/ CtxExpires \/ CtxCancelled \/ UNCHANGED vars
            \/ ClientStalls \/ ClientReads \/ ClientLeaves
  BY <1>3, <1>11 DEF Tick, CtxExpires, CtxCancelled, vars, ClientStalls, ClientReads,
     ClientLeaves, ClientTo, asking, docker, stream
<1>12. \E ch : ch \in Channels
  BY DEF Channels
<1>13. QED
  BY <1>4, <1>5, <1>6, <1>7, <1>8, <1>9, <1>10, <1>11, <1>12 DEF Next

LEMMA NextWritersFit ==
  ASSUME StreamInv, [Next]_vars
  PROVE  WritersFit'
<1>1. /\ copier \in [Channels -> {"read", "frame", "check", "done", "broken"}]
      /\ framed \in [Channels -> 0 .. ChunkBound] /\ read \in [Channels -> 0 .. ChunkBound]
      /\ writing \in {Nobody} \cup Writing
      /\ WritersFit
  BY DEF StreamInv, TypeOK, PipesOK, WireOK, Writing
<1> USE DEF WritersFit
<1>2. CASE writing' = Nobody
  BY <1>2, ChannelsAre DEF Nobody, Handler
<1>3. CASE Writes
  <2>1. CASE writing.at = 3
    BY <1>2, <1>3, <2>1, WritesAre DEF StreamInv
  <2>2. CASE writing.at # 3
    <3>1. /\ writing \in Writing /\ writing' = [writing EXCEPT !.at = writing.at + 1] /\ err' = err
      BY <1>3, <2>2, WritesAre DEF StreamInv
    <3>2. writing'.by = writing.by /\ writing'.frame = writing.frame /\ writing # Nobody
      BY <3>1 DEF Writing, Nobody, Channels, Handler
    <3>3. UNCHANGED <<phase, copier, framed, read, result>>
      BY <1>3, <2>2, <3>1, PartsAre DEF Writes, FrameSteps, Writing
    <3>4. QED
      BY <1>1, <3>1, <3>2, <3>3 DEF Chunks
  <2>3. QED
    BY <2>1, <2>2
<1>4. CASE WriteFails
  BY <1>2, <1>4 DEF WriteFails
<1>5. ASSUME NEW ch \in Channels, CopierWrites(ch)
      PROVE  WritersFit'
  <2>1. CASE err
    BY <1>2, <1>5, <2>1 DEF CopierWrites
  <2>2. CASE ~err
    <3>1. /\ writing' = [by |-> ch, at |-> 1, frame |-> Chunks(ch, framed[ch] + 1, read[ch])]
          /\ UNCHANGED <<copier, framed, read, err>> /\ copier[ch] = "frame"
      BY <1>5, <2>2 DEF CopierWrites
    <3>2. writing'.by = ch /\ writing'.frame = Chunks(ch, framed[ch] + 1, read[ch])
      BY <3>1
    <3>3. QED
      BY <2>2, <3>1, <3>2, ChannelsAre DEF Chunks
  <2>3. QED
    BY <2>1, <2>2
<1>6. CASE HandlerWrites
  <2>1. CASE err
    BY <1>2, <1>6, <2>1 DEF HandlerWrites
  <2>2. CASE ~err
    <3>1. /\ writing' = [by |-> Handler, at |-> 1,
                        frame |-> IF phase = "error" THEN ErrorFrame
                                  ELSE ExitFrame(result.code, result.timedOut)]
          /\ UNCHANGED <<phase, result, err>> /\ phase \in {"error", "exit"}
      BY <1>6, <2>2 DEF HandlerWrites, FrameSteps
    <3>2. /\ writing'.by = Handler
          /\ writing'.frame = IF phase = "error" THEN ErrorFrame
                              ELSE ExitFrame(result.code, result.timedOut)
      BY <3>1
    <3>3. QED
      BY <2>2, <3>1, <3>2, ChannelsAre DEF ExitFrame
  <2>3. QED
    BY <2>1, <2>2
<1>7. CASE UNCHANGED stream /\ ~FrameStep /\ ~HandlerWrites /\ \A ch \in Channels : ~CopierWrites(ch)
  <2>1. \A ch \in Channels : copier[ch] = "frame" =>
          copier'[ch] = "frame" /\ framed'[ch] = framed[ch] /\ read'[ch] = read[ch]
    <3>1. CASE \E ch \in Channels : CopierStep(ch)
      BY <1>1, <1>7, <3>1 DEF CopierStep, CopierReads, CopierEnds, CopierChecks
    <3>2. CASE HandlerStep \/ CommandStep
      BY <1>7, <3>2 DEF HandlerStep, WritesEnv, EnvFails, StartFails, CliStarts, RunReturns,
         Returns, CommandStep, CommandStarts, CommandWrites, CommandEnds, WatchdogTerms,
         WatchdogKills, CommandSteps, pipes
    <3>3. CASE \/ (\E n \in Asks : Ask(n)) \/ Tick \/ CtxExpires \/ CtxCancelled \/ UNCHANGED vars
               \/ ClientStalls \/ ClientReads \/ ClientLeaves
      BY <3>3 DEF Ask, Accepts, Tick, CtxExpires, CtxCancelled, vars, ClientStalls,
         ClientReads, ClientLeaves, ClientTo, pipes
    <3>4. CASE CliExits \/ CliFails \/ CliKilled \/ \E ch \in Channels : CliPiped(ch) \/ CliRelays(ch)
      BY <3>4 DEF CliExits, CliFails, CliKilled, CliPiped, CliRelays, CliTo, pipes
    <3>5. QED
      BY <1>7, <3>1, <3>2, <3>3, <3>4 DEF Next
  <2>2. phase \in {"error", "exit"} => UNCHANGED <<phase, result>>
    <3>1. CASE HandlerStep \/ \E ch \in Channels : CopierStep(ch)
      BY <1>7, <3>1 DEF HandlerStep, WritesEnv, EnvFails, StartFails, CliStarts, RunReturns,
         Returns, CopierStep, CopierReads, CopierEnds, CopierChecks, CopierSteps, asking
    <3>2. CASE CommandStep
      BY <3>2 DEF CommandStep, CommandStarts, CommandWrites, CommandEnds, WatchdogTerms,
         WatchdogKills, CommandSteps, asking
    <3>3. CASE \/ (\E n \in Asks : Ask(n)) \/ Tick \/ CtxExpires \/ CtxCancelled \/ UNCHANGED vars
               \/ ClientStalls \/ ClientReads \/ ClientLeaves
      BY <3>3 DEF Ask, Accepts, Tick, CtxExpires, CtxCancelled, vars, ClientStalls,
         ClientReads, ClientLeaves, ClientTo, asking
    <3>4. CASE CliExits \/ CliFails \/ CliKilled \/ \E ch \in Channels : CliPiped(ch) \/ CliRelays(ch)
      BY <3>4 DEF CliExits, CliFails, CliKilled, CliPiped, CliRelays, CliTo, asking
    <3>5. QED
      BY <1>7, <3>1, <3>2, <3>3, <3>4 DEF Next
  <2>3. QED
    BY <1>1, <1>7, <2>1, <2>2 DEF stream, Chunks, ExitFrame
<1>8. QED
  BY <1>3, <1>4, <1>5, <1>6, <1>7, StreamChanges DEF FrameStep

LEMMA NextCliFits ==
  ASSUME StreamInv, [Next]_vars
  PROVE  CliFits'
<1>1. CliFits
  BY DEF StreamInv
<1> USE <1>1 DEF CliFits
<1>2. CASE HandlerStep \/ \E ch \in Channels : CopierStep(ch)
  BY <1>2 DEF HandlerStep, WritesEnv, EnvFails, StartFails, CliStarts, RunReturns, Returns,
     HandlerWrites, FrameSteps, CopierStep, CopierReads, CopierEnds, CopierWrites,
     CopierChecks, CopierSteps, docker, pipes
<1>3. CASE CommandStep
  BY <1>3 DEF CommandStep, CommandStarts, CommandWrites, CommandEnds, WatchdogTerms,
     WatchdogKills, CommandSteps, pipes, NoCommand
<1>4. CASE \/ (\E n \in Asks : Ask(n)) \/ Tick \/ CtxExpires \/ CtxCancelled \/ UNCHANGED vars
           \/ ClientStalls \/ ClientReads \/ ClientLeaves
  BY <1>4 DEF Ask, Accepts, Tick, CtxExpires, CtxCancelled, vars, ClientStalls,
     ClientReads, ClientLeaves, ClientTo, docker, pipes
<1>5. CASE CliExits \/ CliFails \/ CliKilled \/ \E ch \in Channels : CliPiped(ch) \/ CliRelays(ch)
  BY <1>5 DEF CliExits, CliFails, CliKilled, CliPiped, CliRelays, CliTo, docker, pipes
<1>6. CASE FrameStep
  BY <1>6 DEF FrameStep, Writes, WriteFails, FrameSteps, docker
<1>7. QED
  BY <1>2, <1>3, <1>4, <1>5, <1>6 DEF Next

LEMMA NextStream == StreamInv /\ [Next]_vars => StreamInv'
BY NextTypeOK, NextCopiersFit, NextWritersFit, NextCliFits DEF StreamInv

-----------------------------------------------------------------------------
(* Frames are whole.                                                       *)

WholeInv == StreamInv /\ FramesGoOn /\ FramesAreWhole

\* Line i of the stream may come where it is.
Follows(i) ==
  IF wire[i].part = "event"
  THEN i > 1 => wire[i - 1].part = "end"
  ELSE /\ i > 1
       /\ wire[i - 1].frame = wire[i].frame
       /\ \/ wire[i].part = "data" /\ wire[i - 1].part = "event"
          \/ wire[i].part = "end" /\ wire[i - 1].part = "data"

\* The line that a writer adds goes on with its frame.
LEMMA LinesFollow ==
  ASSUME WholeInv, Writes, NEW n \in Nat, n = Len(wire) + 1
  PROVE  Follows(n)'
<1>1. /\ wire \in Seq(Lines) /\ Len(wire) \in Nat /\ writing \in Writing /\ writing.at \in 1 .. 3
      /\ ~err /\ (wire = <<>> <=> Len(wire) = 0)
  <2>1. wire \in Seq(Lines) /\ writing \in Writing /\ writing # Nobody
    BY WritesAre DEF WholeInv, StreamInv, TypeOK, WireOK, Lines, Writes
  <2>2. QED
    BY <2>1, PartsAre, EmptySeq, LenProperties DEF WholeInv, StreamInv, WritersFit, Writing
<1>3. /\ wire'[n].part = Parts[writing.at] /\ wire'[n].frame = writing.frame
      /\ n > 1 => wire'[n - 1] = wire[Len(wire)]
  <2>1. /\ wire'[n] = [part |-> Parts[writing.at], frame |-> writing.frame]
        /\ \A i \in 1 .. Len(wire) : wire'[i] = wire[i]
    BY WritesAre DEF WholeInv, StreamInv
  <2>2. QED
    BY <1>1, <2>1
<1>4. CASE writing.at = 1
  <2>1. n > 1 => wire'[n - 1].part = "end"
    BY <1>1, <1>3, <1>4 DEF WholeInv, FramesGoOn
  <2>2. QED
    BY <1>3, <1>4, <2>1, PartsAre DEF Follows
<1>5. CASE writing.at # 1
  <2>1. n > 1 /\ wire'[n - 1] = [part |-> Parts[writing.at - 1], frame |-> writing.frame]
    <3>1. writing # Nobody
      BY DEF Writes
    <3>2. QED
      BY <1>1, <1>3, <1>5, <3>1 DEF WholeInv, FramesGoOn
  <2>2. wire'[n - 1].part = Parts[writing.at - 1] /\ wire'[n - 1].frame = writing.frame
    BY <2>1
  <2>3. \/ wire'[n].part = "data" /\ wire'[n - 1].part = "event"
        \/ wire'[n].part = "end" /\ wire'[n - 1].part = "data"
    BY <1>1, <1>3, <1>5, <2>2, PartsAre
  <2>4. QED
    BY <1>3, <2>1, <2>2, <2>3 DEF Follows
<1>6. QED
  BY <1>4, <1>5

LEMMA NextFramesAreWhole ==
  ASSUME WholeInv, [Next]_vars
  PROVE  FramesAreWhole'
<1>1. CASE UNCHANGED wire
  BY <1>1 DEF WholeInv, FramesAreWhole
<1>2. CASE Writes
  <2>1. /\ Len(wire) \in Nat /\ Len(wire') = Len(wire) + 1
        /\ \A i \in 1 .. Len(wire) : wire'[i] = wire[i]
    BY <1>2, WritesAre, LenProperties DEF WholeInv, StreamInv, TypeOK, WireOK
  <2>2. SUFFICES ASSUME NEW i \in 1 .. Len(wire') PROVE Follows(i)'
    BY DEF FramesAreWhole, Follows
  <2>3. CASE i = Len(wire) + 1
    BY <1>2, <2>1, <2>3, LinesFollow
  <2>4. CASE i \in 1 .. Len(wire)
    <3>1. Follows(i)
      BY <2>4 DEF WholeInv, FramesAreWhole, Follows
    <3>2. wire'[i] = wire[i] /\ (i > 1 => wire'[i - 1] = wire[i - 1])
      BY <2>1, <2>4
    <3>3. QED
      BY <2>4, <3>1, <3>2 DEF Follows
  <2>5. QED
    BY <2>1, <2>3, <2>4
<1>3. CASE WriteFails \/ HandlerWrites \/ \E ch \in Channels : CopierWrites(ch)
  BY <1>1, <1>3 DEF WriteFails, FrameSteps, HandlerWrites, CopierWrites
<1>4. QED
  BY <1>1, <1>2, <1>3, StreamChanges DEF FrameStep, stream

LEMMA NextFramesGoOn ==
  ASSUME WholeInv, [Next]_vars
  PROVE  FramesGoOn'
<1>1. CASE UNCHANGED stream
  BY <1>1 DEF stream, WholeInv, FramesGoOn
<1>2. CASE Writes
  <2>1. /\ writing \in Writing /\ writing.at \in 1 .. 3 /\ wire' # <<>>
        /\ wire'[Len(wire')] = [part |-> Parts[writing.at], frame |-> writing.frame]
        /\ \/ writing.at < 3 /\ writing' = [writing EXCEPT !.at = writing.at + 1]
           \/ writing.at = 3 /\ writing' = Nobody
    <3>1. writing \in Writing /\ wire' \in Seq(Lines) /\ Len(wire') = Len(wire) + 1
          /\ Len(wire) \in Nat
      BY <1>2, WritesAre, LenProperties DEF WholeInv, StreamInv, TypeOK, WireOK
    <3>2. wire' # <<>>
      BY <3>1, EmptySeq
    <3>3. QED
      BY <1>2, <3>1, <3>2, WritesAre, PartsAre DEF WholeInv, StreamInv, Writing
  <2>2. CASE writing.at < 3
    <3>1. writing'.at = writing.at + 1 /\ writing'.at # 1 /\ writing'.frame = writing.frame
          /\ writing' # Nobody /\ writing'.at - 1 = writing.at
      BY <2>1, <2>2 DEF Writing, Nobody, Channels, Handler
    <3>2. QED
      BY <2>1, <3>1 DEF FramesGoOn
  <2>3. CASE writing.at = 3
    <3>1. wire'[Len(wire')].part = "end" /\ writing' = Nobody
      BY <2>1, <2>3, PartsAre
    <3>2. QED
      BY <3>1 DEF FramesGoOn
  <2>4. QED
    BY <2>1, <2>2, <2>3
<1>3. CASE WriteFails
  BY <1>3 DEF WriteFails, FramesGoOn
<1>4. CASE HandlerWrites \/ \E ch \in Channels : CopierWrites(ch)
  <2>1. /\ writing = Nobody /\ UNCHANGED <<wire, err>>
        /\ writing' = Nobody \/ writing'.at = 1
    BY <1>4 DEF HandlerWrites, CopierWrites
  <2>2. QED
    BY <2>1 DEF FramesGoOn, WholeInv
<1>5. QED
  BY <1>1, <1>2, <1>3, <1>4, StreamChanges DEF FrameStep

LEMMA InitWhole == Init => WholeInv
<1>1. Init => FramesGoOn /\ FramesAreWhole
  BY DEF Init, FramesGoOn, FramesAreWhole
<1>2. QED
  BY <1>1, InitStream DEF WholeInv

LEMMA NextWhole == WholeInv /\ [Next]_vars => WholeInv'
BY NextStream, NextFramesAreWhole, NextFramesGoOn DEF WholeInv

\* The frames on the stream do not mix and none is left unfinished but the last
\* one, whoever writes and whenever a write fails (sseWriter.frame).
THEOREM FramesCorrect == Spec => []FramesAreWhole
<1>1. WholeInv => FramesAreWhole
  BY DEF WholeInv
<1>2. QED
  BY InitWhole, NextWhole, <1>1, PTL DEF Spec

-----------------------------------------------------------------------------
(* Chunks, and the exit frame.                                             *)

\* A line that begins no frame of the channel leaves its chunks as they are.
LEMMA OtherLinesKeepOrder ==
  ASSUME NEW ch \in Channels, NEW upto, InOrder(ch, upto), Len(wire) \in Nat,
         Len(wire') = Len(wire) + 1, \A i \in 1 .. Len(wire) : wire'[i] = wire[i],
         ~(wire'[Len(wire')].part = "event" /\ wire'[Len(wire')].frame.event = ch)
  PROVE  InOrder(ch, upto)'
<1>1. Begins(ch)' = Begins(ch) /\ \A i \in Begins(ch) : wire'[i] = wire[i]
  BY DEF Begins
<1>2. QED
  BY <1>1 DEF InOrder

\* A line that begins a frame of the channel, with the chunks that are next.
LEMMA NextChunksKeepOrder ==
  ASSUME NEW ch \in Channels, NEW m \in Nat, NEW n \in Nat, m < n, InOrder(ch, m),
         Len(wire) \in Nat, \A i \in Begins(ch) : wire[i].frame.first \in Int /\ wire[i].frame.last \in Int,
         Len(wire') = Len(wire) + 1, \A i \in 1 .. Len(wire) : wire'[i] = wire[i],
         wire'[Len(wire')].part = "event", wire'[Len(wire')].frame = Chunks(ch, m + 1, n)
  PROVE  InOrder(ch, n)'
<1>1. PICK new \in Nat : new = Len(wire')
  OBVIOUS
<1>2. /\ wire'[new].frame.event = ch
      /\ wire'[new].frame.first = m + 1 /\ wire'[new].frame.last = n
  BY <1>1 DEF Chunks
<1>3. /\ Begins(ch)' = Begins(ch) \cup {new} /\ \A i \in Begins(ch) : i \in 1 .. new - 1 /\ wire'[i] = wire[i]
  BY <1>1, <1>2 DEF Begins
<1>4. ASSUME NEW k \in 1 .. n
      PROVE  \E i \in Begins(ch)' : k \in wire'[i].frame.first .. wire'[i].frame.last
  <2>1. CASE k \in 1 .. m
    BY <1>3, <2>1 DEF InOrder
  <2>2. CASE k \in m + 1 .. n
    BY <1>2, <1>3, <2>2
  <2>3. QED
    BY <2>1, <2>2
<1>5. ASSUME NEW i \in Begins(ch)'
      PROVE  /\ wire'[i].frame.first \in 1 .. wire'[i].frame.last /\ wire'[i].frame.last <= n
             /\ \A j \in Begins(ch)' : i < j => wire'[i].frame.last < wire'[j].frame.first
  <2>1. CASE i = new
    <3>1. \A j \in Begins(ch)' : ~(i < j)
      BY <1>3, <2>1
    <3>2. QED
      BY <1>2, <2>1, <3>1
  <2>2. CASE i \in Begins(ch)
    <3>1. /\ wire'[i] = wire[i] /\ wire[i].frame.first \in 1 .. wire[i].frame.last
          /\ wire[i].frame.last \in Int /\ wire[i].frame.last <= m
          /\ \A j \in Begins(ch) : i < j => wire[i].frame.last < wire[j].frame.first
      BY <1>3, <2>2 DEF InOrder
    <3>2. ASSUME NEW j \in Begins(ch)', i < j
          PROVE  wire'[i].frame.last < wire'[j].frame.first
      BY <1>2, <1>3, <3>1, <3>2
    <3>3. QED
      BY <3>1, <3>2
  <2>3. QED
    BY <1>3, <2>1, <2>2
<1>6. QED
  BY <1>4, <1>5 DEF InOrder

LEMMA FramesHaveChunks ==
  ASSUME TypeOK, NEW ch \in Channels, NEW i \in Begins(ch)
  PROVE  wire[i].frame.first \in Int /\ wire[i].frame.last \in Int
<1>1. wire \in Seq(Lines) /\ i \in 1 .. Len(wire) /\ wire[i].frame.event = ch
  BY DEF Begins, TypeOK, WireOK, Lines
<1>2. wire[i] \in Lines
  BY <1>1, ElementOfSeq
<1>3. wire[i].frame \in Frame
  BY <1>2 DEF Lines
<1>4. wire[i].frame \in [event : Channels, first : Nat, last : Nat]
  BY <1>1, <1>3, ChannelsAre DEF Frame, ErrorFrame
<1>5. QED
  BY <1>4

\* Who reads and frames.
LEMMA PipesChange ==
  ASSUME [Next]_vars, ~FrameStep, \A ch \in Channels : ~CopierStep(ch)
  PROVE  UNCHANGED <<read, framed, copier>>
<1>1. CASE HandlerStep \/ CommandStep
  BY <1>1 DEF HandlerStep, WritesEnv, EnvFails, StartFails, CliStarts, RunReturns, Returns,
     HandlerWrites, Leaves, FrameSteps, CommandStep, CommandStarts, CommandWrites, CommandEnds,
     WatchdogTerms, WatchdogKills, CommandSteps, pipes
<1>2. CASE \/ (\E n \in Asks : Ask(n)) \/ Tick \/ CtxExpires \/ CtxCancelled \/ UNCHANGED vars
           \/ ClientStalls \/ ClientReads \/ ClientLeaves
  BY <1>2 DEF Ask, Accepts, Tick, CtxExpires, CtxCancelled, vars, ClientStalls,
     ClientReads, ClientLeaves, ClientTo, pipes
<1>3. CASE CliExits \/ CliFails \/ CliKilled \/ \E ch \in Channels : CliPiped(ch) \/ CliRelays(ch)
  BY <1>3 DEF CliExits, CliFails, CliKilled, CliPiped, CliRelays, CliTo, pipes
<1>4. QED
  BY <1>1, <1>2, <1>3 DEF Next

\* No step but a write changes which chunks are on the wire.
LEMMA DeliveredStays ==
  ASSUME StreamInv, [Next]_vars, ~Writes, ~err', NEW ch \in Channels
  PROVE  Delivered(ch)' = Delivered(ch) /\ UNCHANGED <<wire, err>>
<1>1. /\ copier \in [Channels -> {"read", "frame", "check", "done", "broken"}]
      /\ framed \in [Channels -> 0 .. ChunkBound] /\ read \in [Channels -> 0 .. ChunkBound]
      /\ CopiersFit /\ WritersFit
  BY DEF StreamInv, TypeOK, PipesOK
<1>2. ~WriteFails
  BY DEF WriteFails
<1>3. CASE UNCHANGED stream
  <2>1. CASE UNCHANGED <<read, framed, copier>>
    BY <1>3, <2>1 DEF Delivered, stream
  <2>2. CASE \E c \in Channels : CopierStep(c) /\ ~CopierWrites(c)
    BY <1>1, <1>3, <2>2 DEF CopierStep, CopierReads, CopierEnds, CopierChecks, Delivered, stream,
       CopiersFit, WritersFit
  <2>3. CASE \E c \in Channels : CopierWrites(c)
    BY <1>1, <1>3, <2>3 DEF CopierWrites, CopierSteps, Delivered, stream, CopiersFit, WritersFit
  <2>4. QED
    BY <1>2, <2>1, <2>2, <2>3, PipesChange DEF FrameStep
<1>4. ASSUME NEW c \in Channels, CopierWrites(c)
      PROVE  Delivered(ch)' = Delivered(ch) /\ UNCHANGED <<wire, err>>
  <2>1. /\ ~err /\ writing' = [by |-> c, at |-> 1, frame |-> Chunks(c, framed[c] + 1, read[c])]
        /\ writing = Nobody /\ UNCHANGED <<copier, read, framed, wire, err>>
    BY <1>4 DEF CopierWrites
  <2>2. ~(writing'.at > 1) /\ writing.by # ch
    BY <2>1, ChannelsAre DEF Nobody
  <2>3. QED
    BY <2>1, <2>2 DEF Delivered
<1>5. CASE HandlerWrites
  <2>1. /\ UNCHANGED <<copier, read, framed, wire, err>> /\ writing = Nobody
        /\ writing' = Nobody \/ writing'.by = Handler
    BY <1>5 DEF HandlerWrites, Leaves, FrameSteps
  <2>2. writing.by # ch /\ writing'.by # ch
    BY <2>1, ChannelsAre DEF Nobody
  <2>3. QED
    BY <2>1, <2>2 DEF Delivered
<1>6. QED
  BY <1>2, <1>3, <1>4, <1>5, StreamChanges DEF FrameStep

LEMMA NextChunksAreFramed ==
  ASSUME StreamInv, ChunksAreFramed, [Next]_vars
  PROVE  ChunksAreFramed'
<1>1. SUFFICES ASSUME ~err', NEW ch \in Channels PROVE InOrder(ch, Delivered(ch))'
  BY DEF ChunksAreFramed
<1>2. CASE ~Writes
  <2>1. ~err /\ Delivered(ch)' = Delivered(ch) /\ wire' = wire
    BY <1>1, <1>2, DeliveredStays
  <2>2. InOrder(ch, Delivered(ch))
    BY <2>1 DEF ChunksAreFramed
  <2>3. QED
    BY <2>1, <2>2 DEF InOrder, Begins
<1>3. CASE Writes
  <2>1. /\ framed \in [Channels -> 0 .. ChunkBound] /\ read \in [Channels -> 0 .. ChunkBound]
        /\ copier \in [Channels -> {"read", "frame", "check", "done", "broken"}]
        /\ CopiersFit /\ WritersFit
    BY DEF StreamInv, TypeOK, PipesOK
  <2>2. /\ writing \in Writing /\ writing.at \in 1 .. 3 /\ writing.by \in Channels \cup {Handler}
        /\ Len(wire) \in Nat /\ Len(wire') = Len(wire) + 1 /\ ~err
        /\ \A i \in 1 .. Len(wire) : wire'[i] = wire[i]
        /\ wire'[Len(wire')].part = Parts[writing.at] /\ wire'[Len(wire')].frame = writing.frame
    BY <1>1, <1>3, WritesAre, PartsAre, LenProperties
       DEF StreamInv, TypeOK, WireOK, Writing
  <2>3. UNCHANGED <<read, framed>> /\ writing # Nobody
    BY <1>3 DEF Writes, FrameSteps
  <2>4. InOrder(ch, Delivered(ch)) /\ Delivered(ch) \in Nat
    BY <2>1, <2>2, ConstantsAre DEF ChunksAreFramed, Delivered
  <2>5. PICK upto \in Nat : upto = Delivered(ch)
    BY <2>4
  <2>6. CASE writing.by = ch
    <3>1. /\ copier[ch] = "frame" /\ writing.frame = Chunks(ch, framed[ch] + 1, read[ch])
          /\ framed[ch] < read[ch] /\ ch # Handler
      BY <2>1, <2>6, ChannelsAre DEF CopiersFit, WritersFit
    <3>2. Delivered(ch)' = read[ch]
      <4>1. CASE writing.at < 3
        <5>1. writing'.by = ch /\ writing'.at > 1
          BY <1>3, <2>2, <2>6, <4>1, WritesAre DEF Writing, StreamInv
        <5>2. QED
          BY <2>3, <5>1 DEF Delivered
      <4>2. CASE writing.at = 3
        <5>1. copier'[ch] = "check"
          BY <1>3, <2>1, <2>6, <3>1, <4>2, PartsAre DEF Writes, Leaves
        <5>2. QED
          BY <2>3, <5>1 DEF Delivered
      <4>3. QED
        BY <2>2, <4>1, <4>2
    <3>3. PICK m \in Nat, n \in Nat : m = framed[ch] /\ n = read[ch]
      BY <2>1, ConstantsAre
    <3>4. CASE writing.at = 1
      <4>1. InOrder(ch, m) /\ wire'[Len(wire')].part = "event" /\ m < n
            /\ wire'[Len(wire')].frame = Chunks(ch, m + 1, n)
        BY <2>2, <2>4, <3>1, <3>3, <3>4, PartsAre DEF Delivered
      <4>2. \A i \in Begins(ch) : wire[i].frame.first \in Int /\ wire[i].frame.last \in Int
        BY FramesHaveChunks DEF StreamInv
      <4>3. InOrder(ch, n)'
        BY <2>2, <4>1, <4>2, NextChunksKeepOrder
      <4>4. QED
        BY <3>2, <3>3, <4>3
    <3>5. CASE writing.at # 1
      <4>1. InOrder(ch, n) /\ wire'[Len(wire')].part # "event"
        BY <2>2, <2>4, <2>6, <3>3, <3>5, PartsAre DEF Delivered
      <4>2. InOrder(ch, n)'
        BY <2>2, <4>1, OtherLinesKeepOrder
      <4>3. QED
        BY <3>2, <3>3, <4>2
    <3>6. QED
      BY <3>4, <3>5
  <2>7. CASE writing.by # ch
    <3>1. wire'[Len(wire')].frame.event # ch
      <4>1. CASE writing.by = Handler
        BY <2>1, <2>2, <4>1, ChannelsAre DEF WritersFit, ErrorFrame, ExitFrame
      <4>2. CASE writing.by \in Channels
        <5>1. PICK c \in Channels : c = writing.by /\ c # ch
          BY <2>7, <4>2
        <5>2. writing.frame = [event |-> c, first |-> framed[c] + 1, last |-> read[c]]
          BY <2>1, <5>1 DEF WritersFit, Chunks
        <5>3. QED
          BY <2>2, <5>1, <5>2
      <4>3. QED
        BY <2>2, <4>1, <4>2
    <3>2. InOrder(ch, upto)'
      BY <2>2, <2>4, <2>5, <3>1, OtherLinesKeepOrder
    <3>3. Delivered(ch)' = Delivered(ch)
      <4>1. writing'.by # ch
        BY <1>3, <2>2, <2>7, WritesAre, ChannelsAre DEF Writing, StreamInv, Nobody
      <4>2. copier'[ch] = copier[ch]
        BY <1>3, <2>1, <2>2, <2>7 DEF Writes, Leaves
      <4>3. QED
        BY <2>3, <2>7, <4>1, <4>2 DEF Delivered
    <3>4. QED
      BY <2>5, <3>2, <3>3
  <2>8. QED
    BY <2>6, <2>7
<1>4. QED
  BY <1>2, <1>3

\* Once Exec has returned, its result and its CLI are what they are.
LEMMA PastStays ==
  ASSUME StreamInv, phase \in Past, [Next]_vars, ~FrameStep, ~HandlerWrites
  PROVE  UNCHANGED <<phase, result, cli>>
<1>1. cli # "running"
  BY DEF StreamInv, CopiersFit
<1> USE <1>1 DEF Past
<1>2. CASE HandlerStep \/ \E ch \in Channels : CopierStep(ch)
  BY <1>2 DEF HandlerStep, WritesEnv, EnvFails, StartFails, CliStarts, RunReturns,
     CopierStep, CopierReads, CopierEnds, CopierWrites, CopierChecks, CopierSteps, asking, docker
<1>3. CASE CommandStep
  BY <1>3 DEF CommandStep, CommandStarts, CommandWrites, CommandEnds, WatchdogTerms,
     WatchdogKills, CommandSteps, asking
<1>4. CASE \/ (\E n \in Asks : Ask(n)) \/ Tick \/ CtxExpires \/ CtxCancelled \/ UNCHANGED vars
           \/ ClientStalls \/ ClientReads \/ ClientLeaves
  BY <1>4 DEF Ask, Accepts, Tick, CtxExpires, CtxCancelled, vars, ClientStalls,
     ClientReads, ClientLeaves, ClientTo, asking, docker
<1>5. CASE CliExits \/ CliFails \/ CliKilled \/ \E ch \in Channels : CliPiped(ch) \/ CliRelays(ch)
  BY <1>5 DEF CliExits, CliFails, CliKilled, CliPiped, CliRelays, CliTo, asking, docker
<1>6. QED
  BY <1>2, <1>3, <1>4, <1>5 DEF Next

\* A command that has ended has written what it will ever write.
LEMMA EndedStays ==
  ASSUME command.state = "ended", [Next]_vars
  PROVE  UNCHANGED <<written, command>>
<1>1. command.state = "ended"
  OBVIOUS
<1>2. CASE HandlerStep \/ FrameStep \/ \E ch \in Channels : CopierStep(ch)
  BY <1>2 DEF HandlerStep, WritesEnv, EnvFails, StartFails, CliStarts, RunReturns, Returns,
     HandlerWrites, FrameSteps, FrameStep, Writes, WriteFails, CopierStep, CopierReads,
     CopierEnds, CopierWrites, CopierChecks, CopierSteps, docker
<1>3. CASE CommandStep
  BY <1>1, <1>3 DEF CommandStep, CommandStarts, CommandWrites, CommandEnds, WatchdogTerms,
     WatchdogKills, NoCommand
<1>4. CASE \/ (\E n \in Asks : Ask(n)) \/ Tick \/ CtxExpires \/ CtxCancelled \/ UNCHANGED vars
           \/ ClientStalls \/ ClientReads \/ ClientLeaves
  BY <1>4 DEF Ask, Accepts, Tick, CtxExpires, CtxCancelled, vars, ClientStalls,
     ClientReads, ClientLeaves, ClientTo, docker
<1>5. CASE CliExits \/ CliFails \/ CliKilled \/ \E ch \in Channels : CliPiped(ch) \/ CliRelays(ch)
  BY <1>5 DEF CliExits, CliFails, CliKilled, CliPiped, CliRelays, CliTo, docker
<1>6. QED
  BY <1>2, <1>3, <1>4, <1>5 DEF Next

LEMMA WrittenStays ==
  ASSUME StreamInv, cli = "exited", [Next]_vars
  PROVE  UNCHANGED <<written, command>>
BY EndedStays DEF StreamInv, CliFits

CloseInv == StreamInv /\ ChunksAreFramed /\ ExitsAreLast

\* After Exec nobody but the handler is in frame.
LEMMA HandlerIsAlone ==
  ASSUME StreamInv, writing # Nobody, phase \in Past
  PROVE  writing.by = Handler /\ phase \in {"error", "exit"}
<1>1. writing \in Writing
  BY DEF StreamInv, TypeOK, WireOK, Writing
<1>2. \A ch \in Channels : copier[ch] # "frame"
  BY DEF StreamInv, CopiersFit
<1>3. writing.by = Handler
  BY <1>1, <1>2 DEF StreamInv, WritersFit, Writing
<1>4. QED
  BY <1>3 DEF StreamInv, WritersFit

\* While the handler writes on a stream without an error, all of the output is on it.
LEMMA OutputIsFramed ==
  ASSUME StreamInv, ChunksAreFramed, ~err, writing.by = Handler, cli = "exited",
         NEW ch \in Channels
  PROVE  InOrder(ch, written[ch])
<1>1. phase \in Past
  BY DEF StreamInv, WritersFit, Past
<1>2. copier[ch] = "done"
  BY <1>1 DEF StreamInv, CopiersFit
<1>3. framed[ch] = relayed[ch] /\ relayed[ch] = written[ch]
  BY <1>2 DEF StreamInv, CopiersFit, CliFits
<1>4. Delivered(ch) = framed[ch]
  BY <1>2, ChannelsAre DEF Delivered
<1>5. QED
  BY <1>3, <1>4 DEF ChunksAreFramed

LEMMA NextExitsAreLast ==
  ASSUME CloseInv, [Next]_vars
  PROVE  ExitsAreLast'
<1>1. SUFFICES ASSUME NEW i \in 1 .. Len(wire'), wire'[i].frame.event = "exit"
               PROVE  ExitIsLast(i)'
  BY DEF ExitsAreLast, ExitIsLast
<1>2. StreamInv /\ ChunksAreFramed /\ ExitsAreLast /\ Len(wire) \in Nat
  BY LenProperties DEF CloseInv, StreamInv, TypeOK, WireOK
<1>3. CASE ~Writes
  <2>1. wire' = wire
    BY <1>3, StreamChanges DEF FrameStep, WriteFails, FrameSteps, HandlerWrites, CopierWrites, stream
  <2>2. ExitIsLast(i) /\ wire[i].frame.event = "exit"
    BY <1>1, <1>2, <2>1 DEF ExitsAreLast
  <2>3. phase = "returned" \/ (phase = "exit" /\ writing.by = Handler)
    BY <2>2 DEF ExitIsLast
  <2>4. /\ UNCHANGED <<result, cli>>
        /\ phase' = "returned" \/ (phase' = "exit" /\ writing'.by = Handler)
    <3>1. CASE WriteFails
      <4>1. writing # Nobody /\ Leaves(writing.by) /\ UNCHANGED <<result, cli>>
        BY <3>1 DEF WriteFails, FrameSteps, docker
      <4>2. writing.by = Handler /\ phase = "exit"
        BY <1>2, <2>3, <4>1, HandlerIsAlone DEF Past
      <4>3. QED
        BY <4>1, <4>2 DEF Leaves
    <3>2. CASE HandlerWrites
      BY <2>3, <3>2 DEF HandlerWrites, Nobody, Handler
    <3>3. CASE ~FrameStep /\ ~HandlerWrites
      <4>1. UNCHANGED <<phase, result, cli>>
        BY <1>2, <2>3, <3>3, PastStays DEF Past
      <4>2. phase = "exit" => UNCHANGED writing
        BY <2>3, <3>3, StreamChanges DEF CopierWrites, Nobody, Handler, stream
      <4>3. QED
        BY <2>3, <4>1, <4>2
    <3>4. QED
      BY <1>3, <3>1, <3>2, <3>3 DEF FrameStep
  <2>5. cli = "exited" => written' = written
    BY <1>2, WrittenStays
  <2>6. QED
    BY <2>1, <2>2, <2>4, <2>5 DEF ExitIsLast, InOrder, Begins
<1>4. CASE Writes
  <2>1. /\ writing \in Writing /\ writing # Nobody /\ Len(wire') = Len(wire) + 1 /\ ~err
        /\ writing.at \in 1 .. 3
        /\ \A j \in 1 .. Len(wire) : wire'[j] = wire[j]
        /\ wire'[Len(wire')].frame = writing.frame
        /\ UNCHANGED <<result, cli, written>>
    BY <1>2, <1>4, WritesAre, PartsAre
       DEF StreamInv, WritersFit, Writes, FrameSteps, docker, Writing
  <2>2. writing.by = Handler /\ phase = "exit"
    <3>1. CASE i = Len(wire')
      <4>1. writing.frame.event = "exit"
        BY <1>1, <2>1, <3>1
      <4>2. \A ch \in Channels : writing.by # ch
        <5>1. ASSUME NEW ch \in Channels, writing.by = ch
              PROVE  writing.frame.event = ch
          <6>1. writing.frame = [event |-> ch, first |-> framed[ch] + 1, last |-> read[ch]]
            BY <1>2, <5>1 DEF StreamInv, WritersFit, Chunks
          <6>2. QED
            BY <6>1
        <5>2. QED
          BY <4>1, <5>1, ChannelsAre
      <4>3. writing.by = Handler
        BY <2>1, <4>2 DEF Writing
      <4>4. QED
        BY <1>2, <4>1, <4>3 DEF StreamInv, WritersFit, ErrorFrame
    <3>2. CASE i # Len(wire')
      <4>1. i \in 1 .. Len(wire) /\ wire[i].frame.event = "exit"
        BY <1>1, <1>2, <2>1, <3>2
      <4>2. phase \in {"exit", "returned"}
        BY <1>2, <4>1 DEF ExitsAreLast, ExitIsLast
      <4>3. QED
        BY <1>2, <2>1, <4>2, HandlerIsAlone DEF Past
    <3>3. QED
      BY <3>1, <3>2
  <2>3. writing.frame = ExitFrame(result.code, result.timedOut)
    BY <1>2, <2>2 DEF StreamInv, WritersFit
  <2>4. \A j \in i .. Len(wire') : wire'[j].frame = ExitFrame(result.code, result.timedOut)
    <3>1. CASE i = Len(wire')
      BY <1>2, <2>1, <2>3, <3>1
    <3>2. CASE i # Len(wire')
      <4>1. i \in 1 .. Len(wire) /\ wire[i].frame.event = "exit"
        BY <1>1, <1>2, <2>1, <3>2
      <4>2. \A j \in i .. Len(wire) : wire[j].frame = ExitFrame(result.code, result.timedOut)
        BY <1>2, <4>1 DEF ExitsAreLast, ExitIsLast
      <4>3. QED
        BY <1>2, <2>1, <2>3, <4>1, <4>2
    <3>3. QED
      BY <3>1, <3>2
  <2>5. phase' = "returned" \/ (phase' = "exit" /\ writing'.by = Handler)
    <3>1. CASE writing.at < 3
      BY <1>2, <1>4, <2>1, <2>2, <3>1, WritesAre, PartsAre DEF StreamInv, Writes, Writing
    <3>2. CASE writing.at = 3
      BY <1>4, <2>2, <3>2, PartsAre DEF Writes, Leaves
    <3>3. QED
      BY <2>1, <3>1, <3>2
  <2>6. ASSUME cli = "exited", NEW ch \in Channels
        PROVE  InOrder(ch, written[ch])'
    <3>1. PICK upto : upto = written[ch]
      OBVIOUS
    <3>2. InOrder(ch, upto)
      BY <1>2, <2>1, <2>2, <2>6, <3>1, OutputIsFramed
    <3>3. wire'[Len(wire')].frame.event # ch
      BY <2>1, <2>3, ChannelsAre DEF ExitFrame
    <3>4. InOrder(ch, upto)'
      BY <1>2, <2>1, <3>2, <3>3, OtherLinesKeepOrder
    <3>5. QED
      BY <2>1, <3>1, <3>4
  <2>7. i \in i .. Len(wire')
    BY <1>2, <2>1
  <2>8. QED
    BY <2>1, <2>4, <2>5, <2>6, <2>7 DEF ExitIsLast
<1>5. QED
  BY <1>3, <1>4

LEMMA InitClose == Init => CloseInv
<1>1. Init => ChunksAreFramed /\ ExitsAreLast
  BY ChannelsAre DEF Init, ChunksAreFramed, ExitsAreLast, Delivered, InOrder, Begins, Nobody
<1>2. QED
  BY <1>1, InitStream DEF CloseInv

LEMMA NextClose == CloseInv /\ [Next]_vars => CloseInv'
BY NextStream, NextChunksAreFramed, NextExitsAreLast DEF CloseInv

\* Nothing follows the exit frame, and before the exit frame of a command whose
\* CLI exited comes all that the command has written, each chunk once and in order
\* (handleExec, sseWriter).
THEOREM ExitFramesCorrect == Spec => []ExitFramesCloseTheStream
<1>1. CloseInv => ExitFramesCloseTheStream
  BY DEF CloseInv, ExitsAreLast, ExitIsLast, ExitFramesCloseTheStream
<1>2. QED
  BY InitClose, NextClose, <1>1, PTL DEF Spec

-----------------------------------------------------------------------------
(* What the exit frame says.                                               *)

TruthInv == StreamInv /\ RequestFits /\ SignsAreTrue /\ ResultIsTrue

\* A timeout that fits with its grace is what it should be.
LEMMA TimeoutFits ==
  ASSUME NEW n \in Int, n * Unit + Grace < HalfRange,
         NEW w, w = IF n > 0 THEN n ELSE DefaultSecs
  PROVE  /\ w \in Nat \ {0} /\ Seconds(w) = w * Unit
         /\ Wrap(w * Unit + Grace) = (w + GraceSecs) * Unit
         /\ w * Unit > 0 /\ (w + GraceSecs) * Unit > 0
<1>1. /\ Unit \in Nat \ {0} /\ GraceSecs \in Nat /\ DefaultSecs \in Nat \ {0}
      /\ HalfRange \in Nat \ {0} /\ Grace = GraceSecs * Unit
  BY ConstantsAre DEF Grace
<1>2. w \in Nat \ {0} /\ w * Unit + GraceSecs * Unit < HalfRange
  BY <1>1, DefaultFits
<1>3. /\ w * Unit \in Nat \ {0} /\ GraceSecs * Unit \in Nat
      /\ (w + GraceSecs) * Unit = w * Unit + GraceSecs * Unit
  BY <1>1, <1>2
<1>4. Wrap(w * Unit) = w * Unit /\ Wrap(w * Unit + Grace) = w * Unit + Grace
  BY <1>1, <1>2, <1>3, DurationIsExact
<1>5. QED
  BY <1>1, <1>2, <1>3, <1>4 DEF Seconds

\* Once asked, the request stays the same, and time goes on.
LEMMA RequestStays ==
  ASSUME StreamInv, [Next]_vars, \A n \in Asks : ~Ask(n)
  PROVE  /\ UNCHANGED <<asked, timeout>> /\ clock \in Nat /\ clock' \in Nat /\ clock' >= clock
         /\ phase' = "idle" <=> phase = "idle"
<1>1. clock \in Nat
  BY ConstantsAre DEF StreamInv, TypeOK, CommandOK
<1>2. CASE FrameStep
  <2>1. UNCHANGED <<asked, timeout, clock>> /\ (UNCHANGED phase \/ Leaves(writing.by))
    BY <1>2 DEF FrameStep, Writes, WriteFails, FrameSteps
  <2>2. Leaves(writing.by) => (phase' = "idle" <=> phase = "idle")
    BY <1>2, LeavesFits
  <2>3. QED
    BY <1>1, <2>1, <2>2
<1>3. CASE HandlerStep \/ \E ch \in Channels : CopierStep(ch)
  BY <1>1, <1>3 DEF HandlerStep, WritesEnv, EnvFails, StartFails, CliStarts, RunReturns, Returns,
     HandlerWrites, Leaves, FrameSteps, CopierStep, CopierReads,
     CopierEnds, CopierWrites, CopierChecks, CopierSteps, asking
<1>4. CASE CommandStep
  BY <1>1, <1>4 DEF CommandStep, CommandStarts, CommandWrites, CommandEnds, WatchdogTerms,
     WatchdogKills, CommandSteps, asking
<1>5. CASE \/ Tick \/ CtxExpires \/ CtxCancelled \/ UNCHANGED vars
           \/ ClientStalls \/ ClientReads \/ ClientLeaves
  BY <1>1, <1>5 DEF Tick, CtxExpires, CtxCancelled, vars, ClientStalls,
     ClientReads, ClientLeaves, ClientTo, asking
<1>6. CASE CliExits \/ CliFails \/ CliKilled \/ \E ch \in Channels : CliPiped(ch) \/ CliRelays(ch)
  BY <1>1, <1>6 DEF CliExits, CliFails, CliKilled, CliPiped, CliRelays, CliTo, asking
<1>7. QED
  BY <1>2, <1>3, <1>4, <1>5, <1>6 DEF Next

LEMMA TimePasses ==
  ASSUME StreamInv, [Next]_vars, \A n \in Asks : ~Ask(n)
  PROVE  /\ WantedPassed => WantedPassed'
         /\ GracePassed => GracePassed'
<1>1. UNCHANGED asked /\ clock \in Nat /\ clock' \in Nat /\ clock' >= clock
  BY RequestStays
<1>2. Wanted \in Int /\ GraceSecs \in Int
  BY ConstantsAre DEF StreamInv, TypeOK, CallOK, Wanted
<1>3. Wanted' = Wanted /\ Fits' = Fits
  BY <1>1 DEF Wanted, Fits
<1>4. QED
  BY <1>1, <1>2, <1>3 DEF WantedPassed, GracePassed

\* What the deadline and the watchdog wait for.
LEMMA DeadlinesAreLate ==
  ASSUME TypeOK, timeout = Seconds(Wanted)
  PROVE  /\ timeout > 0 /\ clock * Unit >= Deadline => GracePassed
         /\ Limit > 0 /\ clock >= started + Limit => WantedPassed
<1>1. SUFFICES ASSUME Fits
               PROVE  /\ timeout > 0 /\ clock * Unit >= Deadline => clock >= Wanted + GraceSecs
                      /\ Limit > 0 /\ clock >= started + Limit => clock >= Wanted
  BY DEF GracePassed, WantedPassed
<1>2. asked \in Int /\ asked * Unit + Grace < HalfRange
  BY <1>1, ConstantsAre DEF Fits
<1>3. /\ Wanted \in Nat \ {0} /\ timeout = Wanted * Unit /\ timeout > 0
      /\ Deadline = (Wanted + GraceSecs) * Unit
  BY <1>2, TimeoutFits DEF Wanted, Deadline
<1>4. clock \in Nat /\ started \in Nat /\ GraceSecs \in Nat
  BY ConstantsAre DEF TypeOK, CommandOK
<1>5. ToSeconds(timeout) = Wanted
  BY <1>3, SecondsAreReadBack
<1>6. Limit = Wanted
  <2>1. ~(timeout <= 0) /\ ~(ToSeconds(timeout) < 1)
    <3>1. timeout \in Int
      BY <1>3, ConstantsAre
    <3>2. QED
      BY <1>3, <1>5, <3>1
  <2>2. QED
    BY <1>5, <2>1 DEF Limit
<1>7. clock * Unit >= (Wanted + GraceSecs) * Unit => clock >= Wanted + GraceSecs
  BY <1>3, <1>4, SecondsAreMonotonic
<1>8. QED
  BY <1>3, <1>4, <1>6, <1>7

LEMMA AskSigns ==
  ASSUME TruthInv, NEW n \in Asks, Ask(n)
  PROVE  RequestFits' /\ SignsAreTrue' /\ ResultIsTrue'
<1>1. /\ phase = "idle" /\ phase' = "env" /\ asked' = n
      /\ timeout' = Seconds(IF n > 0 THEN n ELSE DefaultSecs)
      /\ ctx' = IF timeout' > 0 /\ Wrap(timeout' + Grace) <= 0 THEN "expired" ELSE "live"
      /\ UNCHANGED <<cli, command, termed, err, client, clock>>
  BY DEF Ask, Accepts, docker, stream
<1>2. cli = "none" /\ command = NoCommand /\ termed = 0 /\ (err => client = "gone")
  BY <1>1 DEF TruthInv, RequestFits, SignsAreTrue
<1>3. timeout' = Seconds(Wanted')
  BY <1>1 DEF Wanted
<1>4. Fits' => ctx' # "expired"
  <2>1. SUFFICES ASSUME Fits' PROVE ctx' # "expired"
    OBVIOUS
  <2>2. n \in Int /\ n * Unit + Grace < HalfRange
    BY <1>1, <2>1, ConstantsAre DEF Fits
  <2>3. /\ timeout' = (IF n > 0 THEN n ELSE DefaultSecs) * Unit
        /\ Wrap(timeout' + Grace) = ((IF n > 0 THEN n ELSE DefaultSecs) + GraceSecs) * Unit
        /\ ((IF n > 0 THEN n ELSE DefaultSecs) + GraceSecs) * Unit > 0
    BY <1>1, <2>2, TimeoutFits
  <2>4. ~(Wrap(timeout' + Grace) <= 0)
    <3>1. (IF n > 0 THEN n ELSE DefaultSecs) + GraceSecs \in Int /\ Unit \in Int
      BY <2>2, ConstantsAre
    <3>2. QED
      BY <2>3, <3>1
  <2>5. QED
    BY <1>1, <2>4
<1>5. ctx' \in {"expired", "live"}
  BY <1>1
<1>6. SignsAreTrue'
  BY <1>1, <1>2, <1>4, <1>5 DEF SignsAreTrue, GracePassed, NoCommand, TruthInv
<1>7. QED
  BY <1>1, <1>3, <1>6 DEF RequestFits, ResultIsTrue, Past

LEMMA NextRequestFits ==
  ASSUME TruthInv, [Next]_vars, \A n \in Asks : ~Ask(n)
  PROVE  RequestFits'
<1>1. /\ UNCHANGED <<asked, timeout>> /\ (phase' = "idle" <=> phase = "idle")
      /\ RequestFits
  BY RequestStays DEF TruthInv
<1>2. CASE phase # "idle"
  BY <1>1, <1>2 DEF RequestFits, Wanted
<1>3. CASE phase = "idle"
  <2>1. SUFFICES ASSUME ctx # "expired", cli = "none"
                 PROVE  ctx' # "expired" /\ cli' = "none"
    BY <1>1, <1>3 DEF RequestFits
  <2>2. CASE FrameStep \/ HandlerStep \/ \E ch \in Channels : CopierStep(ch)
    BY <1>3, <2>1, <2>2 DEF HandlerStep, WritesEnv, EnvFails, StartFails, CliStarts, RunReturns,
       Returns, HandlerWrites, FrameStep, Writes, WriteFails, FrameSteps, CopierStep, CopierReads,
       CopierEnds, CopierWrites, CopierChecks, CopierSteps, docker
  <2>3. CASE CommandStep
    BY <2>1, <2>3 DEF CommandStep, CommandStarts, CommandWrites, CommandEnds, WatchdogTerms,
       WatchdogKills, CommandSteps
  <2>4. CASE \/ Tick \/ CtxExpires \/ CtxCancelled \/ UNCHANGED vars
             \/ ClientStalls \/ ClientReads \/ ClientLeaves
    BY <1>3, <2>1, <2>4 DEF Tick, CtxExpires, CtxCancelled, vars, ClientStalls,
       ClientReads, ClientLeaves, ClientTo, docker
  <2>5. CASE CliExits \/ CliFails \/ CliKilled \/ \E ch \in Channels : CliPiped(ch) \/ CliRelays(ch)
    BY <2>1, <2>5 DEF CliExits, CliFails, CliKilled, CliPiped, CliRelays, CliTo, docker
  <2>6. QED
    BY <2>2, <2>3, <2>4, <2>5 DEF Next
<1>4. QED
  BY <1>2, <1>3

LEMMA NextSignsAreTrue ==
  ASSUME TruthInv, [Next]_vars, \A n \in Asks : ~Ask(n)
  PROVE  SignsAreTrue'
<1>1. /\ WantedPassed => WantedPassed'
      /\ GracePassed => GracePassed'
      /\ SignsAreTrue
  BY TimePasses DEF TruthInv
<1>2. /\ phase \in {"idle", "env"} => cli = "none"
      /\ command \in [state : {"none", "running", "ended"},
                      status : Statuses \cup {0, 124, 137}, by : {"none", "other", "watchdog"}]
      /\ \A ch \in Channels : copier[ch] = "broken" => err
  BY DEF TruthInv, StreamInv, CopiersFit, TypeOK, CommandOK
<1> USE <1>1 DEF SignsAreTrue
<1>3. CASE UNCHANGED <<ctx, cli, command, termed, err, client>>
  BY <1>3
<1>4. CASE CtxExpires
  <2>1. GracePassed
    BY <1>4, DeadlinesAreLate DEF CtxExpires, TruthInv, RequestFits, StreamInv
  <2>2. ctx' = "expired" /\ UNCHANGED <<cli, command, termed, err, client>>
    BY <1>4 DEF CtxExpires, docker, stream
  <2>3. QED
    BY <2>1, <2>2
<1>5. CASE CtxCancelled
  BY <1>5 DEF CtxCancelled, docker, stream
<1>6. CASE CommandStarts
  <2>1. /\ command' = [NoCommand EXCEPT !.state = "running"] /\ cli # "none"
        /\ UNCHANGED <<ctx, cli, termed, err, client>>
    BY <1>6 DEF CommandStarts, CommandSteps, stream
  <2>2. command'.state = "running" /\ command'.by = "none"
    BY <2>1 DEF NoCommand
  <2>3. QED
    BY <2>1, <2>2
<1>7. ASSUME NEW status \in Statuses, CommandEnds(status)
      PROVE  SignsAreTrue'
  <2>1. /\ command'.by = IF termed = 0 THEN "other" ELSE "watchdog"
        /\ command.state = "running"
        /\ UNCHANGED <<ctx, cli, termed, err, client>>
    BY <1>7 DEF CommandEnds, CommandSteps, stream
  <2>2. cli # "none"
    BY <2>1 DEF NoCommand
  <2>3. QED
    BY <2>1, <2>2
<1>8. CASE WatchdogTerms
  <2>1. /\ termed = 0 /\ Limit > 0 /\ clock >= started + Limit /\ command.state = "running"
        /\ UNCHANGED <<ctx, cli, command, err, client>>
    BY <1>8 DEF WatchdogTerms, CommandSteps, stream
  <2>2. cli # "none"
    BY <2>1 DEF NoCommand
  <2>3. WantedPassed
    BY <1>2, <2>1, <2>2, DeadlinesAreLate DEF TruthInv, RequestFits, StreamInv
  <2>4. QED
    BY <2>1, <2>2, <2>3
<1>9. CASE WatchdogKills
  <2>1. /\ command'.by = "watchdog" /\ termed # 0 /\ command.state = "running"
        /\ UNCHANGED <<ctx, cli, termed, err, client>>
    BY <1>9 DEF WatchdogKills, CommandSteps, stream
  <2>2. cli # "none"
    BY <2>1 DEF NoCommand
  <2>3. QED
    BY <2>1, <2>2
<1>10. CASE CliStarts \/ CliExits \/ CliFails \/ CliKilled \/ \E ch \in Channels : CliPiped(ch)
  <2>1. UNCHANGED <<ctx, command, termed, err, client>>
    BY <1>10 DEF CliStarts, CliExits, CliFails, CliKilled, CliPiped, CliTo, stream
  <2>2. /\ cli' # "none" /\ (cli' = "killed" => ctx # "live")
        /\ cli' = "piped" => err
    BY <1>2, <1>10 DEF CliStarts, CliExits, CliFails, CliKilled, CliPiped, CliTo
  <2>3. QED
    BY <2>1, <2>2
<1>11. CASE WriteFails
  BY <1>11 DEF WriteFails, FrameSteps, docker
<1>12. CASE ClientStalls \/ ClientReads \/ ClientLeaves
  BY <1>12 DEF ClientStalls, ClientReads, ClientLeaves, ClientTo, docker, stream
<1> HIDE DEF SignsAreTrue
<1>13. CASE HandlerStep
  BY <1>3, <1>10, <1>13 DEF HandlerStep, WritesEnv, EnvFails, StartFails, RunReturns, Returns,
     HandlerWrites, FrameSteps, docker, stream
<1>14. CASE Writes \/ \E ch \in Channels : CopierStep(ch)
  BY <1>3, <1>14 DEF Writes, FrameSteps, CopierStep, CopierReads,
     CopierEnds, CopierWrites, CopierChecks, CopierSteps, docker, stream
<1>15. CASE \/ Tick \/ UNCHANGED vars \/ (\E ch \in Channels : CliRelays(ch))
            \/ \E ch \in Channels : CommandWrites(ch)
  BY <1>3, <1>15 DEF Tick, vars, CliRelays, CommandWrites, CommandSteps, docker, stream
<1>16. QED
  BY <1>4, <1>5, <1>6, <1>7, <1>8, <1>9, <1>10, <1>11, <1>12, <1>13, <1>14, <1>15
     DEF Next, CommandStep, FrameStep

LEMMA GoneStays ==
  ASSUME client = "gone", [Next]_vars
  PROVE  client' = "gone"
<1>1. CASE HandlerStep \/ FrameStep \/ \E ch \in Channels : CopierStep(ch)
  BY <1>1 DEF HandlerStep, WritesEnv, EnvFails, StartFails, CliStarts, RunReturns, Returns,
     HandlerWrites, FrameSteps, FrameStep, Writes, WriteFails, CopierStep, CopierReads,
     CopierEnds, CopierWrites, CopierChecks, CopierSteps
<1>2. CASE CommandStep
  BY <1>2 DEF CommandStep, CommandStarts, CommandWrites, CommandEnds, WatchdogTerms,
     WatchdogKills, CommandSteps
<1>3. CASE \/ (\E n \in Asks : Ask(n)) \/ Tick \/ CtxExpires \/ CtxCancelled \/ UNCHANGED vars
           \/ ClientStalls \/ ClientReads \/ ClientLeaves
  BY <1>3 DEF Ask, Accepts, Tick, CtxExpires, CtxCancelled, vars, ClientStalls,
     ClientReads, ClientLeaves, ClientTo
<1>4. CASE CliExits \/ CliFails \/ CliKilled \/ \E ch \in Channels : CliPiped(ch) \/ CliRelays(ch)
  BY <1>4 DEF CliExits, CliFails, CliKilled, CliPiped, CliRelays, CliTo
<1>5. QED
  BY <1>1, <1>2, <1>3, <1>4 DEF Next

\* Exec's result is true when it returns.
LEMMA ReturnsTheTruth ==
  ASSUME TruthInv, EnvFails \/ StartFails \/ RunReturns
  PROVE  ResultIsTrue'
<1>1. /\ UNCHANGED <<cli, command, client>> /\ GracePassed' = GracePassed
      /\ SignsAreTrue /\ CopiersFit /\ CliFits
      /\ ctx \in {"live", "expired", "cancelled"}
      /\ cli \in {"none", "running", "exited", "failed", "killed", "piped"}
  BY DEF TruthInv, StreamInv, TypeOK, CallOK, CommandOK, EnvFails, StartFails, RunReturns,
     Returns, docker, GracePassed, Fits, Wanted
<1> USE DEF ResultIsTrue
<1>2. CASE EnvFails
  BY <1>1, <1>2 DEF EnvFails, Returns, CopiersFit
<1>3. CASE StartFails
  <2>1. /\ cli = "none" /\ result'.code = -1 /\ result'.timedOut = (ctx = "expired")
        /\ ctx = "expired" => GracePassed
    BY <1>1, <1>3 DEF StartFails, Returns, SignsAreTrue
  <2>2. QED
    BY <1>1, <2>1
<1>4. CASE RunReturns
  <2>1. result' = RunResult /\ cli \in {"exited", "failed", "killed", "piped"}
    BY <1>1, <1>4 DEF RunReturns, Returns, CliGone
  <2>2. CASE ctx = "expired"
    <3>1. result' = [code |-> -1, timedOut |-> TRUE, err |-> FALSE]
      BY <2>1, <2>2 DEF RunResult, TimedOut
    <3>2. result'.code = -1 /\ result'.timedOut
      BY <3>1
    <3>3. QED
      BY <1>1, <2>2, <3>2 DEF SignsAreTrue
  <2>3. CASE /\ ctx # "expired" /\ cli = "exited" /\ command.status = 0
             /\ "broken" \in Range(copier)
    <3>1. \E ch \in Channels : copier[ch] = "broken"
      BY <2>3 DEF Range, TruthInv, StreamInv, TypeOK, PipesOK
    <3>2. client = "gone"
      BY <1>1, <3>1 DEF CopiersFit, SignsAreTrue
    <3>3. result' = [code |-> -1, timedOut |-> FALSE, err |-> TRUE]
      BY <2>1, <2>3 DEF RunResult, CliResult
    <3>4. result'.code = -1 /\ ~result'.timedOut
      BY <3>3
    <3>5. QED
      BY <1>1, <3>2, <3>4
  <2>4. CASE /\ ctx # "expired" /\ cli = "exited"
             /\ ~(command.status = 0 /\ "broken" \in Range(copier))
    <3>1. result' = Classify(command.status)
      BY <2>1, <2>4 DEF RunResult, CliResult
    <3>2. result'.code = command.status /\ (result'.timedOut => command.status \in {124, 137})
      BY <3>1 DEF Classify
    <3>3. QED
      BY <1>1, <2>4, <3>2 DEF CliFits
  <2>5. CASE ctx # "expired" /\ cli = "failed"
    <3>1. result' = Classify(1)
      BY <2>1, <2>5 DEF RunResult, CliResult
    <3>2. result'.code = 1 /\ ~result'.timedOut
      <4>1. ~(timeout > 0 /\ 1 \in {124, 137})
        OBVIOUS
      <4>2. result'.code = 1 /\ result'.timedOut = (timeout > 0 /\ 1 \in {124, 137})
        BY <3>1 DEF Classify
      <4>3. QED
        BY <4>1, <4>2
    <3>3. QED
      BY <1>1, <2>5, <3>2
  <2>6. CASE ctx # "expired" /\ cli \in {"killed", "piped"}
    <3>1. client = "gone"
      BY <1>1, <2>6 DEF SignsAreTrue
    <3>2. result'.code = -1 /\ ~result'.timedOut
      BY <2>1, <2>6 DEF RunResult, CliResult
    <3>3. QED
      BY <1>1, <3>1, <3>2
  <2>7. QED
    BY <2>1, <2>2, <2>3, <2>4, <2>5, <2>6
<1>5. QED
  BY <1>2, <1>3, <1>4

\* Who is past Exec has been there, unless Exec returns.
LEMMA PastWas ==
  ASSUME StreamInv, [Next]_vars, ~EnvFails, ~StartFails, ~RunReturns, phase' \in Past
  PROVE  phase \in Past /\ UNCHANGED <<result, cli>>
<1>1. CASE FrameStep
  <2>1. UNCHANGED <<result, cli>> /\ (UNCHANGED phase \/ Leaves(writing.by))
    BY <1>1 DEF FrameStep, Writes, WriteFails, FrameSteps, docker
  <2>2. QED
    BY <1>1, <2>1, LeavesFits DEF Past
<1>2. CASE HandlerWrites
  BY <1>2 DEF HandlerWrites, FrameSteps, Past, docker
<1>3. CASE ~FrameStep /\ ~HandlerWrites
  <2>1. phase \in Past
    <3>1. CASE HandlerStep \/ \E ch \in Channels : CopierStep(ch)
      BY <1>3, <3>1 DEF HandlerStep, WritesEnv, CliStarts, CopierStep, CopierReads, CopierEnds,
         CopierWrites, CopierChecks, CopierSteps, asking, Past
    <3>2. CASE CommandStep
      BY <3>2 DEF CommandStep, CommandStarts, CommandWrites, CommandEnds, WatchdogTerms,
         WatchdogKills, CommandSteps, asking
    <3>3. CASE \/ (\E n \in Asks : Ask(n)) \/ Tick \/ CtxExpires \/ CtxCancelled \/ UNCHANGED vars
               \/ ClientStalls \/ ClientReads \/ ClientLeaves
      BY <3>3 DEF Ask, Accepts, Tick, CtxExpires, CtxCancelled, vars, ClientStalls,
         ClientReads, ClientLeaves, ClientTo, asking, Past
    <3>4. CASE CliExits \/ CliFails \/ CliKilled \/ \E ch \in Channels : CliPiped(ch) \/ CliRelays(ch)
      BY <3>4 DEF CliExits, CliFails, CliKilled, CliPiped, CliRelays, CliTo, asking
    <3>5. QED
      BY <1>3, <3>1, <3>2, <3>3, <3>4 DEF Next
  <2>2. QED
    BY <1>3, <2>1, PastStays
<1>4. QED
  BY <1>1, <1>2, <1>3

LEMMA NextResultIsTrue ==
  ASSUME TruthInv, [Next]_vars, \A n \in Asks : ~Ask(n)
  PROVE  ResultIsTrue'
<1>1. CASE EnvFails \/ StartFails \/ RunReturns
  BY <1>1, ReturnsTheTruth
<1>2. CASE ~EnvFails /\ ~StartFails /\ ~RunReturns
  <2>1. SUFFICES ASSUME phase' \in Past
                 PROVE  ResultIsTrue'
    BY DEF ResultIsTrue
  <2>2. phase \in Past /\ UNCHANGED <<result, cli>>
    BY <1>2, <2>1, PastWas DEF TruthInv
  <2>3. /\ command.state = "ended" => UNCHANGED command
        /\ client = "gone" => client' = "gone"
        /\ GracePassed => GracePassed'
    BY EndedStays, GoneStays, TimePasses DEF TruthInv
  <2>4. ResultIsTrue
    BY DEF TruthInv
  <2>5. QED
    BY <2>2, <2>3, <2>4 DEF ResultIsTrue
<1>3. QED
  BY <1>1, <1>2

LEMMA InitTruth == Init => TruthInv
<1>1. Init => RequestFits /\ SignsAreTrue /\ ResultIsTrue
  BY DEF Init, RequestFits, SignsAreTrue, ResultIsTrue, NoCommand, Past
<1>2. QED
  BY <1>1, InitStream DEF TruthInv

LEMMA NextTruth == TruthInv /\ [Next]_vars => TruthInv'
<1>1. ASSUME TruthInv, NEW n \in Asks, Ask(n)
      PROVE  RequestFits' /\ SignsAreTrue' /\ ResultIsTrue'
  BY <1>1, AskSigns
<1>2. ASSUME TruthInv, [Next]_vars, \A n \in Asks : ~Ask(n)
      PROVE  RequestFits' /\ SignsAreTrue' /\ ResultIsTrue'
  BY <1>2, NextRequestFits, NextSignsAreTrue, NextResultIsTrue
<1>3. QED
  BY <1>1, <1>2, NextStream DEF TruthInv

\* An exit frame on the wire is the one that Exec's result makes.
LEMMA ExitFramesTell ==
  ASSUME CloseInv, NEW timedOut \in BOOLEAN, Ended(ExitFrame(result.code, timedOut))
  PROVE  phase \in Past /\ result.timedOut = timedOut
<1>1. PICK i \in 1 .. Len(wire) :
        wire[i] = [part |-> "end", frame |-> ExitFrame(result.code, timedOut)]
  BY DEF Ended
<1>2. wire[i].frame = ExitFrame(result.code, timedOut)
  BY <1>1
<1>3. wire[i].frame.event = "exit"
  BY <1>2 DEF ExitFrame
<1>4. /\ wire[i].frame = ExitFrame(result.code, result.timedOut)
      /\ phase \in {"exit", "returned"}
  BY <1>3 DEF CloseInv, ExitsAreLast, ExitIsLast
<1>5. ExitFrame(result.code, timedOut).timedOut = ExitFrame(result.code, result.timedOut).timedOut
  BY <1>2, <1>4
<1>6. QED
  BY <1>4, <1>5 DEF ExitFrame, Past

\* What a delivered exit frame says is so: a status is the one the command ended
\* with, a 1 is a CLI that failed, and a -1 is an exec that was given up, for its
\* deadline or for a client that left (DockerRuntime.Exec, classifyExit).
THEOREM AnswersCorrect == Spec => []AnswersAreTrue
<1>1. CloseInv /\ TruthInv => AnswersAreTrue
  <2>1. SUFFICES ASSUME CloseInv, TruthInv, NEW timedOut \in BOOLEAN,
                        Ended(ExitFrame(result.code, timedOut))
                 PROVE  \/ command.state = "ended" /\ result.code = command.status
                        \/ cli = "failed" /\ result.code = 1 /\ ~timedOut
                        \/ result.code = -1 /\ timedOut /\ (Fits => clock >= Wanted + GraceSecs)
                        \/ result.code = -1 /\ ~timedOut /\ (client = "gone" \/ cli = "none")
    BY DEF AnswersAreTrue
  <2>2. phase \in Past /\ result.timedOut = timedOut
    BY <2>1, ExitFramesTell
  <2>3. QED
    BY <2>1, <2>2 DEF TruthInv, ResultIsTrue, GracePassed
<1>2. QED
  BY InitClose, NextClose, InitTruth, NextTruth, <1>1, PTL DEF Spec

\* An exit frame says timedOut only of a command whose time has passed, of one
\* that somebody else's signal ended, or of a request for more than a Duration
\* holds (classifyExit, handleExec).
THEOREM TimeoutsCorrect == Spec => []TimeoutsAreLate
<1>1. CloseInv /\ TruthInv => TimeoutsAreLate
  <2>1. SUFFICES ASSUME CloseInv, TruthInv, Ended(ExitFrame(result.code, TRUE))
                 PROVE  \/ clock >= Wanted
                        \/ command.by = "other" /\ command.status \in {124, 137}
                        \/ ~Fits
    BY DEF TimeoutsAreLate
  <2>2. phase \in Past /\ result.timedOut
    BY <2>1, ExitFramesTell
  <2>3. GracePassed => WantedPassed
    BY <2>1, ConstantsAre DEF TruthInv, StreamInv, TypeOK, CallOK, CommandOK, Wanted,
       GracePassed, WantedPassed
  <2>4. CASE command.state = "ended" /\ command.status \in {124, 137}
    BY <2>1, <2>4 DEF TruthInv, SignsAreTrue, WantedPassed
  <2>5. CASE GracePassed
    BY <2>3, <2>5 DEF WantedPassed
  <2>6. QED
    BY <2>1, <2>2, <2>4, <2>5 DEF TruthInv, ResultIsTrue
<1>2. QED
  BY InitClose, NextClose, InitTruth, NextTruth, <1>1, PTL DEF Spec
=============================================================================

-------------------------- MODULE SnapshotsProofs --------------------------
(***************************************************************************)
(* Snapshots and restores for every set of runs, images and files, and any *)
(* number of failing docker calls, disconnects and crashes.                *)
(*                                                                         *)
(* What a finished snapshot holds was gathered by several docker calls     *)
(* while the run went on: WorkIsCarried says what each of them has already *)
(* saved of the files the run has kept so far.  That a restore is exact    *)
(* needs that an image does not change once it can be a base               *)
(* (BasesAreMade).                                                         *)
(***************************************************************************)
EXTENDS Snapshots, TLAPS

\* The calls that will not commit to their image any more.
Settled == {"rmseed", "rmstage", "failseed", "failstage", "done", "failed", "lost"}

\* A volume's directory is made with the run's container.
UnbornRunsAreBare == \A r \in Runs : run[r] = "unborn" => r \notin mounted

\* What is the base of a run is committed to no more.
BasesAreMade ==
  \A r \in Runs : base[r] # Plain => call[base[r]] \in Settled

\* What a restore has brought into the run so far.
RestoreIsUnderWay(r) ==
  /\ run[r] \in {"seed", "copy", "unseed"} =>
       warm[r] /\ base[r] # Plain /\ layer[r] = content[base[r]]
  /\ run[r] \in {"seed", "copy"} => volume[r] = {}
  /\ run[r] = "unseed" => volume[r] = content[base[r]] \cap WorkFiles

RestoresAreUnderWay == \A r \in Runs : RestoreIsUnderWay(r)

\* What a call has not made yet, or has removed again.
ForgetsNothing(i) ==
  /\ call[i] \in {"unused", "plain", "stage", "create"} => i \notin tmps \cup seeds
  /\ call[i] \in {"unused", "plain", "stage"} => i \notin stages
  /\ i \in images => call[i] \in Settled
  /\ call[i] \in {"failseed", "failstage", "failed"} => i \in dirty \/ i \notin images
  /\ call[i] \in {"rmstage", "failstage"} => i \in dirty \/ i \notin seeds
  /\ call[i] \in Ended => i \notin tmps /\ (i \in dirty \/ i \notin seeds \cup stages)

NothingIsForgotten == \A i \in Images : ForgetsNothing(i)

\* A call is made on a run that was registered, and knows whether it has a
\* volume; Reap marks the calls whose volume it takes away.
CallsHaveRuns ==
  /\ \A i \in Images : Calling(i) =>
       /\ of[i] \in Runs
       /\ run[of[i]] \in {"tracked", "releasing", "removing", "gone"}
       /\ call[i] = "plain" <=> ~warm[of[i]]
       /\ warm[of[i]] /\ run[of[i]] \in {"releasing", "removing"} => i \in reaped
  /\ \A r \in Runs : run[r] = "releasing" => warm[r]

\* The files that the run had all the while are still there, and those that are
\* there were there at some moment.
CallSeesTheRun(i) ==
  Calling(i) /\ Container(of[i]) =>
    /\ View(of[i]) \subseteq seen[i]
    /\ i \in reaped \/ kept[i] \subseteq View(of[i])

\* What each docker call of a snapshot has saved.
WorkIsSaved(i) ==
  /\ call[i] \in {"unused", "plain", "stage", "create"} => tmpTree[i] = {}
  /\ call[i] \in {"create", "copyout", "copyin"} =>
       i \in reaped \/ kept[i] \ WorkFiles \subseteq stageTree[i]
  /\ call[i] \in {"copyout", "copyin"} =>
       /\ seedTree[i] = stageTree[i]
       /\ i \in reaped \/ kept[i] \cap (WorkFiles \ left[i]) \subseteq tmpTree[i]
       /\ tmpTree[i] \subseteq seen[i]
  /\ call[i] = "copyin" => left[i] = {}
  /\ call[i] = "commit" =>
       /\ i \in reaped \/ kept[i] \subseteq seedTree[i]
       /\ seedTree[i] \subseteq seen[i] \cup stageTree[i]
  /\ call[i] \in {"rmseed", "rmstage", "done"} =>
       /\ i \in reaped \/ kept[i] \subseteq content[i]
       /\ content[i] \subseteq seen[i] \cup stageTree[i]

WorkIsCarried == \A i \in Images : CallSeesTheRun(i) /\ WorkIsSaved(i)

CallInv == TypeOK /\ UnbornRunsAreBare /\ CallsHaveRuns

-----------------------------------------------------------------------------
(* Types, and the run of a call.                                           *)

LEMMA InitCalls == Init => CallInv
BY FilesAreFiles, NothingIsNothing, BoundIsNumber
   DEF Init, CallInv, TypeOK, UnbornRunsAreBare, CallsHaveRuns, RunPhases, CallPhases,
       Calling, Ended

LEMMA RestoreTypeOK ==
  ASSUME CallInv, NEW r \in Runs, RestoreStep(r)
  PROVE  TypeOK'
<1> USE FilesAreFiles, NothingIsNothing, BoundIsNumber
    DEF CallInv, TypeOK, UnbornRunsAreBare, RunPhases, CallsAside, trees, history, RunGoes, Fault
<1>1. ASSUME NEW w \in BOOLEAN, NEW b \in Images \cup {Plain}, CreateBoots(r, w, b)
      PROVE  TypeOK'
  BY <1>1 DEF CreateBoots, Boots, Made
<1>2. CASE SeedCreates(r)
  BY <1>2 DEF SeedCreates
<1>3. CASE SeedCopies(r)
  BY <1>3 DEF SeedCopies
<1>4. CASE SeedEnds(r)
  BY <1>4 DEF SeedEnds
<1>5. CASE SeedFails(r)
  BY <1>5 DEF SeedFails, Dies
<1>6. QED
  BY <1>1, <1>2, <1>3, <1>4, <1>5 DEF RestoreStep

LEMMA RunTypeOK ==
  ASSUME CallInv, NEW r \in Runs, RunStep(r)
  PROVE  TypeOK'
<1> USE FilesAreFiles, NothingIsNothing, BoundIsNumber
    DEF CallInv, TypeOK, RunPhases, CallsAside, trees, things, history, RunGoes
<1>1. ASSUME NEW f \in Files, ExecWrites(r, f)
      PROVE  TypeOK'
  <2>1. /\ layer' \in [Runs -> SUBSET Files] /\ volume' \in [Runs -> SUBSET WorkFiles]
        /\ View(r)' \subseteq Files
    BY <1>1 DEF ExecWrites, View
  <2>2. seen' \in [Images -> SUBSET Files] /\ kept' \in [Images -> SUBSET Files]
    BY <1>1, <2>1 DEF ExecWrites
  <2>3. QED
    BY <1>1, <2>1, <2>2 DEF ExecWrites
<1>2. CASE Destroy(r)
  BY <1>2 DEF Destroy, Dies
<1>3. CASE ReapUntracks(r)
  BY <1>3 DEF ReapUntracks, CallsOn
<1>4. ASSUME NEW f \in WorkFiles, ReapUnlinks(r, f)
      PROVE  TypeOK'
  BY <1>4 DEF ReapUnlinks
<1>5. CASE ReapReleases(r)
  BY <1>5 DEF ReapReleases
<1>6. CASE ReapRemoves(r)
  BY <1>6 DEF ReapRemoves, Dies
<1>7. QED
  BY <1>1, <1>2, <1>3, <1>4, <1>5, <1>6 DEF RunStep

LEMMA SnapshotTypeOK ==
  ASSUME CallInv, NEW i \in Images, SnapshotStep(i) \/ DeleteSnapshot(i)
  PROVE  TypeOK'
<1> USE FilesAreFiles, NothingIsNothing, BoundIsNumber
    DEF CallInv, TypeOK, CallPhases, runs, SnapSame, trees, things, history,
        CallGoes, Refused, Missing, Lingers, Fault
<1>1. ASSUME NEW r \in Runs, SnapshotBegins(i, r)
      PROVE  TypeOK'
  BY <1>1 DEF SnapshotBegins, Begins, View
<1>2. CASE Disconnect(i)
  BY <1>2 DEF Disconnect
<1>3. CASE CommitsPlain(i)
  BY <1>3 DEF CommitsPlain, CallsHaveRuns, Calling, Ended
<1>4. CASE Stages(i)
  BY <1>4 DEF Stages, CallsHaveRuns, Calling, Ended
<1>5. CASE CreatesSeed(i)
  BY <1>5 DEF CreatesSeed
<1>6. ASSUME NEW f \in WorkFiles, CopiesOut(i, f)
      PROVE  TypeOK'
  BY <1>6 DEF CopiesOut
<1>7. CASE CopyOutFails(i)
  BY <1>7 DEF CopyOutFails
<1>8. CASE CopiesIn(i)
  BY <1>8 DEF CopiesIn
<1>9. CASE CommitsSeed(i)
  BY <1>9 DEF CommitsSeed
<1>10. CASE RemovesSeed(i)
  BY <1>10 DEF RemovesSeed
<1>11. CASE RemovesStage(i)
  BY <1>11 DEF RemovesStage
<1>12. CASE DeleteSnapshot(i)
  BY <1>12 DEF DeleteSnapshot
<1>13. QED
  BY <1>1, <1>2, <1>3, <1>4, <1>5, <1>6, <1>7, <1>8, <1>9, <1>10, <1>11, <1>12
     DEF SnapshotStep

LEMMA NextTypeOK ==
  ASSUME CallInv, [Next]_vars
  PROVE  TypeOK'
<1>1. CASE Crash
  BY <1>1, BoundIsNumber
     DEF Crash, Fault, CallInv, TypeOK, RunPhases, CallPhases, trees, things, history
<1>2. CASE UNCHANGED vars
  BY <1>2 DEF vars, runs, trees, things, history, CallInv, TypeOK
<1>3. QED
  BY <1>1, <1>2, RestoreTypeOK, RunTypeOK, SnapshotTypeOK DEF Next

LEMMA NextUnbornRunsAreBare ==
  ASSUME CallInv, [Next]_vars
  PROVE  UnbornRunsAreBare'
<1> USE DEF CallInv, TypeOK, UnbornRunsAreBare, RunGoes, Dies
<1>1. ASSUME NEW r \in Runs, RestoreStep(r) \/ RunStep(r)
      PROVE  UnbornRunsAreBare'
  BY <1>1 DEF RestoreStep, CreateBoots, Boots, Made, SeedCreates, SeedCopies, SeedEnds,
     SeedFails, RunStep, ExecWrites, Destroy, ReapUntracks, ReapUnlinks, ReapReleases,
     ReapRemoves
<1>2. ASSUME NEW i \in Images, SnapshotStep(i) \/ DeleteSnapshot(i)
      PROVE  UNCHANGED runs
  BY <1>2 DEF SnapshotStep, SnapshotBegins, Begins, Disconnect, CommitsPlain, Stages,
     CreatesSeed, CopiesOut, CopyOutFails, CopiesIn, CommitsSeed, RemovesSeed,
     RemovesStage, DeleteSnapshot, SnapSame, CallGoes, runs
<1>3. CASE UNCHANGED runs
  BY <1>3 DEF runs
<1>4. CASE Crash
  BY <1>4 DEF Crash
<1>5. QED
  BY <1>1, <1>2, <1>3, <1>4 DEF Next, vars

\* Where a call and its run go in the steps of the run.
LEMMA RunCallsHaveRuns ==
  ASSUME CallInv, NEW r \in Runs, RestoreStep(r) \/ RunStep(r)
  PROVE  CallsHaveRuns'
<1> USE DEF CallInv, TypeOK, CallsHaveRuns, RunGoes, CallsAside, Dies, Calling, Ended
<1>1. ASSUME NEW w \in BOOLEAN, NEW b \in Images \cup {Plain}, CreateBoots(r, w, b)
      PROVE  CallsHaveRuns'
  BY <1>1 DEF CreateBoots, Boots, history
<1>2. CASE ReapUntracks(r)
  BY <1>2 DEF ReapUntracks, CallsOn
<1>3. CASE SeedCreates(r) \/ SeedCopies(r) \/ SeedEnds(r) \/ SeedFails(r)
  BY <1>3 DEF SeedCreates, SeedCopies, SeedEnds, SeedFails, history
<1>4. ASSUME NEW f \in Files, ExecWrites(r, f)
      PROVE  CallsHaveRuns'
  BY <1>4 DEF ExecWrites
<1>5. ASSUME NEW f \in WorkFiles, ReapUnlinks(r, f)
      PROVE  CallsHaveRuns'
  BY <1>5 DEF ReapUnlinks, history
<1>6. CASE Destroy(r) \/ ReapReleases(r) \/ ReapRemoves(r)
  BY <1>6 DEF Destroy, ReapReleases, ReapRemoves, history
<1> HIDE DEF CallInv, TypeOK, CallsHaveRuns
<1>7. QED
  BY <1>1, <1>2, <1>3, <1>4, <1>5, <1>6 DEF RestoreStep, RunStep

LEMMA NextCallsHaveRuns ==
  ASSUME CallInv, [Next]_vars
  PROVE  CallsHaveRuns'
<1> USE DEF CallInv, TypeOK, CallsHaveRuns, Calling, Ended, runs, history
<1>1. ASSUME NEW i \in Images, NEW r \in Runs, SnapshotBegins(i, r)
      PROVE  CallsHaveRuns'
  BY <1>1 DEF SnapshotBegins, Begins, CallGoes
<1>2. ASSUME NEW i \in Images, SnapshotStep(i) \/ DeleteSnapshot(i),
             \A r \in Runs : ~SnapshotBegins(i, r)
      PROVE  CallsHaveRuns'
  <2>1. UNCHANGED <<run, warm, of, reaped>>
    BY <1>2 DEF SnapshotStep, Disconnect, CommitsPlain, Stages, CreatesSeed,
       CopiesOut, CopyOutFails, CopiesIn, CommitsSeed, RemovesSeed, RemovesStage,
       DeleteSnapshot, SnapSame
  <2>2. \A j \in Images : Calling(j)' => Calling(j)
                                         /\ (call'[j] = "plain" <=> call[j] = "plain")
    BY <1>2 DEF SnapshotStep, Disconnect, CommitsPlain, Stages, CreatesSeed,
       CopiesOut, CopyOutFails, CopiesIn, CommitsSeed, RemovesSeed, RemovesStage,
       DeleteSnapshot, CallGoes
  <2>3. QED
    BY <2>1, <2>2
<1>3. CASE Crash
  BY <1>3 DEF Crash
<1>4. CASE UNCHANGED vars
  BY <1>4 DEF vars
<1>5. QED
  BY <1>1, <1>2, <1>3, <1>4, RunCallsHaveRuns DEF Next

LEMMA NextCalls == CallInv /\ [Next]_vars => CallInv'
BY NextTypeOK, NextUnbornRunsAreBare, NextCallsHaveRuns DEF CallInv

\* The variables keep their types; only warm runs have a volume, and it holds
\* nothing but workspace files (runtime.go, manager.go).
THEOREM TypeCorrect == Spec => []TypeOK
<1>1. CallInv => TypeOK
  BY DEF CallInv
<1>2. QED
  BY InitCalls, NextCalls, <1>1, PTL DEF Spec

-----------------------------------------------------------------------------
(* What a call leaves behind.                                              *)

\* Steps that change nothing that a call has made.
Keeps(i) ==
  /\ call'[i] = call[i]
  /\ i \in tmps' <=> i \in tmps
  /\ i \in seeds' <=> i \in seeds
  /\ i \in stages' <=> i \in stages
  /\ i \in images' <=> i \in images
  /\ i \in dirty' <=> i \in dirty

LEMMA KeptIsNotForgotten ==
  ASSUME NEW i \in Images, ForgetsNothing(i), Keeps(i)
  PROVE  ForgetsNothing(i)'
BY DEF ForgetsNothing, Settled, Keeps

LEMMA RunStepsKeepCalls ==
  ASSUME NEW r \in Runs, RestoreStep(r) \/ RunStep(r), NEW i \in Images
  PROVE  Keeps(i)
<1>1. r # i
  BY NamesAreApart
<1>2. QED
  BY <1>1
     DEF RestoreStep, CreateBoots, Boots, SeedCreates, SeedCopies, SeedEnds, SeedFails,
         RunStep, ExecWrites, Destroy, ReapUntracks, ReapUnlinks, ReapReleases,
         ReapRemoves, Dies, RunGoes, CallsAside, things, Keeps

LEMMA SnapshotStepsKeepOthers ==
  ASSUME call \in [Images -> CallPhases], NEW i \in Images, NEW j \in Images \ {i},
         SnapshotStep(i) \/ DeleteSnapshot(i)
  PROVE  Keeps(j)
BY DEF SnapshotStep, SnapshotBegins, Begins, Disconnect, CommitsPlain, Stages, CreatesSeed,
   CopiesOut, CopyOutFails, CopiesIn, CommitsSeed, RemovesSeed, RemovesStage,
   DeleteSnapshot, CallGoes, Lingers, things, Keeps

LEMMA InitNothingIsForgotten == Init => NothingIsForgotten
BY DEF Init, NothingIsForgotten, ForgetsNothing, Settled, Ended

LEMMA SnapshotStepsForgetNothing ==
  ASSUME call \in [Images -> CallPhases], NEW i \in Images, ForgetsNothing(i),
         SnapshotStep(i) \/ DeleteSnapshot(i)
  PROVE  ForgetsNothing(i)'
<1> USE DEF ForgetsNothing, Settled, Ended, CallGoes, Lingers
<1>1. CASE \E r \in Runs : SnapshotBegins(i, r)
  BY <1>1 DEF SnapshotBegins, Begins, things
<1>2. CASE Disconnect(i)
  BY <1>2 DEF Disconnect, things
<1>3. CASE CommitsPlain(i)
  BY <1>3 DEF CommitsPlain
<1>4. CASE Stages(i)
  BY <1>4 DEF Stages
<1>5. CASE CreatesSeed(i)
  BY <1>5 DEF CreatesSeed
<1>6. CASE CopyOutFails(i) \/ CopiesIn(i) \/ \E f \in WorkFiles : CopiesOut(i, f)
  BY <1>6 DEF CopiesOut, CopyOutFails, CopiesIn, things
<1>7. CASE CommitsSeed(i)
  BY <1>7 DEF CommitsSeed
<1>8. CASE RemovesSeed(i)
  BY <1>8 DEF RemovesSeed
<1>9. CASE RemovesStage(i)
  BY <1>9 DEF RemovesStage
<1>10. CASE DeleteSnapshot(i)
  BY <1>10 DEF DeleteSnapshot
<1> HIDE DEF ForgetsNothing
<1>11. QED
  BY <1>1, <1>2, <1>3, <1>4, <1>5, <1>6, <1>7, <1>8, <1>9, <1>10 DEF SnapshotStep

LEMMA NextNothingIsForgotten ==
  ASSUME CallInv, NothingIsForgotten, [Next]_vars
  PROVE  NothingIsForgotten'
<1>1. call \in [Images -> CallPhases]
  BY DEF CallInv, TypeOK
<1>2. SUFFICES ASSUME NEW j \in Images PROVE ForgetsNothing(j)'
  BY DEF NothingIsForgotten
<1>3. ForgetsNothing(j)
  BY DEF NothingIsForgotten
<1>4. CASE \E r \in Runs : RestoreStep(r) \/ RunStep(r)
  BY <1>3, <1>4, RunStepsKeepCalls, KeptIsNotForgotten
<1>5. ASSUME NEW i \in Images, SnapshotStep(i) \/ DeleteSnapshot(i)
      PROVE  ForgetsNothing(j)'
  BY <1>1, <1>3, <1>5, SnapshotStepsKeepOthers, SnapshotStepsForgetNothing,
     KeptIsNotForgotten
<1>6. CASE Crash
  BY <1>1, <1>3, <1>6 DEF Crash, Calling, Ended, things, ForgetsNothing, Settled
<1>7. CASE UNCHANGED vars
  BY <1>3, <1>7 DEF vars, things, ForgetsNothing, Settled
<1>8. QED
  BY <1>4, <1>5, <1>6, <1>7 DEF Next

\* A Snapshot call that has returned has left nothing temporary behind, unless
\* docker did a thing and called it failed or its clean-up failed
\* (DockerRuntime.Snapshot).
THEOREM NothingLeftCorrect == Spec => []NothingTemporaryIsLeft
<1>1. NothingIsForgotten => NothingTemporaryIsLeft
  BY DEF NothingIsForgotten, ForgetsNothing, NothingTemporaryIsLeft, Ended
<1>2. QED
  BY InitCalls, NextCalls, InitNothingIsForgotten, NextNothingIsForgotten, <1>1, PTL DEF Spec

-----------------------------------------------------------------------------
(* Restores.                                                               *)

RestoreInv == CallInv /\ NothingIsForgotten /\ BasesAreMade /\ RestoresAreUnderWay

\* An image that a call has committed to is as it will always be.
LEMMA SettledCallsCommitNothing ==
  ASSUME CallInv, [Next]_vars, NEW i \in Images, call[i] \in Settled
  PROVE  call'[i] \in Settled /\ content'[i] = content[i]
<1>1. call \in [Images -> CallPhases] /\ content \in [Images -> SUBSET Files]
  BY DEF CallInv, TypeOK
<1>2. CASE \E r \in Runs : RestoreStep(r) \/ RunStep(r)
  BY <1>2 DEF RestoreStep, CreateBoots, Boots, SeedCreates, SeedCopies, SeedEnds, SeedFails,
     RunStep, ExecWrites, Destroy, ReapUntracks, ReapUnlinks, ReapReleases, ReapRemoves,
     Dies, CallsAside, trees
<1>3. CASE \E j \in Images : SnapshotStep(j) \/ DeleteSnapshot(j)
  BY <1>1, <1>3 DEF Settled, SnapshotStep, SnapshotBegins, Begins, Disconnect, CommitsPlain,
     Stages, CreatesSeed, CopiesOut, CopyOutFails, CopiesIn, CommitsSeed, RemovesSeed,
     RemovesStage, DeleteSnapshot, CallGoes, trees
<1>4. CASE Crash
  BY <1>1, <1>4 DEF Crash, Calling, Ended, Settled, trees
<1>5. CASE UNCHANGED vars
  BY <1>5 DEF vars, trees
<1>6. QED
  BY <1>2, <1>3, <1>4, <1>5 DEF Next

LEMMA SnapshotStepsKeepRuns ==
  ASSUME NEW i \in Images, SnapshotStep(i) \/ DeleteSnapshot(i)
  PROVE  UNCHANGED <<run, warm, base, layer, volume, mounted>>
BY DEF SnapshotStep, SnapshotBegins, Begins, Disconnect, CommitsPlain, Stages, CreatesSeed,
   CopiesOut, CopyOutFails, CopiesIn, CommitsSeed, RemovesSeed, RemovesStage,
   DeleteSnapshot, SnapSame, runs

\* Nobody but Create gives a run an image.
LEMMA BasesAreGiven ==
  ASSUME CallInv, [Next]_vars, NEW r \in Runs
  PROVE  \/ UNCHANGED <<base[r], warm[r]>>
         \/ run[r] = "unborn" /\ base'[r] \in images \cup {Plain}
<1>1. base \in [Runs -> Images \cup {Plain}] /\ warm \in [Runs -> BOOLEAN]
  BY DEF CallInv, TypeOK
<1>2. CASE \E q \in Runs : RestoreStep(q) \/ RunStep(q)
  BY <1>1, <1>2 DEF RestoreStep, CreateBoots, Boots, SeedCreates, SeedCopies, SeedEnds,
     SeedFails, RunStep, ExecWrites, Destroy, ReapUntracks, ReapUnlinks, ReapReleases,
     ReapRemoves, Dies
<1>3. CASE \E i \in Images : SnapshotStep(i) \/ DeleteSnapshot(i)
  BY <1>3, SnapshotStepsKeepRuns
<1>4. CASE Crash \/ UNCHANGED vars
  BY <1>4 DEF Crash, vars, runs
<1>5. QED
  BY <1>2, <1>3, <1>4 DEF Next

LEMMA NextBasesAreMade ==
  ASSUME CallInv, NothingIsForgotten, BasesAreMade, [Next]_vars
  PROVE  BasesAreMade'
<1>1. SUFFICES ASSUME NEW r \in Runs, base'[r] # Plain
               PROVE  call'[base'[r]] \in Settled
  BY DEF BasesAreMade
<1>2. base'[r] \in Images
  BY <1>1, NextTypeOK DEF TypeOK
<1>3. call[base'[r]] \in Settled
  BY <1>1, <1>2, BasesAreGiven DEF BasesAreMade, NothingIsForgotten, ForgetsNothing
<1>4. QED
  BY <1>2, <1>3, SettledCallsCommitNothing

\* What belongs to a run changes with the run's own steps alone.
LEMMA RunsKeepToThemselves ==
  ASSUME CallInv, NEW q \in Runs, NEW r \in Runs \ {q}, RestoreStep(q) \/ RunStep(q)
  PROVE  UNCHANGED <<run[r], warm[r], base[r], layer[r], volume[r]>>
<1>1. /\ run \in [Runs -> RunPhases] /\ warm \in [Runs -> BOOLEAN]
      /\ base \in [Runs -> Images \cup {Plain}]
      /\ layer \in [Runs -> SUBSET Files] /\ volume \in [Runs -> SUBSET WorkFiles]
  BY DEF CallInv, TypeOK
<1>2. QED
  BY <1>1 DEF RestoreStep, CreateBoots, Boots, SeedCreates, SeedCopies, SeedEnds,
     SeedFails, RunStep, ExecWrites, Destroy, ReapUntracks, ReapUnlinks, ReapReleases,
     ReapRemoves, Dies, RunGoes

LEMMA RestoreGoesOn ==
  ASSUME CallInv, NEW r \in Runs, RestoreIsUnderWay(r), RestoreStep(r) \/ RunStep(r)
  PROVE  RestoreIsUnderWay(r)'
<1>1. /\ run \in [Runs -> RunPhases] /\ warm \in [Runs -> BOOLEAN]
      /\ base \in [Runs -> Images \cup {Plain}]
      /\ layer \in [Runs -> SUBSET Files] /\ volume \in [Runs -> SUBSET WorkFiles]
  BY DEF CallInv, TypeOK
<1> USE <1>1 DEF RestoreIsUnderWay, RunGoes, CallsAside, trees
<1>2. ASSUME NEW w \in BOOLEAN, NEW b \in Images \cup {Plain}, CreateBoots(r, w, b)
      PROVE  RestoreIsUnderWay(r)'
  BY <1>2 DEF CreateBoots, Boots
<1>3. CASE SeedCreates(r)
  BY <1>3 DEF SeedCreates
<1>4. CASE SeedCopies(r)
  BY <1>4 DEF SeedCopies
<1>5. CASE SeedEnds(r) \/ SeedFails(r)
  BY <1>5 DEF SeedEnds, SeedFails, Dies
<1>6. CASE RunStep(r)
  BY <1>6 DEF RunStep, ExecWrites, Destroy, ReapUntracks, ReapUnlinks, ReapReleases,
     ReapRemoves, Dies
<1> HIDE DEF RestoreIsUnderWay
<1>7. QED
  BY <1>2, <1>3, <1>4, <1>5, <1>6 DEF RestoreStep

LEMMA RunStepsKeepContents ==
  ASSUME NEW r \in Runs, RestoreStep(r) \/ RunStep(r)
  PROVE  UNCHANGED <<call, of, left, tmpTree, seedTree, stageTree, content>>
BY DEF RestoreStep, CreateBoots, Boots, SeedCreates, SeedCopies, SeedEnds, SeedFails, RunStep,
   ExecWrites, Destroy, ReapUntracks, ReapUnlinks, ReapReleases, ReapRemoves, Dies,
   CallsAside, trees

LEMMA NextRestoresAreUnderWay ==
  ASSUME RestoreInv, [Next]_vars
  PROVE  RestoresAreUnderWay'
<1>1. SUFFICES ASSUME NEW r \in Runs PROVE RestoreIsUnderWay(r)'
  BY DEF RestoresAreUnderWay
<1>2. CallInv /\ RestoreIsUnderWay(r)
  BY DEF RestoreInv, RestoresAreUnderWay
<1>3. base[r] # Plain => base[r] \in Images /\ content'[base[r]] = content[base[r]]
  BY <1>2, SettledCallsCommitNothing DEF RestoreInv, BasesAreMade, CallInv, TypeOK
<1>4. CASE UNCHANGED <<run[r], warm[r], base[r], layer[r], volume[r]>>
  BY <1>2, <1>3, <1>4 DEF RestoreIsUnderWay
<1>5. ASSUME NEW q \in Runs, RestoreStep(q) \/ RunStep(q)
      PROVE  RestoreIsUnderWay(r)'
  <2>1. CASE q = r
    BY <1>2, <1>5, <2>1, RestoreGoesOn
  <2>2. CASE q # r
    BY <1>2, <1>4, <1>5, <2>2, RunsKeepToThemselves
  <2>3. QED
    BY <2>1, <2>2
<1>6. CASE \E i \in Images : SnapshotStep(i) \/ DeleteSnapshot(i)
  BY <1>4, <1>6, SnapshotStepsKeepRuns
<1>7. CASE Crash
  BY <1>7 DEF Crash, RestoreIsUnderWay
<1>8. CASE UNCHANGED vars
  BY <1>4, <1>8 DEF vars, runs
<1>9. QED
  BY <1>5, <1>6, <1>7, <1>8 DEF Next

LEMMA InitRestores == Init => RestoreInv
<1>1. Init => BasesAreMade /\ RestoresAreUnderWay
  BY DEF Init, BasesAreMade, RestoresAreUnderWay, RestoreIsUnderWay
<1>2. QED
  BY <1>1, InitCalls, InitNothingIsForgotten DEF RestoreInv

LEMMA NextRestores == RestoreInv /\ [Next]_vars => RestoreInv'
BY NextCalls, NextNothingIsForgotten, NextBasesAreMade, NextRestoresAreUnderWay DEF RestoreInv

\* A run that is registered has what its restore has brought into it.
LEMMA RestoredRunsAreExact ==
  ASSUME RestoreInv, [Next]_vars, NEW r \in Runs,
         run[r] # "tracked", run'[r] = "tracked", base'[r] # Plain
  PROVE  View(r)' = content[base'[r]]
<1>1. /\ run \in [Runs -> RunPhases] /\ warm \in [Runs -> BOOLEAN]
      /\ base \in [Runs -> Images \cup {Plain}]
      /\ layer \in [Runs -> SUBSET Files] /\ volume \in [Runs -> SUBSET WorkFiles]
      /\ RestoreIsUnderWay(r) /\ CallInv
  BY DEF RestoreInv, CallInv, TypeOK, RestoresAreUnderWay
<1>2. PICK q \in Runs : RestoreStep(q) \/ RunStep(q)
  <2>1. CASE \E i \in Images : SnapshotStep(i) \/ DeleteSnapshot(i)
    BY <2>1, SnapshotStepsKeepRuns
  <2>2. CASE Crash \/ UNCHANGED vars
    BY <1>1, <2>2 DEF Crash, vars, runs
  <2>3. QED
    BY <2>1, <2>2 DEF Next
<1>3. q = r
  BY <1>1, <1>2, RunsKeepToThemselves
<1>4. ASSUME NEW w \in BOOLEAN, NEW b \in Images \cup {Plain}, CreateBoots(r, w, b)
      PROVE  View(r)' = content[base'[r]]
  BY <1>1, <1>4 DEF CreateBoots, Boots, RunGoes, View
<1>5. CASE SeedEnds(r)
  BY <1>1, <1>5 DEF SeedEnds, RunGoes, View, RestoreIsUnderWay
<1>6. CASE SeedCreates(r) \/ SeedCopies(r) \/ SeedFails(r) \/ RunStep(r)
  BY <1>1, <1>6 DEF SeedCreates, SeedCopies, SeedFails, RunStep, ExecWrites, Destroy,
     ReapUntracks, ReapUnlinks, ReapReleases, ReapRemoves, Dies, RunGoes
<1>7. QED
  BY <1>2, <1>3, <1>4, <1>5, <1>6 DEF RestoreStep

\* A run that was restored from a snapshot has, when Create registers it,
\* exactly the snapshot's files (Manager.Create, SeedVolume).
THEOREM RestoresCorrect == Spec => RestoresAreExact
<1>1. RestoreInv /\ [Next]_vars =>
        [\A r \in Runs : run[r] # "tracked" /\ run'[r] = "tracked" /\ base'[r] # Plain =>
           View(r)' = content[base'[r]]]_vars
  BY RestoredRunsAreExact
<1>2. QED
  BY InitRestores, NextRestores, <1>1, PTL DEF Spec, RestoresAreExact

-----------------------------------------------------------------------------
(* Snapshots.                                                              *)

CarryInv == CallInv /\ WorkIsCarried

\* Time adds to what a run has had, and takes from what it has had all along.
LEMMA HistoryGoesOn ==
  ASSUME CallInv, NEW r \in Runs, RestoreStep(r) \/ RunStep(r), NEW i \in Images
  PROVE  /\ seen[i] \subseteq seen'[i] /\ kept'[i] \subseteq kept[i]
         /\ reaped \subseteq reaped'
<1>1. seen \in [Images -> SUBSET Files] /\ kept \in [Images -> SUBSET Files]
  BY DEF CallInv, TypeOK
<1>2. QED
  BY <1>1 DEF RestoreStep, CreateBoots, Boots, SeedCreates, SeedCopies, SeedEnds, SeedFails,
     RunStep, ExecWrites, Destroy, ReapUntracks, ReapUnlinks, ReapReleases, ReapRemoves,
     Dies, CallsAside, history

LEMMA RunStepsCarryWork ==
  ASSUME CallInv, NEW r \in Runs, RestoreStep(r) \/ RunStep(r), NEW i \in Images,
         WorkIsSaved(i)
  PROVE  WorkIsSaved(i)'
<1>1. UNCHANGED <<call, of, left, tmpTree, seedTree, stageTree, content>>
  BY RunStepsKeepContents
<1>2. /\ seen[i] \subseteq seen'[i] /\ kept'[i] \subseteq kept[i]
      /\ reaped \subseteq reaped'
  BY HistoryGoesOn
<1>3. QED
  BY <1>1, <1>2 DEF WorkIsSaved

\* Whatever the run does, the call goes on seeing it.
LEMMA RunStepsAreSeen ==
  ASSUME CallInv, NEW r \in Runs, RestoreStep(r) \/ RunStep(r), NEW i \in Images,
         CallSeesTheRun(i)
  PROVE  CallSeesTheRun(i)'
<1>1. /\ run \in [Runs -> RunPhases] /\ warm \in [Runs -> BOOLEAN]
      /\ base \in [Runs -> Images \cup {Plain}]
      /\ layer \in [Runs -> SUBSET Files] /\ volume \in [Runs -> SUBSET WorkFiles]
      /\ seen \in [Images -> SUBSET Files] /\ kept \in [Images -> SUBSET Files]
  BY DEF CallInv, TypeOK
<1>2. UNCHANGED <<call, of>>
  BY RunStepsKeepContents
<1>3. SUFFICES ASSUME Calling(i), Container(of[i])'
               PROVE  /\ View(of[i])' \subseteq seen'[i]
                      /\ i \in reaped' \/ kept'[i] \subseteq View(of[i])'
  BY <1>2 DEF CallSeesTheRun, Calling
<1>4. /\ of[i] \in Runs /\ run[of[i]] \in {"tracked", "releasing", "removing", "gone"}
      /\ warm[of[i]] /\ run[of[i]] \in {"releasing", "removing"} => i \in reaped
      /\ run[of[i]] = "releasing" => warm[of[i]]
  BY <1>3 DEF CallInv, CallsHaveRuns
<1>5. CASE of[i] # r
  <2>1. UNCHANGED <<run[of[i]], warm[of[i]], layer[of[i]], volume[of[i]]>>
    BY <1>2, <1>4, <1>5, RunsKeepToThemselves
  <2>2. View(of[i])' = View(of[i]) /\ Container(of[i])
    BY <1>2, <1>3, <2>1 DEF View, Container
  <2>3. seen'[i] = seen[i] /\ kept'[i] = kept[i]
    BY <1>1, <1>5 DEF RestoreStep, CreateBoots, Boots, SeedCreates, SeedCopies, SeedEnds,
       SeedFails, RunStep, ExecWrites, Destroy, ReapUntracks, ReapUnlinks, ReapReleases,
       ReapRemoves, Dies, CallsAside, history, CallsOn
  <2>4. QED
    BY <1>3, <2>2, <2>3, HistoryGoesOn DEF CallSeesTheRun
<1>6. CASE of[i] = r
  <2>1. ASSUME NEW f \in Files, ExecWrites(r, f)
        PROVE  /\ View(r)' \subseteq seen'[i] /\ kept'[i] \subseteq View(r)'
    BY <1>3, <1>6, <2>1 DEF ExecWrites, CallsOn
  <2>2. CASE ReapUntracks(r)
    <3>1. View(r)' = View(r) /\ Container(r)
      BY <1>4, <1>6, <2>2 DEF ReapUntracks, View, Container
    <3>2. QED
      BY <1>2, <1>3, <1>6, <2>2, <3>1 DEF ReapUntracks, CallSeesTheRun
  <2>3. ASSUME NEW f \in WorkFiles, ReapUnlinks(r, f)
        PROVE  View(r)' \subseteq seen'[i] /\ i \in reaped'
    <3>1. View(r)' \subseteq View(r) /\ Container(r) /\ UNCHANGED <<seen, reaped>>
      BY <1>1, <2>3 DEF ReapUnlinks, View, Container, CallsAside, history
    <3>2. QED
      BY <1>3, <1>4, <1>6, <2>3, <3>1 DEF ReapUnlinks, CallSeesTheRun
  <2>4. CASE ReapReleases(r)
    <3>1. View(r)' = View(r) /\ Container(r) /\ UNCHANGED <<seen, reaped>>
      BY <1>1, <2>4 DEF ReapReleases, View, Container, CallsAside, history
    <3>2. QED
      BY <1>2, <1>3, <1>4, <1>6, <2>4, <3>1 DEF ReapReleases, CallSeesTheRun
  <2>5. CASE RestoreStep(r) \/ Destroy(r) \/ ReapRemoves(r)
    BY <1>1, <1>2, <1>3, <1>4, <1>6, <2>5
       DEF RestoreStep, CreateBoots, Boots, SeedCreates, SeedCopies, SeedEnds, SeedFails,
           Destroy, ReapRemoves, Dies, RunGoes, Container
  <2>6. QED
    BY <1>2, <1>6, <2>1, <2>2, <2>3, <2>4, <2>5 DEF RunStep
<1>7. QED
  BY <1>5, <1>6

LEMMA SnapshotStepsLeaveOthers ==
  ASSUME CallInv, NEW i \in Images, NEW j \in Images \ {i},
         SnapshotStep(i) \/ DeleteSnapshot(i), CallSeesTheRun(j) /\ WorkIsSaved(j)
  PROVE  CallSeesTheRun(j)' /\ WorkIsSaved(j)'
<1>1. /\ call \in [Images -> CallPhases] /\ of \in [Images -> Runs \cup {NoRun}]
      /\ left \in [Images -> SUBSET WorkFiles] /\ tmpTree \in [Images -> SUBSET WorkFiles]
      /\ seedTree \in [Images -> SUBSET Files] /\ stageTree \in [Images -> SUBSET Files]
      /\ content \in [Images -> SUBSET Files]
      /\ seen \in [Images -> SUBSET Files] /\ kept \in [Images -> SUBSET Files]
  BY DEF CallInv, TypeOK
<1>2. UNCHANGED <<call[j], of[j], left[j], tmpTree[j], seedTree[j], stageTree[j],
                  content[j], seen[j], kept[j], reaped>>
  BY <1>1 DEF SnapshotStep, SnapshotBegins, Begins, Disconnect, CommitsPlain, Stages,
     CreatesSeed, CopiesOut, CopyOutFails, CopiesIn, CommitsSeed, RemovesSeed,
     RemovesStage, DeleteSnapshot, CallGoes, SnapSame, trees, history
<1>3. Calling(j)' <=> Calling(j)
  BY <1>2 DEF Calling
<1>4. View(of[j])' = View(of[j]) /\ (Container(of[j])' <=> Container(of[j]))
  BY <1>2, SnapshotStepsKeepRuns DEF View, Container
<1>5. QED
  BY <1>2, <1>3, <1>4 DEF CallSeesTheRun, WorkIsSaved

\* A call that begins sees the run as it is.
LEMMA BeginCarriesWork ==
  ASSUME CallInv, NEW i \in Images, NEW r \in Runs, SnapshotBegins(i, r), WorkIsSaved(i)
  PROVE  CallSeesTheRun(i)' /\ WorkIsSaved(i)'
<1>1. /\ call \in [Images -> CallPhases] /\ of \in [Images -> Runs \cup {NoRun}]
      /\ seen \in [Images -> SUBSET Files] /\ kept \in [Images -> SUBSET Files]
  BY DEF CallInv, TypeOK
<1>2. /\ call[i] = "unused" /\ call'[i] \in {"plain", "stage"} /\ tmpTree' = tmpTree
      /\ of'[i] = r /\ seen'[i] = View(r) /\ kept'[i] = View(r)
  BY <1>1 DEF SnapshotBegins, Begins, CallGoes, trees
<1>3. View(of[i])' = View(r)
  BY <1>2, SnapshotStepsKeepRuns DEF View, SnapshotStep
<1>4. QED
  BY <1>2, <1>3 DEF CallSeesTheRun, WorkIsSaved

\* The other steps of a call do not change what it sees.
LEMMA CallGoesOnSeeing ==
  ASSUME CallInv, NEW i \in Images, CallSeesTheRun(i),
         SnapshotStep(i) \/ DeleteSnapshot(i), \A r \in Runs : ~SnapshotBegins(i, r)
  PROVE  CallSeesTheRun(i)' /\ UNCHANGED <<of, seen, kept, reaped>>
<1>1. call \in [Images -> CallPhases]
  BY DEF CallInv, TypeOK
<1>2. UNCHANGED <<of, seen, kept, reaped>>
  BY DEF SnapshotStep, Disconnect, CommitsPlain, Stages, CreatesSeed, CopiesOut,
     CopyOutFails, CopiesIn, CommitsSeed, RemovesSeed, RemovesStage, DeleteSnapshot,
     SnapSame, history
<1>3. Calling(i)' => Calling(i)
  BY <1>1 DEF Calling, Ended, SnapshotStep, Disconnect, CommitsPlain, Stages, CreatesSeed,
     CopiesOut, CopyOutFails, CopiesIn, CommitsSeed, RemovesSeed, RemovesStage,
     DeleteSnapshot, CallGoes
<1>4. View(of[i])' = View(of[i]) /\ (Container(of[i])' <=> Container(of[i]))
  BY <1>2, SnapshotStepsKeepRuns DEF View, Container
<1>5. QED
  BY <1>2, <1>3, <1>4 DEF CallSeesTheRun

\* What each docker call saves.
LEMMA CallCarriesWork ==
  ASSUME CallInv, NEW i \in Images, CallSeesTheRun(i), WorkIsSaved(i),
         SnapshotStep(i) \/ DeleteSnapshot(i), \A r \in Runs : ~SnapshotBegins(i, r)
  PROVE  WorkIsSaved(i)'
<1>1. /\ call \in [Images -> CallPhases]
      /\ left \in [Images -> SUBSET WorkFiles] /\ tmpTree \in [Images -> SUBSET WorkFiles]
      /\ seedTree \in [Images -> SUBSET Files] /\ stageTree \in [Images -> SUBSET Files]
      /\ content \in [Images -> SUBSET Files]
      /\ volume \in [Runs -> SUBSET WorkFiles]
      /\ kept \in [Images -> SUBSET Files]
  BY DEF CallInv, TypeOK
<1>2. UNCHANGED <<of, seen, kept, reaped>>
  BY CallGoesOnSeeing
<1>3. Calling(i) => of[i] \in Runs /\ (call[i] = "plain" <=> ~warm[of[i]])
  BY DEF CallInv, CallsHaveRuns
<1> USE <1>1, <1>2 DEF CallGoes
<1>4. CASE Disconnect(i) \/ CopyOutFails(i) \/ DeleteSnapshot(i)
  BY <1>4 DEF Disconnect, CopyOutFails, DeleteSnapshot, trees, WorkIsSaved
<1>5. CASE CommitsPlain(i)
  <2>1. CASE Container(of[i])
    <3>1. View(of[i]) = layer[of[i]] /\ Calling(i)
      BY <1>3, <1>5 DEF CommitsPlain, View, Calling, Ended
    <3>2. QED
      BY <1>5, <2>1, <3>1 DEF CommitsPlain, CallSeesTheRun, WorkIsSaved
  <2>2. CASE call'[i] = "failed"
    BY <2>2 DEF WorkIsSaved
  <2>3. QED
    BY <1>5, <2>1, <2>2 DEF CommitsPlain
<1>6. CASE Stages(i)
  <2>1. CASE Container(of[i])
    <3>1. View(of[i]) \ WorkFiles \subseteq layer[of[i]] /\ Calling(i)
      BY <1>3, <1>6 DEF Stages, View, Calling, Ended
    <3>2. i \in reaped \/ kept[i] \ WorkFiles \subseteq layer[of[i]]
      BY <2>1, <3>1 DEF CallSeesTheRun
    <3>3. QED
      BY <1>6, <3>2 DEF Stages, WorkIsSaved
  <2>2. CASE call'[i] = "failed"
    BY <2>2 DEF WorkIsSaved
  <2>3. QED
    BY <1>6, <2>1, <2>2 DEF Stages
<1>7. CASE CreatesSeed(i)
  BY <1>7 DEF CreatesSeed, WorkIsSaved
<1>8. ASSUME NEW f \in WorkFiles, CopiesOut(i, f)
      PROVE  WorkIsSaved(i)'
  <2>1. /\ call[i] = "copyout" /\ Calling(i) /\ Container(of[i]) /\ warm[of[i]]
        /\ of[i] \in Runs
    BY <1>3, <1>8 DEF CopiesOut, Calling, Ended
  <2>2. /\ volume[of[i]] \subseteq seen[i]
        /\ i \in reaped \/ kept[i] \cap WorkFiles \subseteq volume[of[i]]
    BY <2>1 DEF CallSeesTheRun, View
  <2>3. /\ left'[i] = left[i] \ {f} /\ tmpTree'[i] = tmpTree[i] \cup ({f} \cap volume[of[i]])
        /\ call'[i] \in {"copyin", "copyout"}
        /\ call'[i] = "copyin" => left[i] = {f}
        /\ UNCHANGED <<seedTree, stageTree, content>>
    BY <1>8 DEF CopiesOut
  <2>4. i \in reaped \/ kept[i] \cap (WorkFiles \ left'[i]) \subseteq tmpTree'[i]
    BY <2>1, <2>2, <2>3 DEF WorkIsSaved
  <2>5. QED
    BY <2>1, <2>2, <2>3, <2>4 DEF WorkIsSaved
<1>9. CASE CopiesIn(i)
  <2>1. CASE call'[i] = "failseed"
    BY <2>1 DEF WorkIsSaved
  <2>2. CASE call'[i] = "commit"
    <3>1. /\ call[i] = "copyin" /\ seedTree'[i] = seedTree[i] \cup tmpTree[i]
          /\ UNCHANGED stageTree
      BY <1>9, <2>2 DEF CopiesIn
    <3>2. i \in reaped \/ kept[i] \subseteq seedTree'[i]
      BY <3>1 DEF WorkIsSaved
    <3>3. seedTree'[i] \subseteq seen[i] \cup stageTree[i]
      BY <3>1 DEF WorkIsSaved
    <3>4. QED
      BY <2>2, <3>1, <3>2, <3>3 DEF WorkIsSaved
  <2>3. QED
    BY <1>9, <2>1, <2>2 DEF CopiesIn
<1>10. CASE CommitsSeed(i)
  BY <1>10 DEF CommitsSeed, WorkIsSaved
<1>11. CASE RemovesSeed(i) \/ RemovesStage(i)
  BY <1>11 DEF RemovesSeed, RemovesStage, trees, WorkIsSaved
<1>12. QED
  BY <1>4, <1>5, <1>6, <1>7, <1>8, <1>9, <1>10, <1>11 DEF SnapshotStep

LEMMA NextWorkIsCarried ==
  ASSUME CarryInv, [Next]_vars
  PROVE  WorkIsCarried'
<1>1. SUFFICES ASSUME NEW i \in Images PROVE CallSeesTheRun(i)' /\ WorkIsSaved(i)'
  BY DEF WorkIsCarried
<1>2. CallInv /\ CallSeesTheRun(i) /\ WorkIsSaved(i)
  BY DEF CarryInv, WorkIsCarried
<1>3. ASSUME NEW r \in Runs, RestoreStep(r) \/ RunStep(r)
      PROVE  CallSeesTheRun(i)' /\ WorkIsSaved(i)'
  BY <1>2, <1>3, RunStepsAreSeen, RunStepsCarryWork
<1>4. ASSUME NEW j \in Images, SnapshotStep(j) \/ DeleteSnapshot(j)
      PROVE  CallSeesTheRun(i)' /\ WorkIsSaved(i)'
  <2>1. CASE j # i
    BY <1>2, <1>4, <2>1, SnapshotStepsLeaveOthers
  <2>2. CASE j = i /\ \E r \in Runs : SnapshotBegins(i, r)
    BY <1>2, <2>2, BeginCarriesWork
  <2>3. CASE j = i /\ \A r \in Runs : ~SnapshotBegins(i, r)
    BY <1>2, <1>4, <2>3, CallGoesOnSeeing, CallCarriesWork
  <2>4. QED
    BY <2>1, <2>2, <2>3
<1>5. CASE Crash
  <2>1. /\ call'[i] = IF Calling(i) THEN "lost" ELSE call[i]
        /\ UNCHANGED <<left, tmpTree, seedTree, stageTree, content, seen, kept, reaped>>
    BY <1>5 DEF Crash, trees, history
  <2>2. call'[i] \in {"unused", "lost"} \cup Ended
    BY <2>1 DEF Calling
  <2>3. ~Calling(i)'
    BY <2>2 DEF Calling
  <2>4. QED
    BY <1>2, <2>1, <2>2, <2>3 DEF CallSeesTheRun, WorkIsSaved, Ended, Calling
<1>6. CASE UNCHANGED vars
  BY <1>2, <1>6 DEF vars, runs, trees, history, CallSeesTheRun, WorkIsSaved, Calling, View,
     Container
<1>7. QED
  BY <1>3, <1>4, <1>5, <1>6 DEF Next

LEMMA InitCarries == Init => CarryInv
<1>1. Init => WorkIsCarried
  BY DEF Init, WorkIsCarried, CallSeesTheRun, WorkIsSaved, Calling
<1>2. QED
  BY <1>1, InitCalls DEF CarryInv

LEMMA NextCarries == CarryInv /\ [Next]_vars => CarryInv'
BY NextCalls, NextWorkIsCarried DEF CarryInv

\* A snapshot that is done has every file that the run had all the while and
\* none that it never had, but for those under the mount; except when the run was
\* reaped meanwhile (DockerRuntime.Snapshot).
THEOREM WorkspaceCorrect == Spec => []SnapshotsCarryTheWorkspace
<1>1. CarryInv => SnapshotsCarryTheWorkspace
  BY DEF CarryInv, WorkIsCarried, WorkIsSaved, SnapshotsCarryTheWorkspace
<1>2. QED
  BY InitCarries, NextCarries, <1>1, PTL DEF Spec
=============================================================================

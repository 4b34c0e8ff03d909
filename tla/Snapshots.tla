----------------------------- MODULE Snapshots ------------------------------
(***************************************************************************)
(* Snapshots of runs and restores from them: Snapshot and SeedVolume of    *)
(* src/internal/run/runtime.go, one action per docker call, with the parts *)
(* of Create, Reap and Destroy (manager.go) that meet them.                *)
(*                                                                         *)
(* docker commit skips mounts, so that a warm run, whose workspace is a    *)
(* mounted volume, is snapshotted by a detour: commit the container to a   *)
(* staging image, make a seed container of it without the mount, copy the  *)
(* volume out and into the seed, commit the seed.                          *)
(***************************************************************************)
EXTENDS Integers

CONSTANTS
  Runs,        \* run ids
  Images,      \* snapshot refs; bound: each Snapshot call makes a new one
  Files,       \* what may lie in a container's file system
  WorkFiles,   \* those below the mount point of the volume
  Template,    \* the content of the repo's warm template
  Plain,       \* an image that is no snapshot
  NoRun,       \* no run id
  FaultBound   \* bound: this many failed docker calls, disconnects and crashes

ASSUME FilesAreFiles == WorkFiles \subseteq Files /\ Template \subseteq WorkFiles
ASSUME NothingIsNothing == Plain \notin Images /\ NoRun \notin Runs
ASSUME NamesAreApart == Runs \cap Images = {}
ASSUME BoundIsNumber == FaultBound \in Nat

RunPhases == {"unborn", "seed", "copy", "unseed", "abandon", "tracked",
              "releasing", "removing", "gone"}
CallPhases == {"unused", "plain", "stage", "create", "copyout", "copyin",
               "commit", "rmseed", "rmstage", "failseed", "failstage",
               "done", "failed", "lost"}
Ended == {"done", "failed"}

VARIABLES
  run,        \* how far Create, Reap or Destroy have come with each run
  warm, base, \* the request: with a volume or not, and the image
  layer,      \* the container's own files, those the mount shadows included
  volume,     \* the files of the volume
  mounted,    \* the runs whose volume directory exists
  call,       \* the Snapshot call that makes each image
  of,         \* the run it is a snapshot of
  left,       \* the files that docker cp has still to look at
  tmpTree, seedTree, stageTree, content,  \* temp dir, seed, staging, image
  tmps, seeds, stages, images,            \* which of them exist
  cancelled,  \* the calls whose client has disconnected
  dirty,      \* calls a docker command of which took effect but failed, or
              \* whose clean-up failed
  seen, kept, \* what the run had at some, at every moment of the call
  reaped,     \* calls during which Reap removed the run's volume
  faults

runs == <<run, warm, base, layer, volume, mounted>>
trees == <<left, tmpTree, seedTree, stageTree, content>>
things == <<tmps, seeds, stages, images>>
history == <<seen, kept, reaped>>
vars == <<runs, call, of, trees, things, cancelled, dirty, history, faults>>

-----------------------------------------------------------------------------
Container(r) == run[r] \notin {"unborn", "gone"}

\* What a command in the container sees.
View(r) == IF warm[r] THEN (layer[r] \ WorkFiles) \cup volume[r] ELSE layer[r]

Calling(i) == call[i] \notin {"unused", "lost"} \cup Ended
CallsOn(r) == {i \in Images : Calling(i) /\ of[i] = r}

Init ==
  /\ run = [r \in Runs |-> "unborn"]
  /\ warm = [r \in Runs |-> FALSE] /\ base = [r \in Runs |-> Plain]
  /\ layer = [r \in Runs |-> {}] /\ volume = [r \in Runs |-> {}]
  /\ mounted = {}
  /\ call = [i \in Images |-> "unused"]
  /\ of = [i \in Images |-> NoRun]
  /\ left = [i \in Images |-> {}] /\ tmpTree = [i \in Images |-> {}]
  /\ seedTree = [i \in Images |-> {}] /\ stageTree = [i \in Images |-> {}]
  /\ content = [i \in Images |-> {}]
  /\ tmps = {} /\ seeds = {} /\ stages = {} /\ images = {}
  /\ cancelled = {} /\ dirty = {} /\ reaped = {}
  /\ seen = [i \in Images |-> {}] /\ kept = [i \in Images |-> {}]
  /\ faults = 0

Fault == faults < FaultBound /\ faults' = faults + 1

-----------------------------------------------------------------------------
(* Runs: created, written to, reaped, destroyed.                           *)

RunGoes(r, phase) == run' = [run EXCEPT ![r] = phase]

\* docker rm -f, and what Release leaves of the volume.
Dies(r) ==
  /\ RunGoes(r, "gone")
  /\ layer' = [layer EXCEPT ![r] = {}]
  /\ volume' = [volume EXCEPT ![r] = {}]
  /\ mounted' = mounted \ {r}
  /\ UNCHANGED <<warm, base>>
CallsAside == <<call, of, trees, stages, images, cancelled, dirty, history>>

Boots(r, w, b, vol, made) ==
  /\ run[r] = "unborn"
  /\ b \in images \cup {Plain}
  /\ RunGoes(r, IF w /\ b # Plain THEN "seed" ELSE "tracked")
  /\ warm' = [warm EXCEPT ![r] = w]
  /\ base' = [base EXCEPT ![r] = b]
  /\ layer' = [layer EXCEPT ![r] = IF b = Plain THEN {} ELSE content[b]]
  /\ volume' = [volume EXCEPT ![r] = vol]
  /\ mounted' = mounted \cup made
  /\ UNCHANGED <<CallsAside, tmps, seeds, faults>>

Made(r, w) == IF w THEN {r} ELSE {}

\* Mutants of CreateBoots: a restore boots from the template, like any warm run;
\* every run gets a volume directory.
CreateBootsTemplate(r, w, b) ==
  Boots(r, w, b, IF w THEN Template ELSE {}, Made(r, w))
CreateBootsAlways(r, w, b) == Boots(r, w, b, {}, {r})

\* Create up to the running container: the volume comes from the template,
\* but is empty when the image is a snapshot.
CreateBoots(r, w, b) ==
  Boots(r, w, b, IF w /\ b = Plain THEN Template ELSE {}, Made(r, w))

\* SeedVolume: docker create of a seed from the image.
SeedCreates(r) ==
  /\ run[r] = "seed"
  /\ \/ RunGoes(r, "copy") /\ seeds' = seeds \cup {r} /\ UNCHANGED faults
     \/ RunGoes(r, "abandon") /\ Fault /\ UNCHANGED seeds
  /\ tmps' = tmps \cup {r}
  /\ UNCHANGED <<warm, base, layer, volume, mounted, CallsAside>>

\* SeedVolume: docker cp out of the seed and into the volume.
SeedCopies(r) ==
  /\ run[r] = "copy"
  /\ \/ RunGoes(r, "unseed") /\ UNCHANGED faults
        /\ volume' = [volume EXCEPT ![r] = @ \cup (content[base[r]] \cap WorkFiles)]
     \/ RunGoes(r, "abandon") /\ Fault /\ UNCHANGED volume
  /\ UNCHANGED <<warm, base, layer, mounted, CallsAside, tmps, seeds>>

\* SeedVolume ends, and Create registers the run.
SeedEnds(r) ==
  /\ run[r] = "unseed"
  /\ RunGoes(r, "tracked")
  /\ \/ seeds' = seeds \ {r} /\ UNCHANGED faults
     \/ Fault /\ UNCHANGED seeds
  /\ tmps' = tmps \ {r}
  /\ UNCHANGED <<warm, base, layer, volume, mounted, CallsAside>>

\* A failed restore is undone: the seed, the container, the volume.  The seed
\* goes under the context that may have made the step fail.
SeedFails(r) ==
  /\ run[r] = "abandon"
  /\ Dies(r)
  /\ seeds' \in {seeds, seeds \ {r}}
  /\ tmps' = tmps \ {r}
  /\ UNCHANGED <<CallsAside, faults>>

\* An exec creates or deletes a file.
ExecWrites(r, f) ==
  /\ run[r] = "tracked"
  /\ IF warm[r] /\ f \in WorkFiles
     THEN /\ volume' = [volume EXCEPT ![r] = IF f \in @ THEN @ \ {f} ELSE @ \cup {f}]
          /\ UNCHANGED layer
     ELSE /\ layer' = [layer EXCEPT ![r] = IF f \in @ THEN @ \ {f} ELSE @ \cup {f}]
          /\ UNCHANGED volume
  /\ UNCHANGED <<run, warm, base, mounted, call, of, trees, things, cancelled,
                 dirty, reaped, faults>>
  /\ seen' = [i \in Images |-> IF i \in CallsOn(r) THEN seen[i] \cup View(r)' ELSE seen[i]]
  /\ kept' = [i \in Images |-> IF i \in CallsOn(r) THEN kept[i] \cap View(r)' ELSE kept[i]]

\* Destroy: the container goes first, and a snapshot can no longer read it.
Destroy(r) ==
  /\ run[r] = "tracked"
  /\ Dies(r)
  /\ UNCHANGED <<CallsAside, tmps, seeds, faults>>

\* Reap: the volume goes first, file by file, under the running container.
ReapUntracks(r) ==
  /\ run[r] = "tracked"
  /\ RunGoes(r, IF warm[r] THEN "releasing" ELSE "removing")
  /\ reaped' = IF warm[r] THEN reaped \cup CallsOn(r) ELSE reaped
  /\ UNCHANGED <<warm, base, layer, volume, mounted, call, of, trees, things,
                 cancelled, dirty, seen, kept, faults>>

ReapUnlinks(r, f) ==
  /\ run[r] = "releasing" /\ f \in volume[r]
  /\ volume' = [volume EXCEPT ![r] = @ \ {f}]
  /\ UNCHANGED <<run, warm, base, layer, mounted, CallsAside, tmps, seeds, faults>>

ReapReleases(r) ==
  /\ run[r] = "releasing" /\ volume[r] = {}
  /\ RunGoes(r, "removing")
  /\ mounted' = mounted \ {r}
  /\ UNCHANGED <<warm, base, layer, volume, CallsAside, tmps, seeds, faults>>

ReapRemoves(r) ==
  /\ run[r] = "removing"
  /\ Dies(r)
  /\ UNCHANGED <<CallsAside, tmps, seeds, faults>>

-----------------------------------------------------------------------------
(* Snapshot.                                                               *)

CallGoes(i, phase) == call' = [call EXCEPT ![i] = phase]

Begins(i, r, phase) ==
  /\ call[i] = "unused" /\ run[r] = "tracked"
  /\ CallGoes(i, phase)
  /\ of' = [of EXCEPT ![i] = r]
  /\ seen' = [seen EXCEPT ![i] = View(r)] /\ kept' = [kept EXCEPT ![i] = View(r)]
  /\ UNCHANGED <<runs, trees, things, cancelled, dirty, reaped, faults>>

\* Mutant of SnapshotBegins: the volume is forgotten.
SnapshotBeginsPlain(i, r) == Begins(i, r, "plain")

\* Manager.Snapshot: look the run up, make a ref, call the runtime.
SnapshotBegins(i, r) == Begins(i, r, IF warm[r] THEN "stage" ELSE "plain")

\* The request's context ends; the docker command it runs is killed.
Disconnect(i) ==
  /\ Calling(i) /\ i \notin cancelled
  /\ Fault
  /\ cancelled' = cancelled \cup {i}
  /\ UNCHANGED <<runs, call, of, trees, things, dirty, history>>

\* A docker command of call i fails: it finds no container, was refused, or
\* was killed, and then it may have had its effect all the same.
Refused(i) == \/ i \in cancelled /\ UNCHANGED faults
              \/ Fault
Missing(i) == ~Container(of[i]) /\ UNCHANGED faults
Lingers(i) == dirty' = dirty \cup {i}

SnapSame == <<runs, of, cancelled, history>>

\* docker commit of a run without a volume.
CommitsPlain(i) ==
  /\ call[i] = "plain"
  /\ content' = [content EXCEPT ![i] = layer[of[i]]]
  /\ \/ /\ Container(of[i]) /\ i \notin cancelled
        /\ CallGoes(i, "done") /\ images' = images \cup {i}
        /\ UNCHANGED <<dirty, faults>>
     \/ /\ Container(of[i]) /\ Refused(i)
        /\ CallGoes(i, "failed") /\ images' = images \cup {i} /\ Lingers(i)
     \/ /\ Refused(i) \/ Missing(i)
        /\ CallGoes(i, "failed") /\ UNCHANGED <<images, dirty>>
  /\ UNCHANGED <<SnapSame, left, tmpTree, seedTree, stageTree, tmps, seeds, stages>>

\* docker commit to the staging image; when it fails nothing is cleaned up.
Stages(i) ==
  /\ call[i] = "stage"
  /\ stageTree' = [stageTree EXCEPT ![i] = layer[of[i]]]
  /\ \/ /\ Container(of[i]) /\ i \notin cancelled
        /\ CallGoes(i, "create") /\ stages' = stages \cup {i}
        /\ UNCHANGED <<dirty, faults>>
     \/ /\ Container(of[i]) /\ Refused(i)
        /\ CallGoes(i, "failed") /\ stages' = stages \cup {i} /\ Lingers(i)
     \/ /\ Refused(i) \/ Missing(i)
        /\ CallGoes(i, "failed") /\ UNCHANGED <<stages, dirty>>
  /\ UNCHANGED <<SnapSame, left, tmpTree, seedTree, content, tmps, seeds, images>>

\* The temp dir, and docker create of the seed.
CreatesSeed(i) ==
  /\ call[i] = "create"
  /\ tmps' = tmps \cup {i}
  /\ seedTree' = [seedTree EXCEPT ![i] = stageTree[i]]
  /\ left' = [left EXCEPT ![i] = WorkFiles]
  /\ \/ /\ i \notin cancelled
        /\ CallGoes(i, "copyout") /\ seeds' = seeds \cup {i}
        /\ UNCHANGED <<dirty, faults>>
     \/ /\ Refused(i)
        /\ CallGoes(i, "failstage") /\ seeds' = seeds \cup {i} /\ Lingers(i)
     \/ /\ Refused(i)
        /\ CallGoes(i, "failstage") /\ UNCHANGED <<seeds, dirty>>
  /\ UNCHANGED <<SnapSame, tmpTree, stageTree, content, stages, images>>

\* docker cp out of the run opens the volume and then reads it file by file.
CopiesOut(i, f) ==
  /\ call[i] = "copyout" /\ i \notin cancelled
  /\ Container(of[i]) /\ (left[i] = WorkFiles => of[i] \in mounted)
  /\ f \in left[i]
  /\ left' = [left EXCEPT ![i] = @ \ {f}]
  /\ tmpTree' = [tmpTree EXCEPT ![i] = @ \cup ({f} \cap volume[of[i]])]
  /\ CallGoes(i, IF left[i] = {f} THEN "copyin" ELSE "copyout")
  /\ UNCHANGED <<SnapSame, seedTree, stageTree, content, things, dirty, faults>>

CopyOutFails(i) ==
  /\ call[i] = "copyout"
  /\ \/ Refused(i) \/ Missing(i)
     \/ left[i] = WorkFiles /\ of[i] \notin mounted /\ UNCHANGED faults
  /\ CallGoes(i, "failseed")
  /\ UNCHANGED <<SnapSame, trees, things, dirty>>

\* docker cp into the seed: over what the staged layer has there.
CopiesIn(i) ==
  /\ call[i] = "copyin"
  /\ \/ /\ i \notin cancelled
        /\ CallGoes(i, "commit") /\ UNCHANGED faults
        /\ seedTree' = [seedTree EXCEPT ![i] = @ \cup tmpTree[i]]
     \/ Refused(i) /\ CallGoes(i, "failseed") /\ UNCHANGED seedTree
  /\ UNCHANGED <<SnapSame, left, tmpTree, stageTree, content, things, dirty>>

\* docker commit of the seed: the image.
CommitsSeed(i) ==
  /\ call[i] = "commit"
  /\ content' = [content EXCEPT ![i] = seedTree[i]]
  /\ \/ /\ i \notin cancelled
        /\ CallGoes(i, "rmseed") /\ images' = images \cup {i}
        /\ UNCHANGED <<dirty, faults>>
     \/ /\ Refused(i)
        /\ CallGoes(i, "failseed") /\ images' = images \cup {i} /\ Lingers(i)
     \/ /\ Refused(i)
        /\ CallGoes(i, "failseed") /\ UNCHANGED <<images, dirty>>
  /\ UNCHANGED <<SnapSame, left, tmpTree, seedTree, stageTree, tmps, seeds, stages>>

\* Mutant of RemovesSeed: a failed step returns with its seed in place.
RemovesSeedOnSuccess(i) ==
  /\ call[i] \in {"rmseed", "failseed"}
  /\ CallGoes(i, IF call[i] = "rmseed" THEN "rmstage" ELSE "failstage")
  /\ seeds' = IF call[i] = "rmseed" THEN seeds \ {i} ELSE seeds
  /\ UNCHANGED <<SnapSame, trees, tmps, stages, images, dirty, faults>>

\* docker rm -f of the seed, after success or failure; its error is ignored.
RemovesSeed(i) ==
  /\ call[i] \in {"rmseed", "failseed"}
  /\ CallGoes(i, IF call[i] = "rmseed" THEN "rmstage" ELSE "failstage")
  /\ \/ i \notin cancelled /\ seeds' = seeds \ {i} /\ UNCHANGED <<dirty, faults>>
     \/ Refused(i) /\ Lingers(i) /\ UNCHANGED seeds
  /\ UNCHANGED <<SnapSame, trees, tmps, stages, images>>

\* docker rmi of the staging image, which a seed left behind prevents; then
\* the call returns and its temp dir goes.
RemovesStage(i) ==
  /\ call[i] \in {"rmstage", "failstage"}
  /\ CallGoes(i, IF call[i] = "rmstage" THEN "done" ELSE "failed")
  /\ \/ /\ i \notin cancelled /\ UNCHANGED <<dirty, faults>>
        /\ stages' = IF i \in seeds THEN stages ELSE stages \ {i}
     \/ Refused(i) /\ Lingers(i) /\ UNCHANGED stages
  /\ tmps' = tmps \ {i}
  /\ tmpTree' = [tmpTree EXCEPT ![i] = {}]
  /\ seedTree' = [seedTree EXCEPT ![i] = {}]  \* of no use any more
  /\ UNCHANGED <<SnapSame, left, stageTree, content, seeds, images>>

\* DeleteSnapshot of a ref that a caller has been given; docker refuses while
\* a container of the image exists.
DeleteSnapshot(i) ==
  /\ call[i] = "done" /\ i \in images
  /\ \A r \in Runs : base[r] = i => ~Container(r) /\ r \notin seeds
  /\ images' = images \ {i}
  /\ UNCHANGED <<runs, call, of, trees, tmps, seeds, stages, cancelled, dirty,
                 history, faults>>

\* The daemon dies; its calls are lost, and the next one sweeps its runs.
Crash ==
  /\ Fault
  /\ run' = [r \in Runs |-> IF run[r] = "unborn" THEN "unborn" ELSE "gone"]
  /\ layer' = [r \in Runs |-> {}]
  /\ call' = [i \in Images |-> IF Calling(i) THEN "lost" ELSE call[i]]
  /\ UNCHANGED <<warm, base, volume, mounted, of, trees, things,
                 cancelled, dirty, history>>

-----------------------------------------------------------------------------
RestoreStep(r) ==
  \/ \E w \in BOOLEAN, b \in Images \cup {Plain} : CreateBoots(r, w, b)
  \/ SeedCreates(r) \/ SeedCopies(r) \/ SeedEnds(r) \/ SeedFails(r)
RunStep(r) ==
  \/ \E f \in Files : ExecWrites(r, f)
  \/ Destroy(r) \/ ReapUntracks(r)
  \/ \E f \in WorkFiles : ReapUnlinks(r, f)
  \/ ReapReleases(r) \/ ReapRemoves(r)
SnapshotStep(i) ==
  \/ \E r \in Runs : SnapshotBegins(i, r)
  \/ Disconnect(i)
  \/ CommitsPlain(i) \/ Stages(i) \/ CreatesSeed(i)
  \/ \E f \in WorkFiles : CopiesOut(i, f)
  \/ CopyOutFails(i) \/ CopiesIn(i) \/ CommitsSeed(i)
  \/ RemovesSeed(i) \/ RemovesStage(i)

Next ==
  \/ \E r \in Runs : RestoreStep(r) \/ RunStep(r)
  \/ \E i \in Images : SnapshotStep(i) \/ DeleteSnapshot(i)
  \/ Crash

Spec == Init /\ [][Next]_vars

-----------------------------------------------------------------------------
\* Type correctness; a volume holds workspace files, and is of a warm run.
TypeOK ==
  /\ run \in [Runs -> RunPhases] /\ warm \in [Runs -> BOOLEAN]
  /\ base \in [Runs -> Images \cup {Plain}]
  /\ layer \in [Runs -> SUBSET Files] /\ volume \in [Runs -> SUBSET WorkFiles]
  /\ mounted \in SUBSET Runs /\ \A r \in mounted : warm[r]
  /\ call \in [Images -> CallPhases] /\ of \in [Images -> Runs \cup {NoRun}]
  /\ left \in [Images -> SUBSET WorkFiles]
  /\ tmpTree \in [Images -> SUBSET WorkFiles]
  /\ \A tree \in {seedTree, stageTree, content, seen, kept} :
       tree \in [Images -> SUBSET Files]
  /\ tmps \in SUBSET (Runs \cup Images) /\ seeds \in SUBSET (Runs \cup Images)
  /\ \A set \in {stages, images, cancelled, dirty, reaped} : set \in SUBSET Images
  /\ faults \in 0 .. FaultBound

\* A snapshot that Snapshot has returned holds every file the run had all the
\* while, unless the reaper was removing the run's volume meanwhile, and no
\* file but those the run had at some moment of the call and those that the
\* mount hid and the staging image brings to light (DockerRuntime.Snapshot).
SnapshotsCarryTheWorkspace ==
  \A i \in Images : call[i] = "done" =>
    /\ i \in reaped \/ kept[i] \subseteq content[i]
    /\ content[i] \subseteq seen[i] \cup stageTree[i]

\* A run restored from a snapshot has, when it is registered, exactly the
\* files of the snapshot: none lost under the mount, none from the template
\* (Manager.Create, SeedVolume).
RestoresAreExact ==
  [][\A r \in Runs : run[r] # "tracked" /\ run'[r] = "tracked" /\ base'[r] # Plain =>
       View(r)' = content[base'[r]]]_vars

\* A Snapshot call that has returned, also with an error, has left neither
\* temp dir, nor seed container, nor staging image, and after an error no
\* image, unless a docker command of it took effect and failed or its clean-up
\* failed; the temp dir is gone in any case (DockerRuntime.Snapshot).
NothingTemporaryIsLeft ==
  \A i \in Images : call[i] \in Ended =>
    /\ i \notin tmps
    /\ i \notin dirty =>
         i \notin seeds \cup stages /\ (call[i] = "failed" => i \notin images)

\* "A container created from the staged image WITHOUT the mount exposes the
\* (still empty) directory from the image layer": a snapshot holds no file
\* that the run did not have.
SnapshotsAddNothing ==
  \A i \in Images : call[i] = "done" => content[i] \subseteq seen[i]
=============================================================================

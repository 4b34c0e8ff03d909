----------------------------- MODULE WarmCache -----------------------------
(***************************************************************************)
(* The warm template of one repo (src/internal/run/cache.go): runs boot    *)
(* from a copy of the current generation, commits build new generations    *)
(* and swap the manifest, cleaners, Drop and the LRU sweep delete.         *)
(*                                                                         *)
(* Nothing but the in-use marks is under the store's mutex, so that every  *)
(* file system call is a step of its own.  Repos share only the mutex.     *)
(*                                                                         *)
(* A tree is the set of its Parts.  A copy lists a directory once and then *)
(* copies what it listed: a part gone by then is an error, a part gone     *)
(* before is not missed.  RemoveAll unlinks part after part.  A generation *)
(* renamed to t-g-* is read by nobody and is taken for gone.               *)
(***************************************************************************)
EXTENDS Integers, FiniteSets

CONSTANTS
  Boots,       \* the Boot calls, each made once
  Committers,  \* the goroutines that commit
  Removers,    \* the goroutines that drop the template or evict it
  Gens,        \* generation names, each given out once: bounds the commits
  Parts,       \* the parts of a complete tree
  NoGen,       \* no manifest
  CrashBound   \* bound: this many crashes

Tries == 3     \* Boot's attempts

ASSUME PartsExist == Parts # {} /\ IsFiniteSet(Boots \cup Committers)
ASSUME NoGenIsFresh == NoGen \notin Gens
ASSUME BoundIsNat == CrashBound \in Nat
ASSUME ActorsAreApart == Boots \cap Committers = {}

BootPhases == {"read", "mark", "list", "copy", "copied", "vanished",
               "warm", "cold", "failed"}
CommitPhases == {"idle", "mark", "mkdir", "copy", "abort", "unmark",
                 "clean", "list", "sift", "rename"}
\* "drop": Drop deletes, under the mutex; "evict": Sweep deletes, without it.
RemovePhases == {"idle", "list", "lock", "drop", "evict"}

VARIABLES
  slugDir,   \* does <root>/repos/<slug> exist
  manifest,  \* the generation manifest.json names, or NoGen
  dirs,      \* the g-* directories
  files,     \* their files: <<generation, part>>
  inUse,     \* CacheStore.inUse, for the generations
  used,      \* the generation names given out
  boots,     \* Boot: phase, generation, parts still to copy, attempts made
  volume,    \* the parts in the volume of each boot's run
  commits,   \* Commit and its cleanGenerations
  removals,  \* Drop and Sweep
  crashes

disk == <<slugDir, manifest, dirs, files>>
vars == <<disk, inUse, used, boots, volume, commits, removals, crashes>>

-----------------------------------------------------------------------------
PartsOf(g) == {p \in Parts : <<g, p>> \in files}

\* Drop deletes under the mutex; every mark, unmark and busy waits for it.
Unlocked == \A x \in Removers : removals[x].phase # "drop"

Mark(g) == Unlocked /\ inUse' = [inUse EXCEPT ![g] = @ + 1]
Unmark(g) == Unlocked /\ inUse' = [inUse EXCEPT ![g] = IF @ <= 1 THEN 0 ELSE @ - 1]

IdleCommit == [phase |-> "idle", gen |-> NoGen, todo |-> {}, current |-> NoGen,
               entries |-> {}]
IdleRemoval == [phase |-> "idle", listed |-> {}, files |-> {}, manifest |-> FALSE]
NewBoot == [phase |-> "read", gen |-> NoGen, todo |-> {}, tries |-> 0]

Init ==
  /\ slugDir = FALSE /\ manifest = NoGen /\ dirs = {} /\ files = {}
  /\ inUse = [g \in Gens |-> 0]
  /\ used = {}
  /\ boots = [b \in Boots |-> NewBoot]
  /\ volume = [b \in Boots |-> {}]
  /\ commits = [c \in Committers |-> IdleCommit]
  /\ removals = [x \in Removers |-> IdleRemoval]
  /\ crashes = 0

-----------------------------------------------------------------------------
(* Boot. *)

BootAt(b, phase) == boots[b].phase = phase
BootTo(b, phase) == boots' = [boots EXCEPT ![b].phase = phase]
OnlyBoots == UNCHANGED <<disk, used, commits, removals, crashes>>

\* Manifest: without a template the boot is cold.
BootReads(b) ==
  /\ BootAt(b, "read")
  /\ IF manifest = NoGen
     THEN BootTo(b, "cold")
     ELSE boots' = [boots EXCEPT ![b].phase = "mark", ![b].gen = manifest]
  /\ OnlyBoots /\ UNCHANGED <<inUse, volume>>

BootMarks(b) ==
  /\ BootAt(b, "mark")
  /\ Mark(boots[b].gen)
  /\ BootTo(b, "list")
  /\ OnlyBoots /\ UNCHANGED volume

\* copyTree: the directory is read ...
BootLists(b) ==
  /\ BootAt(b, "list")
  /\ IF boots[b].gen \in dirs
     THEN boots' = [boots EXCEPT ![b].phase = "copy", ![b].todo = PartsOf(boots[b].gen)]
     ELSE BootTo(b, "vanished")
  /\ OnlyBoots /\ UNCHANGED <<inUse, volume>>

\* Mutant of BootCopies: a file that is gone is skipped.
BootSkipsMissing(b, p) ==
  /\ BootAt(b, "copy") /\ p \in boots[b].todo
  /\ boots' = [boots EXCEPT ![b].todo = @ \ {p}]
  /\ volume' = [volume EXCEPT ![b] =
       IF p \in PartsOf(boots[b].gen) THEN @ \cup {p} ELSE @]
  /\ OnlyBoots /\ UNCHANGED inUse

\* ... and its entries copied one by one.
BootCopies(b, p) ==
  /\ BootAt(b, "copy") /\ p \in boots[b].todo
  /\ \/ /\ p \in PartsOf(boots[b].gen)
        /\ volume' = [volume EXCEPT ![b] = @ \cup {p}]
        /\ boots' = [boots EXCEPT ![b].todo = @ \ {p}]
     \/ /\ p \notin PartsOf(boots[b].gen)
        /\ BootTo(b, "vanished")
        /\ UNCHANGED volume
  /\ OnlyBoots /\ UNCHANGED inUse

BootCopied(b) ==
  /\ BootAt(b, "copy") /\ boots[b].todo = {}
  /\ BootTo(b, "copied")
  /\ OnlyBoots /\ UNCHANGED <<inUse, volume>>

BootFinishes(b) ==
  /\ BootAt(b, "copied")
  /\ Unmark(boots[b].gen)
  /\ BootTo(b, "warm")
  /\ OnlyBoots /\ UNCHANGED volume

Retries(b, tries) ==
  /\ BootAt(b, "vanished")
  /\ Unmark(boots[b].gen)
  /\ boots' = [boots EXCEPT ![b].tries = @ + 1,
       ![b].phase = IF boots[b].tries + 1 = tries THEN "cold" ELSE "read"]
  /\ OnlyBoots
Clears(b) == volume' = [volume EXCEPT ![b] = {}]

\* Mutants of BootRetries: nobody gives up; one attempt too many is made; the
\* partial copy is left.
BootRetriesForever(b) ==
  /\ BootAt(b, "vanished")
  /\ Unmark(boots[b].gen)
  /\ Clears(b)
  /\ BootTo(b, "read")
  /\ OnlyBoots
BootRetriesOnceMore(b) == Retries(b, Tries + 1) /\ Clears(b)
BootRetriesUncleared(b) == Retries(b, Tries) /\ UNCHANGED volume

\* fs.ErrNotExist: clear the partial copy and try again, in the end cold.
BootRetries(b) == Retries(b, Tries) /\ Clears(b)

\* Any other error of the copy fails the boot.
BootFails(b) ==
  /\ BootAt(b, "copy")
  /\ Unmark(boots[b].gen)
  /\ volume' = [volume EXCEPT ![b] = {}]
  /\ BootTo(b, "failed")
  /\ OnlyBoots

-----------------------------------------------------------------------------
(* Commit.  What is abstracted is the run's volume: a resting, complete    *)
(* tree that the commit has marked as well (see RunLifecycle).             *)

CommitAt(c, phase) == commits[c].phase = phase
CommitTo(c, phase) == commits' = [commits EXCEPT ![c].phase = phase]
OnlyCommits == UNCHANGED <<boots, volume, removals, crashes>>

\* MkdirAll(sd) and a fresh name.
CommitStarts(c, g) ==
  /\ CommitAt(c, "idle")
  /\ g \notin used
  /\ used' = used \cup {g}
  /\ slugDir' = TRUE
  /\ commits' = [commits EXCEPT ![c] = [IdleCommit EXCEPT !.phase = "mark", !.gen = g]]
  /\ OnlyCommits /\ UNCHANGED <<manifest, dirs, files, inUse>>

CommitMarks(c) ==
  /\ CommitAt(c, "mark")
  /\ Mark(commits[c].gen)
  /\ CommitTo(c, "mkdir")
  /\ OnlyCommits /\ UNCHANGED <<disk, used>>

\* The root of the copy ...
CommitMakesDir(c) ==
  /\ CommitAt(c, "mkdir")
  /\ slugDir' = TRUE
  /\ dirs' = dirs \cup {commits[c].gen}
  /\ commits' = [commits EXCEPT ![c].phase = "copy", ![c].todo = Parts]
  /\ OnlyCommits /\ UNCHANGED <<manifest, files, inUse, used>>

\* ... and its files, each after a MkdirAll of its parents.
CommitCopies(c, p) ==
  /\ CommitAt(c, "copy") /\ p \in commits[c].todo
  /\ slugDir' = TRUE
  /\ dirs' = dirs \cup {commits[c].gen}
  /\ files' = files \cup {<<commits[c].gen, p>>}
  /\ commits' = [commits EXCEPT ![c].todo = @ \ {p}]
  /\ OnlyCommits /\ UNCHANGED <<manifest, inUse, used>>

\* The copy, or the writing of the manifest, fails.
CommitBreaks(c) ==
  /\ commits[c].phase \in {"mkdir", "copy"}
  /\ CommitTo(c, "abort")
  /\ OnlyCommits /\ UNCHANGED <<disk, inUse, used>>

\* Mutant of CommitAborts: the generation stays marked.
CommitAbortsMarked(c) ==
  /\ CommitAt(c, "abort")
  /\ dirs' = dirs \ {commits[c].gen}
  /\ files' = {f \in files : f[1] # commits[c].gen}
  /\ commits' = [commits EXCEPT ![c] = IdleCommit]
  /\ OnlyCommits /\ UNCHANGED <<slugDir, manifest, inUse, used>>

CommitAborts(c) ==
  /\ CommitAt(c, "abort")
  /\ Unmark(commits[c].gen)
  /\ dirs' = dirs \ {commits[c].gen}
  /\ files' = {f \in files : f[1] # commits[c].gen}
  /\ commits' = [commits EXCEPT ![c] = IdleCommit]
  /\ OnlyCommits /\ UNCHANGED <<slugDir, manifest, used>>

\* Mutant of CommitPublishes: the manifest is swapped before the copy ends.
CommitPublishesEarly(c) ==
  /\ CommitAt(c, "copy") /\ slugDir
  /\ manifest' = commits[c].gen
  /\ IF commits[c].todo = {} THEN CommitTo(c, "unmark") ELSE UNCHANGED commits
  /\ OnlyCommits /\ UNCHANGED <<slugDir, dirs, files, inUse, used>>

\* writeManifest: atomic, and without a slug directory it fails.
CommitPublishes(c) ==
  /\ CommitAt(c, "copy") /\ commits[c].todo = {}
  /\ slugDir
  /\ manifest' = commits[c].gen
  /\ CommitTo(c, "unmark")
  /\ OnlyCommits /\ UNCHANGED <<slugDir, dirs, files, inUse, used>>

CommitUnmarks(c) ==
  /\ CommitAt(c, "unmark")
  /\ Unmark(commits[c].gen)
  /\ CommitTo(c, "clean")
  /\ OnlyCommits /\ UNCHANGED <<disk, used>>

(* cleanGenerations: the manifest and the directory are read one after the *)
(* other, and every generation listed is tested and renamed in two steps.  *)

CleanReads(c) ==
  /\ CommitAt(c, "clean")
  /\ commits' = [commits EXCEPT ![c].phase = "list", ![c].current = manifest]
  /\ OnlyCommits /\ UNCHANGED <<disk, inUse, used>>

CleanLists(c) ==
  /\ CommitAt(c, "list")
  /\ commits' = [commits EXCEPT ![c].phase = "sift", ![c].entries = dirs]
  /\ OnlyCommits /\ UNCHANGED <<disk, inUse, used>>

CleanSpares(c, g) ==
  /\ CommitAt(c, "sift") /\ g \in commits[c].entries
  /\ g = commits[c].current \/ (Unlocked /\ inUse[g] > 0)
  /\ commits' = [commits EXCEPT ![c].entries = @ \ {g}]
  /\ OnlyCommits /\ UNCHANGED <<disk, inUse, used>>

CleanCondemns(c, g) ==
  /\ CommitAt(c, "sift") /\ g \in commits[c].entries
  /\ g # commits[c].current /\ Unlocked /\ inUse[g] = 0
  /\ commits' = [commits EXCEPT ![c].phase = "rename", ![c].gen = g,
                                ![c].entries = @ \ {g}]
  /\ OnlyCommits /\ UNCHANGED <<disk, inUse, used>>

\* Rename to t-g-*, then RemoveAll; a generation already gone is left alone.
CleanRenames(c) ==
  /\ CommitAt(c, "rename")
  /\ dirs' = dirs \ {commits[c].gen}
  /\ files' = {f \in files : f[1] # commits[c].gen}
  /\ CommitTo(c, "sift")
  /\ OnlyCommits /\ UNCHANGED <<slugDir, manifest, inUse, used>>

CleanEnds(c) ==
  /\ CommitAt(c, "sift") /\ commits[c].entries = {}
  /\ commits' = [commits EXCEPT ![c] = IdleCommit]
  /\ OnlyCommits /\ UNCHANGED <<disk, inUse, used>>

-----------------------------------------------------------------------------
(* Drop and Sweep. *)

RemovalAt(x, phase) == removals[x].phase = phase
Removing(x) == RemovalAt(x, "drop") \/ RemovalAt(x, "evict")
OnlyRemovals == UNCHANGED <<inUse, used, boots, volume, commits, crashes>>

\* Drop reads the manifest and lists the directory before it takes the mutex ...
DropReads(x) ==
  /\ RemovalAt(x, "idle") /\ manifest # NoGen
  /\ removals' = [removals EXCEPT ![x].phase = "list"]
  /\ OnlyRemovals /\ UNCHANGED disk

DropLists(x) ==
  /\ RemovalAt(x, "list")
  /\ removals' = [removals EXCEPT ![x] =
       IF slugDir THEN [@ EXCEPT !.phase = "lock", !.listed = dirs] ELSE IdleRemoval]
  /\ OnlyRemovals /\ UNCHANGED disk

\* RemoveAll, from what the directory holds now.
RemoveStarts(x, phase) ==
  removals' = [removals EXCEPT ![x].phase = phase, ![x].files = files,
                               ![x].manifest = (manifest # NoGen)]

\* ... and refuses when a generation it listed is in use.
DropLocks(x) ==
  /\ RemovalAt(x, "lock") /\ Unlocked
  /\ IF \E g \in removals[x].listed : inUse[g] > 0
     THEN removals' = [removals EXCEPT ![x] = IdleRemoval]
     ELSE RemoveStarts(x, "drop")
  /\ OnlyRemovals /\ UNCHANGED disk

\* Sweep finds the repo idle and removes it without holding the mutex;
\* c.sweeping keeps a second sweep out.
SweepStarts(x) ==
  /\ RemovalAt(x, "idle") /\ Unlocked
  /\ \A y \in Removers : ~RemovalAt(y, "evict")
  /\ slugDir /\ \A g \in Gens : inUse[g] = 0
  /\ RemoveStarts(x, "evict")
  /\ OnlyRemovals /\ UNCHANGED disk

UnlinkFile(x, f) ==
  /\ Removing(x) /\ f \in files
  /\ files' = files \ {f}
  /\ removals' = [removals EXCEPT ![x].files = @ \ {f}]
  /\ OnlyRemovals /\ UNCHANGED <<slugDir, manifest, dirs>>

UnlinkManifest(x) ==
  /\ Removing(x) /\ manifest # NoGen
  /\ manifest' = NoGen
  /\ removals' = [removals EXCEPT ![x].manifest = FALSE]
  /\ OnlyRemovals /\ UNCHANGED <<slugDir, dirs, files>>

\* What it found is gone; what was added since keeps its directories.
RemoveEnds(x) ==
  /\ Removing(x)
  /\ removals[x].files \cap files = {}
  /\ removals[x].manifest => manifest = NoGen
  /\ dirs' = {g \in dirs : PartsOf(g) # {}}
  /\ slugDir' = (dirs' # {} \/ manifest # NoGen)
  /\ removals' = [removals EXCEPT ![x] = IdleRemoval]
  /\ OnlyRemovals /\ UNCHANGED <<manifest, files>>

\* The disk is all that survives; a run being made is not booted again.
Crash ==
  /\ crashes < CrashBound
  /\ crashes' = crashes + 1
  /\ inUse' = [g \in Gens |-> 0]
  /\ boots' = [b \in Boots |->
       IF boots[b] = NewBoot THEN NewBoot
       ELSE IF boots[b].phase \in {"warm", "cold"} THEN boots[b]
       ELSE [boots[b] EXCEPT !.phase = "failed"]]
  /\ commits' = [c \in Committers |-> IdleCommit]
  /\ removals' = [x \in Removers |-> IdleRemoval]
  /\ UNCHANGED <<disk, used, volume>>

-----------------------------------------------------------------------------
BootStep(b) ==
  \/ BootReads(b) \/ BootMarks(b) \/ BootLists(b)
  \/ \E p \in Parts : BootCopies(b, p)
  \/ BootCopied(b) \/ BootFinishes(b) \/ BootRetries(b) \/ BootFails(b)

CommitStep(c) ==
  \/ CommitMarks(c) \/ CommitMakesDir(c)
  \/ \E p \in Parts : CommitCopies(c, p)
  \/ CommitBreaks(c) \/ CommitAborts(c) \/ CommitPublishes(c) \/ CommitUnmarks(c)
  \/ CleanReads(c) \/ CleanLists(c) \/ CleanRenames(c) \/ CleanEnds(c)
  \/ \E g \in Gens : CleanSpares(c, g) \/ CleanCondemns(c, g)

RemoveStep(x) ==
  \/ \E f \in files : UnlinkFile(x, f)
  \/ UnlinkManifest(x) \/ RemoveEnds(x)

Next ==
  \/ \E b \in Boots : BootStep(b)
  \/ \E c \in Committers : CommitStep(c)
  \/ \E c \in Committers, g \in Gens : CommitStarts(c, g)
  \/ \E x \in Removers :
       DropReads(x) \/ DropLists(x) \/ DropLocks(x) \/ SweepStarts(x) \/ RemoveStep(x)
  \/ Crash

Spec == Init /\ [][Next]_vars

\* A boot keeps running, and whoever deletes, maybe with the mutex in hand,
\* gets to the end of it.
Fairness ==
  /\ \A b \in Boots : WF_vars(BootStep(b))
  /\ \A x \in Removers : WF_vars(RemoveStep(x))

FairSpec == Spec /\ Fairness

-----------------------------------------------------------------------------
(* Properties *)

TypeOK ==
  /\ slugDir \in BOOLEAN
  /\ manifest \in Gens \cup {NoGen}
  /\ dirs \subseteq used /\ used \subseteq Gens
  /\ files \subseteq dirs \X Parts
  /\ inUse \in [Gens -> Nat]
  /\ boots \in [Boots -> [phase : BootPhases, gen : Gens \cup {NoGen},
                          todo : SUBSET Parts, tries : 0 .. Tries]]
  /\ volume \in [Boots -> SUBSET Parts]
  /\ commits \in [Committers ->
       [phase : CommitPhases, gen : Gens \cup {NoGen}, todo : SUBSET Parts,
        current : Gens \cup {NoGen}, entries : SUBSET Gens]]
  /\ removals \in [Removers ->
       [phase : RemovePhases, listed : SUBSET Gens, files : SUBSET (Gens \X Parts),
        manifest : BOOLEAN]]
  /\ crashes \in 0 .. CrashBound

Holders(g) ==
  {b \in Boots : boots[b].gen = g
     /\ boots[b].phase \in {"list", "copy", "copied", "vanished"}}
  \cup
  {c \in Committers : commits[c].gen = g
     /\ commits[c].phase \in {"mkdir", "copy", "abort", "unmark"}}

\* A generation is marked once for every boot and commit that works on it and
\* no more: a mark too few lets it be deleted, one too many keeps it, and the
\* whole template, for good.
MarksAreOwned == \A g \in Gens : inUse[g] = Cardinality(Holders(g))

\* "the contract is complete-generation-or-cold-boot": a boot that reports a
\* warm volume has copied all of it.
WarmBootsAreComplete ==
  \A b \in Boots : boots[b].phase = "warm" => volume[b] = Parts

\* A boot that is not warm left nothing of a template in the volume.
ColdBootsAreEmpty ==
  \A b \in Boots : boots[b].phase = "cold" => volume[b] = {}

\* "concurrent boots see either the old or the new template in full": with any
\* number of commits, cleaners and crashes, the generation the manifest names
\* is on disk with all its parts, or, by the cleaners' race that
\* PublishedSurvives is about, gone as a whole; it is never there in part.
PublishedIsWhole == manifest \in dirs => PartsOf(manifest) = Parts

\* "This is a retry, never an error": a boot comes to an end, also when the
\* generations vanish under it one after the other.
BootsEnd ==
  \A b \in Boots : <>(boots[b].phase \in {"warm", "cold", "failed"})

-----------------------------------------------------------------------------
(* What the comments say and the code does not do: see the README. *)

\* "re-read at cleanup time, so a concurrently published newer generation
\* survives": no cleaner takes away the generation the manifest names.
PublishedSurvives == manifest # NoGen => manifest \in dirs

=============================================================================

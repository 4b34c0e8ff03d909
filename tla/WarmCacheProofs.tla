-------------------------- MODULE WarmCacheProofs --------------------------
(***************************************************************************)
(* The warm template for every set of boots, committers, removers,         *)
(* generations and parts, and any number of crashes.                       *)
(*                                                                         *)
(* That the marks are exact (MarksAreOwned) holds whoever deletes.  That a *)
(* warm boot copied all of a template holds where nobody drops or sweeps   *)
(* it, and rests on more than the marks: a generation may be gone before   *)
(* it is marked.  Finished says what nobody can undo about a generation    *)
(* once it was published: it is on disk whole or not at all.               *)
(***************************************************************************)
EXTENDS WarmCache, FiniteSetTheorems, TLAPS

\* The phases in which a boot, and a commit, has its generation marked.
BootHolds == {"list", "copy", "copied", "vanished"}
CommitHolds == {"mkdir", "copy", "abort", "unmark"}

\* A boot that is past the manifest has read a generation there, and one that
\* is not through has an attempt left.
BootsHaveGenerations ==
  \A b \in Boots :
    /\ boots[b].phase \in {"mark"} \cup BootHolds => boots[b].gen \in Gens
    /\ boots[b].phase \notin {"warm", "cold", "failed"} => boots[b].tries < Tries

\* A commit's generation was given out to it.
CommitsHaveGenerations ==
  \A c \in Committers :
    commits[c].phase \in {"mark"} \cup CommitHolds => commits[c].gen \in used

TypeInv == TypeOK /\ BootsHaveGenerations /\ CommitsHaveGenerations

\* Drop, Sweep and the removals they start.
RemoverStep(x) ==
  DropReads(x) \/ DropLists(x) \/ DropLocks(x) \/ SweepStarts(x) \/ RemoveStep(x)

\* The steps of a commit: its own and the taking of a name.
CommitterStep(c) == CommitStep(c) \/ \E g \in Gens : CommitStarts(c, g)

-----------------------------------------------------------------------------
(* What the steps do to the boots and the commits. *)

BootRecord == [phase : BootPhases, gen : Gens \cup {NoGen},
               todo : SUBSET Parts, tries : 0 .. Tries]
CommitRecord == [phase : CommitPhases, gen : Gens \cup {NoGen}, todo : SUBSET Parts,
                 current : Gens \cup {NoGen}, entries : SUBSET Gens]
RemovalRecord == [phase : RemovePhases, listed : SUBSET Gens,
                  files : SUBSET (Gens \X Parts), manifest : BOOLEAN]

LEMMA InitTypeInv == Init => TypeInv
<1> SUFFICES ASSUME Init PROVE TypeInv
  OBVIOUS
<1>1. NewBoot \in BootRecord /\ IdleCommit \in CommitRecord
      /\ IdleRemoval \in RemovalRecord
  BY DEF NewBoot, IdleCommit, IdleRemoval, BootRecord, CommitRecord,
         RemovalRecord, BootPhases, CommitPhases, RemovePhases, Tries
<1>2. TypeOK
  <2>1. boots \in [Boots -> BootRecord] /\ commits \in [Committers -> CommitRecord]
        /\ removals \in [Removers -> RemovalRecord]
    BY <1>1 DEF Init
  <2>2. crashes \in 0 .. CrashBound /\ volume \in [Boots -> SUBSET Parts]
    BY BoundIsNat DEF Init
  <2>3. inUse \in [Gens -> Nat]
    BY DEF Init
  <2>4. QED
    BY <2>1, <2>2, <2>3 DEF Init, TypeOK, BootRecord, CommitRecord, RemovalRecord
<1>3. BootsHaveGenerations /\ CommitsHaveGenerations
  BY DEF Init, NewBoot, IdleCommit, BootsHaveGenerations, BootHolds,
         CommitsHaveGenerations, CommitHolds, Tries
<1>4. QED
  BY <1>2, <1>3 DEF TypeInv

\* A boot's step changes that boot alone; its generation only by reading the
\* manifest, and its attempts only by a retry.
LEMMA BootChanges ==
  ASSUME TypeInv, NEW b \in Boots, BootStep(b)
  PROVE  /\ boots'[b] \in BootRecord
         /\ \A d \in Boots : d # b => boots'[d] = boots[d]
         /\ boots' \in [Boots -> BootRecord]
         /\ BootsHaveGenerations'
         /\ OnlyBoots
<1> USE DEF BootAt, BootTo, BootPhases, TypeInv
<1>1. boots \in [Boots -> BootRecord] /\ boots[b] \in BootRecord
  BY DEF TypeOK, BootRecord
<1>2. manifest \in Gens \cup {NoGen}
  BY DEF TypeOK
<1>3. \A g \in Gens : PartsOf(g) \subseteq Parts
  BY DEF PartsOf
<1>4. OnlyBoots
  BY DEF BootStep, BootReads, BootMarks, BootLists, BootCopies, BootCopied,
         BootFinishes, BootRetries, Retries, BootFails
<1>5. \E rec \in BootRecord :
        /\ boots' = [boots EXCEPT ![b] = rec]
        /\ rec.phase \in {"mark"} \cup BootHolds => rec.gen \in Gens
        /\ rec.phase \notin {"warm", "cold", "failed"} => rec.tries < Tries
  <2> DEFINE Fits(rec) ==
        /\ rec \in BootRecord
        /\ boots' = [boots EXCEPT ![b] = rec]
        /\ rec.phase \in {"mark"} \cup BootHolds => rec.gen \in Gens
        /\ rec.phase \notin {"warm", "cold", "failed"} => rec.tries < Tries
  <2>0. /\ boots[b].phase \in {"mark"} \cup BootHolds => boots[b].gen \in Gens
        /\ boots[b].phase \notin {"warm", "cold", "failed"} => boots[b].tries < Tries
    BY DEF BootsHaveGenerations
  <2>1. CASE BootReads(b)
    <3>1. CASE manifest = NoGen
      <4>1. Fits([boots[b] EXCEPT !.phase = "cold"])
        BY <1>1, <2>0, <2>1, <3>1 DEF BootReads, BootRecord, BootHolds
      <4>2. QED
        BY <4>1
    <3>2. CASE manifest # NoGen
      <4>1. Fits([boots[b] EXCEPT !.phase = "mark", !.gen = manifest])
        BY <1>1, <1>2, <2>0, <2>1, <3>2 DEF BootReads, BootRecord, BootHolds
      <4>2. QED
        BY <4>1
    <3>3. QED
      BY <3>1, <3>2
  <2>2. CASE BootMarks(b)
    <3>1. Fits([boots[b] EXCEPT !.phase = "list"])
      BY <1>1, <2>0, <2>2 DEF BootMarks, BootRecord, BootHolds
    <3>2. QED
      BY <3>1
  <2>3. CASE BootLists(b)
    <3>1. CASE boots[b].gen \in dirs
      <4>1. Fits([boots[b] EXCEPT !.phase = "copy", !.todo = PartsOf(boots[b].gen)])
        BY <1>1, <1>3, <2>0, <2>3, <3>1 DEF BootLists, BootRecord, BootHolds
      <4>2. QED
        BY <4>1
    <3>2. CASE boots[b].gen \notin dirs
      <4>1. Fits([boots[b] EXCEPT !.phase = "vanished"])
        BY <1>1, <2>0, <2>3, <3>2 DEF BootLists, BootRecord, BootHolds
      <4>2. QED
        BY <4>1
    <3>3. QED
      BY <3>1, <3>2
  <2>4. CASE \E p \in Parts : BootCopies(b, p)
    <3>1. PICK p \in Parts : BootCopies(b, p)
      BY <2>4
    <3>2. \/ Fits([boots[b] EXCEPT !.todo = boots[b].todo \ {p}])
          \/ Fits([boots[b] EXCEPT !.phase = "vanished"])
      BY <1>1, <2>0, <3>1 DEF BootCopies, BootRecord, BootHolds
    <3>3. QED
      BY <3>2
  <2>5. CASE BootCopied(b) \/ BootFinishes(b) \/ BootFails(b)
    <3>1. \E phase \in {"copied", "warm", "failed"} :
            Fits([boots[b] EXCEPT !.phase = phase])
      BY <1>1, <2>0, <2>5 DEF BootCopied, BootFinishes, BootFails, BootRecord, BootHolds
    <3>2. QED
      BY <3>1
  <2>6. CASE BootRetries(b)
    <3>1. boots[b].tries + 1 \in 0 .. Tries
      BY <1>1, <2>0, <2>6 DEF BootRetries, Retries, BootRecord, Tries
    <3>2. Fits([boots[b] EXCEPT !.tries = boots[b].tries + 1,
                  !.phase = IF boots[b].tries + 1 = Tries THEN "cold" ELSE "read"])
      BY <1>1, <2>0, <2>6, <3>1 DEF BootRetries, Retries, BootRecord, BootHolds, Tries
    <3>3. QED
      BY <3>2
  <2>7. QED
    BY <2>1, <2>2, <2>3, <2>4, <2>5, <2>6 DEF BootStep
<1>6. BootsHaveGenerations'
  BY <1>1, <1>5 DEF BootsHaveGenerations
<1>7. QED
  BY <1>1, <1>4, <1>5, <1>6

\* A commit's step changes that commit alone, and takes a name only from those
\* not given out.
LEMMA CommitChanges ==
  ASSUME TypeInv, NEW c \in Committers, CommitterStep(c)
  PROVE  /\ commits'[c] \in CommitRecord
         /\ \A d \in Committers : d # c => commits'[d] = commits[d]
         /\ commits' \in [Committers -> CommitRecord]
         /\ CommitsHaveGenerations'
         /\ used \subseteq used' /\ used' \subseteq Gens
         /\ OnlyCommits
<1> USE DEF CommitAt, CommitTo, CommitPhases, TypeInv, OnlyCommits, disk
<1>1. commits \in [Committers -> CommitRecord] /\ commits[c] \in CommitRecord
  BY DEF TypeOK, CommitRecord
<1>2. manifest \in Gens \cup {NoGen} /\ dirs \subseteq Gens /\ used \subseteq Gens
  BY DEF TypeOK
<1>3. IdleCommit \in CommitRecord
  BY DEF IdleCommit, CommitRecord
<1>4. OnlyCommits /\ used \subseteq used' /\ used' \subseteq Gens
  <2>1. CASE \E g \in Gens : CommitStarts(c, g)
    BY <1>2, <2>1 DEF CommitStarts
  <2>2. CASE CommitStep(c)
    <3>1. OnlyCommits /\ used' = used
      BY <2>2 DEF CommitStep, CommitMarks, CommitMakesDir, CommitCopies,
           CommitBreaks, CommitAborts, CommitPublishes, CommitUnmarks, CleanReads,
           CleanLists, CleanRenames, CleanEnds, CleanSpares, CleanCondemns
    <3>2. QED
      BY <1>2, <3>1
  <2>3. QED
    BY <2>1, <2>2 DEF CommitterStep
<1>5. \E rec \in CommitRecord :
        /\ commits' = [commits EXCEPT ![c] = rec]
        /\ rec.phase \in {"mark"} \cup CommitHolds => rec.gen \in used'
  <2> DEFINE Fits(rec) ==
        /\ rec \in CommitRecord
        /\ commits' = [commits EXCEPT ![c] = rec]
        /\ rec.phase \in {"mark"} \cup CommitHolds => rec.gen \in used'
  <2>0. commits[c].phase \in {"mark"} \cup CommitHolds => commits[c].gen \in used'
    BY <1>4 DEF CommitsHaveGenerations
  <2>1. ASSUME NEW g \in Gens, CommitStarts(c, g)
        PROVE  Fits([IdleCommit EXCEPT !.phase = "mark", !.gen = g])
    BY <1>3, <2>1 DEF CommitStarts, IdleCommit, CommitRecord, CommitHolds
  <2>2. CASE CommitMarks(c) \/ CommitBreaks(c) \/ CommitPublishes(c)
               \/ CommitUnmarks(c) \/ CleanRenames(c)
    <3>1. \E phase \in {"mkdir", "abort", "unmark", "clean", "sift"} :
            Fits([commits[c] EXCEPT !.phase = phase])
      BY <1>1, <2>0, <2>2 DEF CommitMarks, CommitBreaks, CommitPublishes,
           CommitUnmarks, CleanRenames, CommitRecord, CommitHolds
    <3>2. QED
      BY <3>1
  <2>3. CASE CommitMakesDir(c)
    <3>1. Fits([commits[c] EXCEPT !.phase = "copy", !.todo = Parts])
      BY <1>1, <2>0, <2>3 DEF CommitMakesDir, CommitRecord, CommitHolds
    <3>2. QED
      BY <3>1
  <2>4. ASSUME NEW p \in Parts, CommitCopies(c, p)
        PROVE  Fits([commits[c] EXCEPT !.todo = commits[c].todo \ {p}])
    BY <1>1, <2>0, <2>4 DEF CommitCopies, CommitRecord, CommitHolds
  <2>5. CASE CommitAborts(c) \/ CleanEnds(c)
    <3>1. Fits(IdleCommit)
      BY <1>3, <2>5 DEF CommitAborts, CleanEnds, IdleCommit, CommitHolds
    <3>2. QED
      BY <3>1
  <2>6. CASE CleanReads(c)
    <3>1. Fits([commits[c] EXCEPT !.phase = "list", !.current = manifest])
      BY <1>1, <1>2, <2>6 DEF CleanReads, CommitRecord, CommitHolds
    <3>2. QED
      BY <3>1
  <2>7. CASE CleanLists(c)
    <3>1. Fits([commits[c] EXCEPT !.phase = "sift", !.entries = dirs])
      BY <1>1, <1>2, <2>7 DEF CleanLists, CommitRecord, CommitHolds
    <3>2. QED
      BY <3>1
  <2>8. ASSUME NEW g \in Gens, CleanSpares(c, g)
        PROVE  Fits([commits[c] EXCEPT !.entries = commits[c].entries \ {g}])
    BY <1>1, <2>8 DEF CleanSpares, CommitRecord, CommitHolds
  <2>9. ASSUME NEW g \in Gens, CleanCondemns(c, g)
        PROVE  Fits([commits[c] EXCEPT !.phase = "rename", !.gen = g,
                                       !.entries = commits[c].entries \ {g}])
    BY <1>1, <2>9 DEF CleanCondemns, CommitRecord, CommitHolds
  <2>10. QED
    BY <2>1, <2>2, <2>3, <2>4, <2>5, <2>6, <2>7, <2>8, <2>9
       DEF CommitterStep, CommitStep
<1>6. CommitsHaveGenerations'
  <2>1. \A d \in Committers : d # c => commits'[d] = commits[d]
    BY <1>1, <1>5
  <2>2. QED
    BY <1>1, <1>4, <1>5, <2>1 DEF CommitsHaveGenerations
<1>7. QED
  BY <1>1, <1>4, <1>5, <1>6

-----------------------------------------------------------------------------
(* Type correctness. *)

\* Whoever marks or unmarks leaves a natural number.
LEMMA MarksAreNat ==
  ASSUME inUse \in [Gens -> Nat], NEW g, Mark(g) \/ Unmark(g)
  PROVE  inUse' \in [Gens -> Nat]
BY DEF Mark, Unmark

LEMMA BootTypeInv ==
  ASSUME TypeInv, NEW b \in Boots, BootStep(b) PROVE TypeInv'
<1> USE DEF TypeInv
<1>1. /\ boots' \in [Boots -> BootRecord] /\ BootsHaveGenerations' /\ OnlyBoots
  BY BootChanges
<1>2. inUse' \in [Gens -> Nat]
  BY MarksAreNat DEF TypeOK, BootStep, BootReads, BootMarks, BootLists, BootCopies,
         BootCopied, BootFinishes, BootRetries, Retries, BootFails
<1>3. volume' \in [Boots -> SUBSET Parts]
  <2>1. volume \in [Boots -> SUBSET Parts]
    BY DEF TypeOK
  <2>2. \/ volume' = volume
        \/ \E v \in SUBSET Parts : volume' = [volume EXCEPT ![b] = v]
    <3>1. ASSUME NEW p \in Parts, BootCopies(b, p)
          PROVE  volume' = volume \/ volume' = [volume EXCEPT ![b] = volume[b] \cup {p}]
      BY <3>1 DEF BootCopies
    <3>2. \A p \in Parts : volume[b] \cup {p} \in SUBSET Parts
      BY <2>1
    <3>3. QED
      BY <3>1, <3>2 DEF BootStep, BootReads, BootMarks, BootLists, BootCopied,
           BootFinishes, BootRetries, Clears, BootFails
  <2>3. QED
    BY <2>1, <2>2
<1>4. TypeOK'
  BY <1>1, <1>2, <1>3 DEF TypeOK, OnlyBoots, disk, BootRecord
<1>5. CommitsHaveGenerations'
  BY <1>1 DEF CommitsHaveGenerations, OnlyBoots
<1>6. QED
  BY <1>1, <1>4, <1>5

\* What a commit's step does to the directories and their files.
LEMMA CommitDisk ==
  ASSUME TypeInv, NEW c \in Committers, CommitterStep(c)
  PROVE  /\ slugDir' \in BOOLEAN
         /\ manifest' \in Gens \cup {NoGen}
         /\ dirs' \subseteq used'
         /\ files' \subseteq dirs' \X Parts
         /\ inUse' \in [Gens -> Nat]
<1> USE DEF TypeInv, CommitAt, disk
<1>1. used \subseteq used'
  BY CommitChanges
<1>2. commits[c].phase \in {"mark"} \cup CommitHolds => commits[c].gen \in used
  BY DEF CommitsHaveGenerations
<1>3. CASE CommitMakesDir(c)
  BY <1>1, <1>2, <1>3 DEF CommitMakesDir, TypeOK, CommitHolds
<1>4. CASE \E p \in Parts : CommitCopies(c, p)
  BY <1>1, <1>2, <1>4 DEF CommitCopies, TypeOK, CommitHolds
<1>5. CASE CommitAborts(c) \/ CleanRenames(c)
  <2>1. /\ dirs' = dirs \ {commits[c].gen}
        /\ files' = {f \in files : f[1] # commits[c].gen}
        /\ slugDir' = slugDir /\ manifest' = manifest
    BY <1>5 DEF CommitAborts, CleanRenames
  <2>2. \A f \in files : f = <<f[1], f[2]>> /\ f[1] \in dirs /\ f[2] \in Parts
    BY DEF TypeOK
  <2>3. files' \subseteq dirs' \X Parts
    BY <2>1, <2>2
  <2>4. inUse' \in [Gens -> Nat]
    BY <1>5, MarksAreNat DEF CommitAborts, CleanRenames, TypeOK
  <2>5. QED
    BY <1>1, <2>1, <2>3, <2>4 DEF TypeOK
<1>6. CASE CommitPublishes(c)
  BY <1>1, <1>2, <1>6 DEF CommitPublishes, TypeOK, CommitHolds
<1>7. CASE CommitMarks(c) \/ CommitUnmarks(c)
  BY <1>1, <1>7, MarksAreNat DEF CommitMarks, CommitUnmarks, TypeOK
<1>8. CASE \/ CommitBreaks(c) \/ CleanReads(c) \/ CleanLists(c) \/ CleanEnds(c)
           \/ \E g \in Gens : \/ CleanSpares(c, g) \/ CleanCondemns(c, g)
                              \/ CommitStarts(c, g)
  BY <1>1, <1>8 DEF CommitBreaks, CleanReads, CleanLists, CleanEnds, CleanSpares,
       CleanCondemns, CommitStarts, TypeOK
<1>9. QED
  BY <1>3, <1>4, <1>5, <1>6, <1>7, <1>8 DEF CommitterStep, CommitStep

LEMMA CommitTypeInv ==
  ASSUME TypeInv, NEW c \in Committers, CommitterStep(c) PROVE TypeInv'
<1>1. /\ commits' \in [Committers -> CommitRecord] /\ CommitsHaveGenerations'
      /\ used' \subseteq Gens /\ OnlyCommits
  BY CommitChanges
<1>2. TypeOK'
  BY <1>1, CommitDisk DEF TypeInv, TypeOK, OnlyCommits, CommitRecord
<1>3. BootsHaveGenerations'
  BY <1>1 DEF TypeInv, BootsHaveGenerations, OnlyCommits
<1>4. QED
  BY <1>1, <1>2, <1>3 DEF TypeInv

\* Whoever removes takes away directories and files, and at most the manifest.
LEMMA RemoverDisk ==
  ASSUME TypeInv, NEW x \in Removers, RemoverStep(x)
  PROVE  /\ slugDir' \in BOOLEAN
         /\ manifest' \in {manifest, NoGen}
         /\ dirs' \subseteq dirs
         /\ files' \subseteq files
         /\ files' \subseteq dirs' \X Parts
         /\ removals' \in [Removers -> RemovalRecord]
         /\ OnlyRemovals
<1> USE DEF TypeInv, RemovalAt, disk
<1>1. removals \in [Removers -> RemovalRecord] /\ removals[x] \in RemovalRecord
  BY DEF TypeOK, RemovalRecord
<1>2. IdleRemoval \in RemovalRecord
  BY DEF IdleRemoval, RemovalRecord, RemovePhases
<1>3. dirs \subseteq Gens /\ files \subseteq Gens \X Parts /\ slugDir \in BOOLEAN
      /\ files \subseteq dirs \X Parts
  BY DEF TypeOK
<1>4. ASSUME NEW phase \in RemovePhases, RemoveStarts(x, phase)
      PROVE  removals' \in [Removers -> RemovalRecord]
  <2>1. [removals[x] EXCEPT !.phase = phase, !.files = files,
                            !.manifest = (manifest # NoGen)] \in RemovalRecord
    BY <1>1, <1>3 DEF RemovalRecord
  <2>2. removals' = [removals EXCEPT ![x] =
          [removals[x] EXCEPT !.phase = phase, !.files = files,
                              !.manifest = (manifest # NoGen)]]
    BY <1>4 DEF RemoveStarts
  <2>3. QED
    BY <1>1, <2>1, <2>2
<1>5. CASE DropReads(x)
  <2>1. [removals[x] EXCEPT !.phase = "list"] \in RemovalRecord
    BY <1>1 DEF RemovalRecord, RemovePhases
  <2>2. QED
    BY <1>1, <1>3, <1>5, <2>1 DEF DropReads, OnlyRemovals
<1>6. CASE DropLists(x)
  <2>1. [removals[x] EXCEPT !.phase = "lock", !.listed = dirs] \in RemovalRecord
    BY <1>1, <1>3 DEF RemovalRecord, RemovePhases
  <2>2. QED
    BY <1>1, <1>2, <1>3, <1>6, <2>1 DEF DropLists, OnlyRemovals
<1>7. CASE DropLocks(x) \/ SweepStarts(x)
  BY <1>1, <1>2, <1>3, <1>4, <1>7
     DEF DropLocks, SweepStarts, OnlyRemovals, RemovePhases
<1>8. CASE \E f \in files : UnlinkFile(x, f)
  <2>1. PICK f \in files : UnlinkFile(x, f)
    BY <1>8
  <2>2. [removals[x] EXCEPT !.files = removals[x].files \ {f}] \in RemovalRecord
    BY <1>1 DEF RemovalRecord
  <2>3. QED
    BY <1>1, <1>3, <2>1, <2>2 DEF UnlinkFile, OnlyRemovals
<1>9. CASE UnlinkManifest(x)
  <2>1. [removals[x] EXCEPT !.manifest = FALSE] \in RemovalRecord
    BY <1>1 DEF RemovalRecord
  <2>2. QED
    BY <1>1, <1>3, <1>9, <2>1 DEF UnlinkManifest, OnlyRemovals
<1>10. CASE RemoveEnds(x)
  <2>1. \A f \in files : f = <<f[1], f[2]>> /\ f[1] \in dirs /\ f[2] \in Parts
    BY DEF TypeOK
  <2>2. \A f \in files : f[1] \in dirs'
    BY <1>10, <2>1 DEF RemoveEnds, PartsOf
  <2>3. files' = files /\ manifest' = manifest /\ dirs' \subseteq dirs
        /\ slugDir' \in BOOLEAN /\ OnlyRemovals
    BY <1>10 DEF RemoveEnds
  <2>4. removals' \in [Removers -> RemovalRecord]
    BY <1>1, <1>2, <1>10 DEF RemoveEnds
  <2>5. QED
    BY <2>1, <2>2, <2>3, <2>4
<1>11. QED
  BY <1>5, <1>6, <1>7, <1>8, <1>9, <1>10 DEF RemoverStep, RemoveStep

LEMMA RemoverTypeInv ==
  ASSUME TypeInv, NEW x \in Removers, RemoverStep(x) PROVE TypeInv'
<1>1. TypeOK'
  BY RemoverDisk DEF TypeInv, TypeOK, OnlyRemovals, RemovalRecord
<1>2. BootsHaveGenerations' /\ CommitsHaveGenerations'
  BY RemoverDisk DEF TypeInv, BootsHaveGenerations, CommitsHaveGenerations, OnlyRemovals
<1>3. QED
  BY <1>1, <1>2 DEF TypeInv

\* After a crash nobody holds a generation.
LEMMA CrashEndsAll ==
  ASSUME TypeInv, Crash
  PROVE  /\ boots' \in [Boots -> BootRecord]
         /\ \A b \in Boots :
              \/ boots'[b] = boots[b]
                 /\ (boots[b] = NewBoot \/ boots[b].phase \in {"warm", "cold"})
              \/ boots'[b].phase = "failed"
         /\ \A b \in Boots : boots'[b].phase \notin {"mark"} \cup BootHolds
         /\ commits' = [c \in Committers |-> IdleCommit]
<1>1. \A b \in Boots : boots[b] \in BootRecord
  BY DEF TypeInv, TypeOK, BootRecord
<1>2. \A b \in Boots : [boots[b] EXCEPT !.phase = "failed"] \in BootRecord
                        /\ [boots[b] EXCEPT !.phase = "failed"].phase = "failed"
  BY <1>1 DEF BootRecord, BootPhases
<1>3. QED
  BY <1>1, <1>2 DEF Crash, BootHolds, NewBoot

LEMMA CrashTypeInv == TypeInv /\ Crash => TypeInv'
<1> SUFFICES ASSUME TypeInv, Crash PROVE TypeInv'
  OBVIOUS
<1>1. IdleCommit \in CommitRecord /\ IdleRemoval \in RemovalRecord
  BY DEF IdleCommit, IdleRemoval, CommitRecord, RemovalRecord, CommitPhases, RemovePhases
<1>2. commits' \in [Committers -> CommitRecord] /\ removals' \in [Removers -> RemovalRecord]
  BY <1>1 DEF Crash
<1>3. crashes' \in 0 .. CrashBound /\ inUse' \in [Gens -> Nat]
  BY BoundIsNat DEF Crash, TypeInv, TypeOK
<1>4. TypeOK'
  BY <1>2, <1>3, CrashEndsAll
     DEF Crash, TypeInv, TypeOK, BootRecord, CommitRecord, RemovalRecord, disk
<1>5. BootsHaveGenerations'
  BY CrashEndsAll DEF BootsHaveGenerations, TypeInv, NewBoot
<1>6. CommitsHaveGenerations'
  BY CrashEndsAll DEF CommitsHaveGenerations, IdleCommit, CommitHolds
<1>7. QED
  BY <1>4, <1>5, <1>6 DEF TypeInv

LEMMA NextTypeInv == TypeInv /\ [Next]_vars => TypeInv'
<1> SUFFICES ASSUME TypeInv, [Next]_vars PROVE TypeInv'
  OBVIOUS
<1>1. CASE UNCHANGED vars
  BY <1>1 DEF TypeInv, TypeOK, BootsHaveGenerations, CommitsHaveGenerations, vars, disk
<1>2. QED
  BY <1>1, BootTypeInv, CommitTypeInv, RemoverTypeInv, CrashTypeInv
     DEF Next, CommitterStep, RemoverStep

\* Every variable of the template keeps its type, a boot never makes an attempt
\* more than Tries, and every file is in a generation that was given out.
THEOREM TypeCorrect == Spec => []TypeOK
<1>1. TypeInv => TypeOK
  BY DEF TypeInv
<1>2. QED
  BY <1>1, InitTypeInv, NextTypeInv, PTL DEF Spec

-----------------------------------------------------------------------------
(* The marks.  Holders counts boots and commits together, who are apart, so *)
(* that one more holder is one more mark.                                   *)

LEMMA HoldersAreFinite ==
  \A g : IsFiniteSet(Holders(g)) /\ Cardinality(Holders(g)) \in Nat
<1>1. \A g : Holders(g) \subseteq Boots \cup Committers
  BY DEF Holders
<1>2. QED
  BY <1>1, PartsExist, FS_Subset, FS_CardinalityType

\* A mark for one more holder, or one mark less for one holder less, keeps the
\* count exact.
LEMMA MarkIsCounted ==
  ASSUME TypeOK, MarksAreOwned, NEW h \in Gens, Mark(h), NEW a, a \notin Holders(h),
         \A g \in Gens : Holders(g)' = IF g = h THEN Holders(g) \cup {a} ELSE Holders(g)
  PROVE  MarksAreOwned'
<1>1. \A g \in Gens : inUse'[g] = IF g = h THEN inUse[g] + 1 ELSE inUse[g]
  BY DEF Mark, TypeOK
<1>2. Cardinality(Holders(h) \cup {a}) = Cardinality(Holders(h)) + 1
  BY HoldersAreFinite, FS_AddElement
<1>3. QED
  BY <1>1, <1>2 DEF MarksAreOwned

LEMMA UnmarkIsCounted ==
  ASSUME TypeOK, MarksAreOwned, NEW h \in Gens, Unmark(h), NEW a, a \in Holders(h),
         \A g \in Gens : Holders(g)' = IF g = h THEN Holders(g) \ {a} ELSE Holders(g)
  PROVE  MarksAreOwned'
<1>1. \A g \in Gens :
        inUse'[g] = IF g = h THEN (IF inUse[g] <= 1 THEN 0 ELSE inUse[g] - 1)
                    ELSE inUse[g]
  BY DEF Unmark, TypeOK
<1>2. Cardinality(Holders(h) \ {a}) = Cardinality(Holders(h)) - 1
  BY HoldersAreFinite, FS_RemoveElement
<1>3. Cardinality(Holders(h) \ {a}) \in Nat /\ Cardinality(Holders(h)) \in Nat
  BY HoldersAreFinite, FS_RemoveElement, FS_CardinalityType
<1>4. inUse[h] = Cardinality(Holders(h))
  BY DEF MarksAreOwned
<1>5. inUse'[h] = Cardinality(Holders(h)) - 1
  BY <1>1, <1>2, <1>3, <1>4
<1>6. QED
  BY <1>1, <1>2, <1>5 DEF MarksAreOwned

LEMMA MarksStay ==
  ASSUME MarksAreOwned, inUse' = inUse, \A g \in Gens : Holders(g)' = Holders(g)
  PROVE  MarksAreOwned'
BY DEF MarksAreOwned

\* Whether a boot, or a commit, holds a generation.
BootHasMarked(b, g) == boots[b].gen = g /\ boots[b].phase \in BootHolds
CommitHasMarked(c, g) == commits[c].gen = g /\ commits[c].phase \in CommitHolds

\* A step of one boot changes the holders by that boot at most.
LEMMA BootHolders ==
  ASSUME TypeInv, NEW b \in Boots, BootStep(b), NEW g
  PROVE  /\ b \in Holders(g) <=> BootHasMarked(b, g)
         /\ Holders(g)' = IF BootHasMarked(b, g)' THEN Holders(g) \cup {b}
                          ELSE Holders(g) \ {b}
<1>1. b \notin Committers
  BY ActorsAreApart
<1>2. commits' = commits /\ \A d \in Boots : d # b => boots'[d] = boots[d]
  BY BootChanges DEF OnlyBoots
<1>3. QED
  BY <1>1, <1>2 DEF Holders, BootHasMarked, BootHolds

LEMMA CommitHolders ==
  ASSUME TypeInv, NEW c \in Committers, CommitterStep(c), NEW g
  PROVE  /\ c \in Holders(g) <=> CommitHasMarked(c, g)
         /\ Holders(g)' = IF CommitHasMarked(c, g)' THEN Holders(g) \cup {c}
                          ELSE Holders(g) \ {c}
<1>1. c \notin Boots
  BY ActorsAreApart
<1>2. boots' = boots /\ \A d \in Committers : d # c => commits'[d] = commits[d]
  BY CommitChanges DEF OnlyCommits
<1>3. QED
  BY <1>1, <1>2 DEF Holders, CommitHasMarked, CommitHolds

LEMMA BootMarksOwned ==
  ASSUME TypeInv, MarksAreOwned, NEW b \in Boots, BootStep(b) PROVE MarksAreOwned'
<1> USE DEF BootAt, BootTo
<1>1. boots \in [Boots -> BootRecord] /\ boots[b] \in BootRecord /\ TypeOK
  BY DEF TypeInv, TypeOK, BootRecord
<1>2. boots[b].phase \in {"mark"} \cup BootHolds => boots[b].gen \in Gens
  BY DEF TypeInv, BootsHaveGenerations
<1>3. CASE BootMarks(b)
  <2>1. boots'[b].gen = boots[b].gen /\ boots'[b].phase = "list"
    BY <1>1, <1>3 DEF BootMarks, BootRecord
  <2>2. /\ boots[b].gen \in Gens /\ Mark(boots[b].gen)
        /\ \A g : ~BootHasMarked(b, g)
    BY <1>2, <1>3 DEF BootMarks, BootHasMarked, BootHolds
  <2>3. \A g : BootHasMarked(b, g)' <=> g = boots[b].gen
    BY <2>1 DEF BootHasMarked, BootHolds
  <2>4. b \notin Holders(boots[b].gen)
        /\ \A g \in Gens : Holders(g)' = IF g = boots[b].gen THEN Holders(g) \cup {b}
                                         ELSE Holders(g)
    <3>1. \A g : b \notin Holders(g)
      BY <2>2, BootHolders
    <3>2. \A g : Holders(g)' = IF g = boots[b].gen THEN Holders(g) \cup {b}
                              ELSE Holders(g) \ {b}
      BY <2>3, BootHolders
    <3>3. QED
      BY <3>1, <3>2
  <2>5. QED
    BY <1>1, <2>2, <2>4, MarkIsCounted
<1>4. CASE BootFinishes(b) \/ BootRetries(b) \/ BootFails(b)
  <2>1. boots'[b].phase \in {"warm", "read", "cold", "failed"}
    BY <1>1, <1>4 DEF BootFinishes, BootRetries, Retries, BootFails, BootRecord
  <2>2. boots[b].phase \in BootHolds /\ Unmark(boots[b].gen)
    BY <1>4 DEF BootFinishes, BootRetries, Retries, BootFails, BootHolds
  <2>3. \A g : ~BootHasMarked(b, g)' /\ (BootHasMarked(b, g) <=> g = boots[b].gen)
    BY <2>1, <2>2 DEF BootHasMarked, BootHolds
  <2>4. b \in Holders(boots[b].gen)
        /\ \A g \in Gens : Holders(g)' = IF g = boots[b].gen THEN Holders(g) \ {b}
                                         ELSE Holders(g)
    BY <2>3, BootHolders
  <2>5. QED
    BY <1>1, <1>2, <2>2, <2>4, UnmarkIsCounted
<1>5. CASE BootReads(b) \/ BootLists(b) \/ BootCopied(b) \/ \E p \in Parts : BootCopies(b, p)
  <2>1. inUse' = inUse
    BY <1>5 DEF BootReads, BootLists, BootCopied, BootCopies
  <2>2. \/ boots'[b].gen = boots[b].gen
           /\ boots[b].phase \in BootHolds /\ boots'[b].phase \in BootHolds
        \/ boots[b].phase = "read" /\ boots'[b].phase \in {"mark", "cold"}
    BY <1>1, <1>5 DEF BootReads, BootLists, BootCopied, BootCopies, BootRecord, BootHolds
  <2>3. \A g : BootHasMarked(b, g)' <=> BootHasMarked(b, g)
    BY <2>2 DEF BootHasMarked, BootHolds
  <2>4. \A g \in Gens : Holders(g)' = Holders(g)
    BY <2>3, BootHolders
  <2>5. QED
    BY <2>1, <2>4, MarksStay
<1>6. QED
  BY <1>3, <1>4, <1>5 DEF BootStep

LEMMA CommitMarksOwned ==
  ASSUME TypeInv, MarksAreOwned, NEW c \in Committers, CommitterStep(c)
  PROVE  MarksAreOwned'
<1> USE DEF CommitAt, CommitTo
<1>1. commits \in [Committers -> CommitRecord] /\ commits[c] \in CommitRecord /\ TypeOK
  BY DEF TypeInv, TypeOK, CommitRecord
<1>2. commits[c].phase \in {"mark"} \cup CommitHolds => commits[c].gen \in Gens
  BY DEF TypeInv, TypeOK, CommitsHaveGenerations
<1>3. CASE CommitMarks(c)
  <2>1. commits'[c].gen = commits[c].gen /\ commits'[c].phase = "mkdir"
    BY <1>1, <1>3 DEF CommitMarks, CommitRecord
  <2>2. /\ commits[c].gen \in Gens /\ Mark(commits[c].gen)
        /\ \A g : ~CommitHasMarked(c, g)
    BY <1>2, <1>3 DEF CommitMarks, CommitHasMarked, CommitHolds
  <2>3. \A g : CommitHasMarked(c, g)' <=> g = commits[c].gen
    BY <2>1 DEF CommitHasMarked, CommitHolds
  <2>4. c \notin Holders(commits[c].gen)
        /\ \A g \in Gens : Holders(g)' = IF g = commits[c].gen THEN Holders(g) \cup {c}
                                         ELSE Holders(g)
    <3>1. \A g : c \notin Holders(g)
      BY <2>2, CommitHolders
    <3>2. \A g : Holders(g)' = IF g = commits[c].gen THEN Holders(g) \cup {c}
                              ELSE Holders(g) \ {c}
      BY <2>3, CommitHolders
    <3>3. QED
      BY <3>1, <3>2
  <2>5. QED
    BY <1>1, <2>2, <2>4, MarkIsCounted
<1>4. CASE CommitAborts(c) \/ CommitUnmarks(c)
  <2>1. commits'[c].phase \in {"idle", "clean"}
    BY <1>1, <1>4 DEF CommitAborts, CommitUnmarks, IdleCommit, CommitRecord
  <2>2. commits[c].phase \in CommitHolds /\ Unmark(commits[c].gen)
    BY <1>4 DEF CommitAborts, CommitUnmarks, CommitHolds
  <2>3. \A g : ~CommitHasMarked(c, g)' /\ (CommitHasMarked(c, g) <=> g = commits[c].gen)
    BY <2>1, <2>2 DEF CommitHasMarked, CommitHolds
  <2>4. c \in Holders(commits[c].gen)
        /\ \A g \in Gens : Holders(g)' = IF g = commits[c].gen THEN Holders(g) \ {c}
                                         ELSE Holders(g)
    BY <2>3, CommitHolders
  <2>5. QED
    BY <1>1, <1>2, <2>2, <2>4, UnmarkIsCounted
<1>5. CASE \/ CommitMakesDir(c) \/ CommitBreaks(c) \/ CommitPublishes(c)
           \/ CleanReads(c) \/ CleanLists(c) \/ CleanRenames(c) \/ CleanEnds(c)
           \/ \E p \in Parts : CommitCopies(c, p)
           \/ \E g \in Gens : \/ CleanSpares(c, g) \/ CleanCondemns(c, g)
                              \/ CommitStarts(c, g)
  <2>1. inUse' = inUse
    BY <1>5 DEF CommitMakesDir, CommitBreaks, CommitPublishes, CleanReads, CleanLists,
         CleanRenames, CleanEnds, CommitCopies, CleanSpares, CleanCondemns, CommitStarts
  <2>2. \/ commits'[c].gen = commits[c].gen
           /\ commits[c].phase \in CommitHolds /\ commits'[c].phase \in CommitHolds
        \/ commits[c].phase \notin CommitHolds /\ commits'[c].phase \notin CommitHolds
    <3>1. CASE CommitMakesDir(c) \/ CommitBreaks(c) \/ CommitPublishes(c)
                 \/ \E p \in Parts : CommitCopies(c, p)
      BY <1>1, <3>1 DEF CommitMakesDir, CommitBreaks, CommitPublishes, CommitCopies,
           CommitRecord, CommitHolds
    <3>2. CASE CleanReads(c) \/ CleanLists(c) \/ CleanRenames(c) \/ CleanEnds(c)
      BY <1>1, <3>2 DEF CleanReads, CleanLists, CleanRenames, CleanEnds,
           CommitRecord, IdleCommit, CommitHolds
    <3>3. ASSUME NEW g \in Gens, CleanSpares(c, g) \/ CleanCondemns(c, g)
          PROVE  commits[c].phase \notin CommitHolds /\ commits'[c].phase \notin CommitHolds
      BY <1>1, <3>3 DEF CleanSpares, CleanCondemns, CommitRecord, CommitHolds
    <3>4. ASSUME NEW g \in Gens, CommitStarts(c, g)
          PROVE  commits[c].phase \notin CommitHolds /\ commits'[c].phase \notin CommitHolds
      BY <1>1, <3>4 DEF CommitStarts, IdleCommit, CommitRecord, CommitHolds
    <3>5. QED
      BY <1>5, <3>1, <3>2, <3>3, <3>4
  <2>3. \A g : CommitHasMarked(c, g)' <=> CommitHasMarked(c, g)
    BY <2>2 DEF CommitHasMarked
  <2>4. \A g \in Gens : Holders(g)' = Holders(g)
    BY <2>3, CommitHolders
  <2>5. QED
    BY <2>1, <2>4, MarksStay
<1>6. QED
  BY <1>3, <1>4, <1>5 DEF CommitterStep, CommitStep

LEMMA InitMarksOwned == Init => MarksAreOwned
<1>1. SUFFICES ASSUME Init, NEW g \in Gens PROVE inUse[g] = Cardinality(Holders(g))
  BY DEF MarksAreOwned
<1>2. Holders(g) = {} /\ inUse[g] = 0
  BY <1>1 DEF Init, Holders, NewBoot, IdleCommit
<1>3. QED
  BY <1>2, FS_EmptySet

LEMMA NextMarksOwned == TypeInv /\ MarksAreOwned /\ [Next]_vars => MarksAreOwned'
<1> SUFFICES ASSUME TypeInv, MarksAreOwned, [Next]_vars PROVE MarksAreOwned'
  OBVIOUS
<1>1. CASE UNCHANGED vars
  BY <1>1, MarksStay DEF vars, Holders
<1>2. ASSUME NEW x \in Removers, RemoverStep(x) PROVE MarksAreOwned'
  BY <1>2, RemoverDisk, MarksStay DEF OnlyRemovals, Holders
<1>3. CASE Crash
  <2>1. \A g \in Gens : Holders(g)' = {} /\ inUse'[g] = 0
    BY <1>3, CrashEndsAll DEF Crash, Holders, IdleCommit, BootHolds
  <2>2. QED
    BY <2>1, FS_EmptySet DEF MarksAreOwned
<1>4. QED
  BY <1>1, <1>2, <1>3, BootMarksOwned, CommitMarksOwned
     DEF Next, CommitterStep, RemoverStep

\* A generation is marked once for every boot and commit at work on it and no
\* more, whoever drops the template and whenever the daemon dies.
THEOREM MarksCorrect == Spec => []MarksAreOwned
BY InitTypeInv, NextTypeInv, InitMarksOwned, NextMarksOwned, PTL DEF Spec

-----------------------------------------------------------------------------
(* What a boot finds, while nobody drops or sweeps the template.            *)

\* A commit is still at work on g.
InTheMaking(g) ==
  \E c \in Committers :
    commits[c].gen = g /\ commits[c].phase \in {"mark", "mkdir", "copy", "abort"}

\* Nobody adds to g any more, and it is on disk whole or not at all.
Finished(g) == g \in used /\ ~InTheMaking(g) /\ (g \in dirs => PartsOf(g) = Parts)

\* Each commit works on a generation of its own, that no cleaner has condemned
\* or will condemn: one listed for cleaning was marked before.
CommitsWorkAlone ==
  \A c \in Committers : commits[c].phase \in {"mark"} \cup CommitHolds =>
    \A d \in Committers :
      /\ d # c /\ commits[d].phase \in {"mark", "rename"} \cup CommitHolds
           => commits[d].gen # commits[c].gen
      /\ commits[c].phase = "mark" => commits[c].gen \notin commits[d].entries

\* A generation is begun afresh, and what was copied of it stays.
CommitsFillTheirGens ==
  \A c \in Committers :
    /\ commits[c].phase \in {"mark", "mkdir"} => commits[c].gen \notin dirs
    /\ commits[c].phase = "copy" => Parts \ commits[c].todo \subseteq PartsOf(commits[c].gen)
    /\ commits[c].entries \subseteq used
    /\ commits[c].phase = "rename" => commits[c].gen \in used

ManifestIsFinished == manifest # NoGen => Finished(manifest)

\* What a boot still has to copy is what its volume lacks of the whole.
BootsCopyTheWhole ==
  \A b \in Boots :
    /\ boots[b].phase \in {"mark", "list", "copy"} => Finished(boots[b].gen)
    /\ boots[b].phase = "copy" => Parts \subseteq volume[b] \cup boots[b].todo
    /\ boots[b].phase \in {"copied", "warm"} => volume[b] = Parts

WholeInv ==
  /\ TypeInv /\ MarksAreOwned
  /\ CommitsWorkAlone /\ CommitsFillTheirGens
  /\ ManifestIsFinished /\ BootsCopyTheWhole

\* Until its copy begins a boot's volume is empty, also in a second attempt.
BootsStartEmpty ==
  \A b \in Boots :
    boots[b].phase \in {"read", "mark", "list", "cold"} => volume[b] = {}

\* A commit that starts has a name nobody has and nobody had.
LEMMA StartsFresh ==
  ASSUME WholeInv, NEW c \in Committers, NEW g \in Gens, CommitStarts(c, g)
  PROVE  /\ \A d \in Committers :
              /\ commits[d].phase \in {"mark", "rename"} \cup CommitHolds
                   => commits[d].gen # g
              /\ g \notin commits[d].entries
         /\ g \notin dirs /\ g # manifest
BY NoGenIsFresh DEF CommitStarts, WholeInv, TypeInv, TypeOK, CommitsHaveGenerations,
     CommitsFillTheirGens, ManifestIsFinished, Finished

\* A condemned generation has no commit at work on it.
LEMMA CondemnedIsIdle ==
  ASSUME WholeInv, NEW c \in Committers, NEW g \in Gens, CleanCondemns(c, g)
  PROVE  \A d \in Committers :
           commits[d].phase \in {"mark"} \cup CommitHolds => commits[d].gen # g
<1>1. Holders(g) = {}
  <2>1. Cardinality(Holders(g)) = 0
    BY DEF CleanCondemns, WholeInv, MarksAreOwned
  <2>2. QED
    BY <2>1, HoldersAreFinite, FS_EmptySet
<1>2. \A d \in Committers : commits[d].phase = "mark" => commits[d].gen # g
  BY DEF CleanCondemns, CommitAt, WholeInv, CommitsWorkAlone
<1>3. QED
  BY <1>1, <1>2 DEF Holders, CommitHolds

LEMMA CommitsStayAlone ==
  ASSUME WholeInv, NEW c \in Committers, CommitterStep(c)
  PROVE  CommitsWorkAlone'
<1> USE DEF CommitAt, CommitTo
<1>1. commits \in [Committers -> CommitRecord] /\ commits[c] \in CommitRecord
  BY DEF WholeInv, TypeInv, TypeOK, CommitRecord
<1>2. \A d \in Committers : d # c => commits'[d] = commits[d]
  BY CommitChanges DEF WholeInv
<1>3. CommitsWorkAlone
  BY DEF WholeInv
<1>4. ASSUME NEW g \in Gens, CommitStarts(c, g) PROVE CommitsWorkAlone'
  <2>1. commits'[c].phase = "mark" /\ commits'[c].gen = g /\ commits'[c].entries = {}
    BY <1>1, <1>4 DEF CommitStarts, IdleCommit
  <2>2. QED
    BY <1>2, <1>3, <1>4, <2>1, StartsFresh DEF CommitsWorkAlone
<1>5. ASSUME NEW g \in Gens, CleanCondemns(c, g) PROVE CommitsWorkAlone'
  <2>1. /\ commits'[c].phase = "rename" /\ commits'[c].gen = g
        /\ commits'[c].entries \subseteq commits[c].entries
    BY <1>1, <1>5 DEF CleanCondemns, CommitRecord
  <2>2. "rename" \notin {"mark"} \cup CommitHolds
    BY DEF CommitHolds
  <2>3. QED
    BY <1>2, <1>3, <1>5, <2>1, <2>2, CondemnedIsIdle DEF CommitsWorkAlone
<1>6. CASE CleanLists(c)
  <2>1. /\ commits'[c].phase = "sift" /\ commits'[c].entries = dirs
    BY <1>1, <1>6 DEF CleanLists, CommitRecord
  <2>2. \A d \in Committers : commits[d].phase = "mark" => commits[d].gen \notin dirs
    BY DEF WholeInv, CommitsFillTheirGens
  <2>3. "sift" \notin {"mark", "rename"} \cup CommitHolds
    BY DEF CommitHolds
  <2>4. QED
    BY <1>2, <1>3, <2>1, <2>2, <2>3 DEF CommitsWorkAlone
<1>7. CASE \/ CommitMarks(c) \/ CommitMakesDir(c) \/ CommitBreaks(c) \/ CommitPublishes(c)
           \/ \E p \in Parts : CommitCopies(c, p)
  <2>1. /\ commits[c].phase \in {"mark"} \cup CommitHolds
        /\ commits'[c].phase \in CommitHolds
        /\ commits'[c].gen = commits[c].gen /\ commits'[c].entries = commits[c].entries
    BY <1>1, <1>7 DEF CommitMarks, CommitMakesDir, CommitBreaks, CommitPublishes,
         CommitCopies, CommitRecord, CommitHolds
  <2>2. commits'[c].phase # "mark"
    BY <2>1 DEF CommitHolds
  <2>3. QED
    BY <1>2, <1>3, <2>1, <2>2 DEF CommitsWorkAlone
<1>8. CASE \/ CommitAborts(c) \/ CommitUnmarks(c) \/ CleanReads(c) \/ CleanRenames(c)
           \/ CleanEnds(c) \/ \E g \in Gens : CleanSpares(c, g)
  <2>1. /\ commits'[c].phase \in {"idle", "clean", "list", "sift"}
        /\ commits'[c].entries \subseteq commits[c].entries
    <3>1. CASE CommitAborts(c) \/ CleanEnds(c)
      BY <1>1, <3>1 DEF CommitAborts, CleanEnds, IdleCommit
    <3>2. CASE CommitUnmarks(c) \/ CleanReads(c) \/ CleanRenames(c)
      BY <1>1, <3>2 DEF CommitUnmarks, CleanReads, CleanRenames, CommitRecord
    <3>3. ASSUME NEW g \in Gens, CleanSpares(c, g)
          PROVE  commits'[c].phase = "sift" /\ commits'[c].entries \subseteq commits[c].entries
      BY <1>1, <3>3 DEF CleanSpares, CommitRecord
    <3>4. QED
      BY <1>8, <3>1, <3>2, <3>3
  <2>2. commits'[c].phase \notin {"mark", "rename"} \cup CommitHolds
    BY <2>1 DEF CommitHolds
  <2>3. QED
    BY <1>2, <1>3, <2>1, <2>2 DEF CommitsWorkAlone
<1>9. QED
  BY <1>4, <1>5, <1>6, <1>7, <1>8 DEF CommitterStep, CommitStep

\* Only the commit itself touches the files of the generation it works on.
LEMMA CommitsSpareOthers ==
  ASSUME WholeInv, NEW c \in Committers, CommitterStep(c), NEW d \in Committers, d # c,
         commits[d].phase \in {"mark"} \cup CommitHolds, NEW g, g = commits[d].gen
  PROVE  /\ g \in dirs' <=> g \in dirs
         /\ PartsOf(g)' = PartsOf(g)
<1> USE DEF CommitAt, CommitTo, disk
<1>1. commits[c].phase \in {"mkdir", "copy", "abort", "rename"} => commits[c].gen # g
  BY DEF WholeInv, CommitsWorkAlone, CommitHolds
<1>2. CASE CommitMakesDir(c) \/ \E p \in Parts : CommitCopies(c, p)
  BY <1>1, <1>2 DEF CommitMakesDir, CommitCopies, PartsOf
<1>3. CASE CommitAborts(c) \/ CleanRenames(c)
  BY <1>1, <1>3 DEF CommitAborts, CleanRenames, PartsOf
<1>4. CASE ~(\/ CommitMakesDir(c) \/ CommitAborts(c) \/ CleanRenames(c)
             \/ \E p \in Parts : CommitCopies(c, p))
  <2>1. dirs' = dirs /\ files' = files
    BY <1>4 DEF CommitterStep, CommitStep, CommitMarks, CommitBreaks, CommitPublishes,
         CommitUnmarks, CleanReads, CleanLists, CleanEnds, CleanSpares, CleanCondemns,
         CommitStarts
  <2>2. QED
    BY <2>1 DEF PartsOf
<1>5. QED
  BY <1>2, <1>3, <1>4

LEMMA CommitsStayFilled ==
  ASSUME WholeInv, NEW c \in Committers, CommitterStep(c)
  PROVE  CommitsFillTheirGens'
<1> USE DEF CommitAt, CommitTo
<1>1. commits \in [Committers -> CommitRecord] /\ commits[c] \in CommitRecord
      /\ used \subseteq used' /\ dirs \subseteq used
  BY CommitChanges DEF WholeInv, TypeInv, TypeOK, CommitRecord
<1>2. CommitsFillTheirGens
  BY DEF WholeInv
<1> DEFINE Filled(d) ==
      /\ commits[d].phase \in {"mark", "mkdir"} => commits[d].gen \notin dirs
      /\ commits[d].phase = "copy" => Parts \ commits[d].todo \subseteq PartsOf(commits[d].gen)
      /\ commits[d].entries \subseteq used
      /\ commits[d].phase = "rename" => commits[d].gen \in used
<1>3. ASSUME NEW d \in Committers, d # c PROVE Filled(d)'
  <2>1. commits'[d] = commits[d]
    BY <1>3, CommitChanges DEF WholeInv
  <2>2. QED
    BY <1>1, <1>2, <1>3, <2>1, CommitsSpareOthers DEF CommitsFillTheirGens, CommitHolds
<1>4. Filled(c)'
  <2>1. ASSUME NEW g \in Gens, CommitStarts(c, g) PROVE Filled(c)'
    <3>1. commits'[c].phase = "mark" /\ commits'[c].gen = g /\ commits'[c].entries = {}
          /\ dirs' = dirs
      BY <1>1, <2>1 DEF CommitStarts, IdleCommit
    <3>2. QED
      BY <2>1, <3>1, StartsFresh
  <2>2. CASE CommitMarks(c)
    <3>1. commits'[c].phase = "mkdir" /\ commits'[c].gen = commits[c].gen /\ dirs' = dirs
          /\ commits'[c].entries = commits[c].entries /\ commits[c].phase = "mark"
      BY <1>1, <2>2 DEF CommitMarks, CommitRecord, disk
    <3>2. QED
      BY <1>1, <1>2, <3>1 DEF CommitsFillTheirGens
  <2>3. CASE CommitMakesDir(c)
    <3>1. commits'[c].phase = "copy" /\ commits'[c].todo = Parts
          /\ commits'[c].entries = commits[c].entries
      BY <1>1, <2>3 DEF CommitMakesDir, CommitRecord
    <3>2. QED
      BY <1>1, <1>2, <3>1 DEF CommitsFillTheirGens
  <2>4. ASSUME NEW p \in Parts, CommitCopies(c, p) PROVE Filled(c)'
    <3>1. commits'[c].phase = "copy" /\ commits'[c].todo = commits[c].todo \ {p}
          /\ commits'[c].entries = commits[c].entries /\ commits'[c].gen = commits[c].gen
          /\ commits[c].phase = "copy"
      BY <1>1, <2>4 DEF CommitCopies, CommitRecord
    <3>2. ASSUME NEW g, g = commits[c].gen
          PROVE  PartsOf(g) \cup {p} \subseteq PartsOf(g)'
      BY <2>4, <3>2 DEF CommitCopies, PartsOf
    <3>3. Parts \ commits'[c].todo \subseteq PartsOf(commits[c].gen)'
      <4>1. Parts \ commits[c].todo \subseteq PartsOf(commits[c].gen)
        BY <1>2, <3>1 DEF CommitsFillTheirGens
      <4>2. PICK g : g = commits[c].gen
        OBVIOUS
      <4>3. Parts \ commits'[c].todo \subseteq PartsOf(g)'
        BY <3>1, <3>2, <4>1, <4>2
      <4>4. QED
        BY <3>1, <4>2, <4>3
    <3>4. QED
      BY <1>1, <1>2, <3>1, <3>3 DEF CommitsFillTheirGens
  <2>5. ASSUME NEW g \in Gens, CleanCondemns(c, g) PROVE Filled(c)'
    <3>1. commits'[c].phase = "rename" /\ commits'[c].gen = g
          /\ commits'[c].entries = commits[c].entries \ {g} /\ g \in commits[c].entries
      BY <1>1, <2>5 DEF CleanCondemns, CommitRecord
    <3>2. QED
      BY <1>1, <1>2, <3>1 DEF CommitsFillTheirGens
  <2>6. CASE CleanLists(c)
    <3>1. commits'[c].phase = "sift" /\ commits'[c].entries = dirs
      BY <1>1, <2>6 DEF CleanLists, CommitRecord
    <3>2. QED
      BY <1>1, <3>1
  <2>7. CASE \/ CommitBreaks(c) \/ CommitPublishes(c) \/ CommitUnmarks(c)
             \/ CleanReads(c) \/ CleanRenames(c)
    <3>1. commits'[c].phase \in {"abort", "unmark", "clean", "list", "sift"}
          /\ commits'[c].entries = commits[c].entries
      BY <1>1, <2>7 DEF CommitBreaks, CommitPublishes, CommitUnmarks, CleanReads,
           CleanRenames, CommitRecord
    <3>2. QED
      BY <1>1, <1>2, <3>1 DEF CommitsFillTheirGens
  <2>8. CASE CommitAborts(c) \/ CleanEnds(c)
    BY <1>1, <2>8 DEF CommitAborts, CleanEnds, IdleCommit
  <2>9. ASSUME NEW g \in Gens, CleanSpares(c, g) PROVE Filled(c)'
    <3>1. commits'[c].phase = "sift" /\ commits'[c].entries = commits[c].entries \ {g}
      BY <1>1, <2>9 DEF CleanSpares, CommitRecord
    <3>2. QED
      BY <1>1, <1>2, <3>1 DEF CommitsFillTheirGens
  <2>10. QED
    BY <2>1, <2>2, <2>3, <2>4, <2>5, <2>6, <2>7, <2>8, <2>9 DEF CommitterStep, CommitStep
<1>5. QED
  BY <1>3, <1>4 DEF CommitsFillTheirGens

\* A generation once finished stays so: a commit that is at work has another
\* one, and a cleaner takes a generation away as a whole.
LEMMA FinishedStays ==
  ASSUME WholeInv, NEW c \in Committers, CommitterStep(c), NEW g, Finished(g)
  PROVE  Finished(g)'
<1> USE DEF CommitAt, CommitTo, disk
<1>1. commits \in [Committers -> CommitRecord] /\ commits[c] \in CommitRecord
  BY DEF WholeInv, TypeInv, TypeOK, CommitRecord
<1>2. \A d \in Committers : d # c => commits'[d] = commits[d]
  BY CommitChanges DEF WholeInv
<1>3. g \in used /\ used \subseteq used'
  BY CommitChanges DEF WholeInv, Finished
<1>4. commits[c].phase \in {"mark", "mkdir", "copy", "abort"} => commits[c].gen # g
  BY DEF Finished, InTheMaking
<1>5. ~InTheMaking(g)'
  <2>1. commits'[c].phase \in {"mark", "mkdir", "copy", "abort"} => commits'[c].gen # g
    <3>1. ASSUME NEW h \in Gens, CommitStarts(c, h) PROVE commits'[c].gen # g
      BY <1>1, <1>3, <3>1 DEF CommitStarts, IdleCommit
    <3>2. CASE \/ CommitMarks(c) \/ CommitMakesDir(c) \/ CommitBreaks(c)
               \/ \E p \in Parts : CommitCopies(c, p)
      <4>1. commits'[c].gen = commits[c].gen
            /\ commits[c].phase \in {"mark", "mkdir", "copy", "abort"}
        BY <1>1, <3>2 DEF CommitMarks, CommitMakesDir, CommitBreaks, CommitCopies,
             CommitRecord
      <4>2. QED
        BY <1>4, <4>1
    <3>3. CASE CommitAborts(c) \/ CleanEnds(c)
      BY <1>1, <3>3 DEF CommitAborts, CleanEnds, IdleCommit
    <3>4. CASE CommitPublishes(c) \/ CommitUnmarks(c) \/ CleanReads(c) \/ CleanLists(c)
                 \/ CleanRenames(c)
      BY <1>1, <3>4 DEF CommitPublishes, CommitUnmarks, CleanReads, CleanLists,
           CleanRenames, CommitRecord
    <3>5. ASSUME NEW h \in Gens, CleanSpares(c, h) \/ CleanCondemns(c, h)
          PROVE  commits'[c].phase \in {"sift", "rename"}
      BY <1>1, <3>5 DEF CleanSpares, CleanCondemns, CommitRecord
    <3>6. QED
      BY <3>1, <3>2, <3>3, <3>4, <3>5 DEF CommitterStep, CommitStep
  <2>2. \A d \in Committers :
          commits[d].phase \in {"mark", "mkdir", "copy", "abort"} => commits[d].gen # g
    BY DEF Finished, InTheMaking
  <2>3. QED
    BY <1>2, <2>1, <2>2 DEF InTheMaking
<1>6. (g \in dirs => PartsOf(g) = Parts)'
  <2>1. g \in dirs => PartsOf(g) = Parts
    BY DEF Finished
  <2>2. CASE CommitMakesDir(c) \/ \E p \in Parts : CommitCopies(c, p)
    BY <1>4, <2>1, <2>2 DEF CommitMakesDir, CommitCopies, PartsOf
  <2>3. CASE CommitAborts(c) \/ CleanRenames(c)
    BY <2>1, <2>3 DEF CommitAborts, CleanRenames, PartsOf
  <2>4. CASE ~(\/ CommitMakesDir(c) \/ CommitAborts(c) \/ CleanRenames(c)
               \/ \E p \in Parts : CommitCopies(c, p))
    <3>1. dirs' = dirs /\ files' = files
      BY <2>4 DEF CommitterStep, CommitStep, CommitMarks, CommitBreaks, CommitPublishes,
           CommitUnmarks, CleanReads, CleanLists, CleanEnds, CleanSpares, CleanCondemns,
           CommitStarts
    <3>2. QED
      BY <2>1, <3>1 DEF PartsOf
  <2>5. QED
    BY <2>2, <2>3, <2>4
<1>7. QED
  BY <1>3, <1>5, <1>6 DEF Finished

\* What a commit publishes is finished by that step.
LEMMA PublishedIsFinished ==
  ASSUME WholeInv, NEW c \in Committers, CommitPublishes(c)
  PROVE  Finished(manifest)'
<1> USE DEF CommitAt, CommitTo
<1>1. commits \in [Committers -> CommitRecord] /\ commits[c] \in CommitRecord
  BY DEF WholeInv, TypeInv, TypeOK, CommitRecord
<1>2. PICK g : g = commits[c].gen
  OBVIOUS
<1>3. manifest' = g /\ used' = used /\ dirs' = dirs /\ files' = files
  BY <1>2 DEF CommitPublishes
<1>4. g \in used /\ PartsOf(g) = Parts
  BY <1>1, <1>2 DEF CommitPublishes, WholeInv, TypeInv, CommitsHaveGenerations,
       CommitHolds, CommitsFillTheirGens, PartsOf
<1>5. \A d \in Committers : d # c => commits'[d] = commits[d]
  BY <1>1 DEF CommitPublishes
<1>6. commits'[c].phase = "unmark"
  BY <1>1 DEF CommitPublishes, CommitRecord
<1>7. \A d \in Committers : d # c =>
        (commits[d].phase \in {"mark", "mkdir", "copy", "abort"} => commits[d].gen # g)
  BY <1>2 DEF CommitPublishes, WholeInv, CommitsWorkAlone, CommitHolds
<1>8. ~InTheMaking(g)'
  BY <1>5, <1>6, <1>7 DEF InTheMaking
<1>9. Finished(g)'
  BY <1>3, <1>4, <1>8 DEF Finished, PartsOf
<1>10. QED
  BY <1>3, <1>9

LEMMA CommitWholeInv ==
  ASSUME WholeInv, NEW c \in Committers, CommitterStep(c) PROVE WholeInv'
<1>1. TypeInv' /\ MarksAreOwned' /\ CommitsWorkAlone' /\ CommitsFillTheirGens'
  BY CommitTypeInv, CommitMarksOwned, CommitsStayAlone, CommitsStayFilled DEF WholeInv
<1>2. ManifestIsFinished'
  <2>1. CASE CommitPublishes(c)
    BY <2>1, PublishedIsFinished DEF ManifestIsFinished
  <2>2. CASE ~CommitPublishes(c)
    <3>1. manifest' = manifest
      BY <2>2 DEF CommitterStep, CommitStep, CommitMarks, CommitMakesDir, CommitCopies,
           CommitBreaks, CommitAborts, CommitUnmarks, CleanReads, CleanLists,
           CleanRenames, CleanEnds, CleanSpares, CleanCondemns, CommitStarts, disk
    <3>2. PICK g : g = manifest
      OBVIOUS
    <3>3. g # NoGen => Finished(g)'
      BY <3>2, FinishedStays DEF WholeInv, ManifestIsFinished
    <3>4. QED
      BY <3>1, <3>2, <3>3 DEF ManifestIsFinished
  <2>3. QED
    BY <2>1, <2>2
<1>3. BootsCopyTheWhole'
  <2>1. boots' = boots /\ volume' = volume
    BY CommitChanges DEF WholeInv, OnlyCommits
  <2>2. ASSUME NEW b \in Boots, NEW g, g = boots[b].gen, Finished(g) PROVE Finished(g)'
    BY <2>2, FinishedStays
  <2>3. ASSUME NEW b \in Boots, boots[b].phase \in {"mark", "list", "copy"}
        PROVE  Finished(boots[b].gen)'
    <3>1. PICK g : g = boots[b].gen
      OBVIOUS
    <3>2. Finished(g)'
      BY <2>2, <2>3, <3>1 DEF WholeInv, BootsCopyTheWhole
    <3>3. QED
      BY <2>1, <3>1, <3>2
  <2>4. QED
    BY <2>1, <2>3 DEF WholeInv, BootsCopyTheWhole
<1>4. QED
  BY <1>1, <1>2, <1>3 DEF WholeInv

\* A boot touches nothing of the template.
LEMMA BootsFinishNothing ==
  ASSUME OnlyBoots, NEW g PROVE Finished(g)' <=> Finished(g)
BY DEF OnlyBoots, disk, Finished, InTheMaking, PartsOf

LEMMA BootWholeInv ==
  ASSUME WholeInv, NEW b \in Boots, BootStep(b) PROVE WholeInv'
<1> USE DEF BootAt, BootTo
<1>1. boots \in [Boots -> BootRecord] /\ boots[b] \in BootRecord
      /\ volume \in [Boots -> SUBSET Parts]
  BY DEF WholeInv, TypeInv, TypeOK, BootRecord
<1>2. OnlyBoots /\ \A d \in Boots : d # b => boots'[d] = boots[d]
  BY BootChanges DEF WholeInv
<1>3. \A d \in Boots : d # b => volume'[d] = volume[d]
  BY <1>1 DEF BootStep, BootReads, BootMarks, BootLists, BootCopies, BootCopied,
       BootFinishes, BootRetries, Clears, BootFails
<1>4. TypeInv' /\ MarksAreOwned'
  BY BootTypeInv, BootMarksOwned DEF WholeInv
<1>5. CommitsWorkAlone' /\ CommitsFillTheirGens'
  BY <1>2 DEF OnlyBoots, disk, WholeInv, CommitsWorkAlone, CommitsFillTheirGens, PartsOf
<1>6. ManifestIsFinished'
  <2>1. manifest' = manifest
    BY <1>2 DEF OnlyBoots, disk
  <2>2. PICK g : g = manifest
    OBVIOUS
  <2>3. g # NoGen => Finished(g)'
    BY <1>2, <2>2, BootsFinishNothing DEF WholeInv, ManifestIsFinished
  <2>4. QED
    BY <2>1, <2>2, <2>3 DEF ManifestIsFinished
<1> DEFINE Whole(d) ==
      /\ boots[d].phase \in {"mark", "list", "copy"} => Finished(boots[d].gen)
      /\ boots[d].phase = "copy" => Parts \subseteq volume[d] \cup boots[d].todo
      /\ boots[d].phase \in {"copied", "warm"} => volume[d] = Parts
<1>7. \A d \in Boots : Whole(d)
  BY DEF WholeInv, BootsCopyTheWhole
<1>8. ASSUME NEW d \in Boots, boots'[d].gen = boots[d].gen, Finished(boots[d].gen)
      PROVE  Finished(boots[d].gen)'
  <2>1. PICK g : g = boots[d].gen
    OBVIOUS
  <2>2. Finished(g)'
    BY <1>2, <1>8, <2>1, BootsFinishNothing
  <2>3. QED
    BY <1>8, <2>1, <2>2
<1>9. ASSUME NEW d \in Boots, d # b PROVE Whole(d)'
  BY <1>2, <1>3, <1>7, <1>8, <1>9
<1>10. Whole(b)'
  <2>1. CASE BootReads(b)
    <3>1. CASE manifest = NoGen
      <4>1. boots'[b].phase = "cold"
        BY <1>1, <2>1, <3>1 DEF BootReads, BootRecord
      <4>2. QED
        BY <4>1
    <3>2. CASE manifest # NoGen
      <4>1. boots'[b].phase = "mark" /\ boots'[b].gen = manifest /\ manifest' = manifest
        BY <1>1, <1>2, <2>1, <3>2 DEF BootReads, BootRecord, OnlyBoots, disk
      <4>2. Finished(manifest)'
        BY <1>6, <3>2, <4>1 DEF ManifestIsFinished
      <4>3. QED
        BY <4>1, <4>2
    <3>3. QED
      BY <3>1, <3>2
  <2>2. CASE BootMarks(b)
    <3>1. boots'[b].phase = "list" /\ boots'[b].gen = boots[b].gen /\ boots[b].phase = "mark"
      BY <1>1, <2>2 DEF BootMarks, BootRecord
    <3>2. QED
      BY <1>7, <1>8, <3>1
  <2>3. CASE BootLists(b)
    <3>1. Finished(boots[b].gen)
      BY <1>7, <2>3 DEF BootLists
    <3>2. CASE boots[b].gen \in dirs
      <4>1. boots'[b].phase = "copy" /\ boots'[b].gen = boots[b].gen
            /\ boots'[b].todo = PartsOf(boots[b].gen)
        BY <1>1, <2>3, <3>2 DEF BootLists, BootRecord
      <4>2. boots'[b].todo = Parts
        BY <3>1, <3>2, <4>1 DEF Finished
      <4>3. QED
        BY <1>8, <3>1, <4>1, <4>2
    <3>3. CASE boots[b].gen \notin dirs
      <4>1. boots'[b].phase = "vanished"
        BY <1>1, <2>3, <3>3 DEF BootLists, BootRecord
      <4>2. QED
        BY <4>1
    <3>4. QED
      BY <3>2, <3>3
  <2>4. ASSUME NEW p \in Parts, BootCopies(b, p) PROVE Whole(b)'
    <3>1. CASE p \in PartsOf(boots[b].gen)
      <4>1. boots'[b].phase = "copy" /\ boots'[b].gen = boots[b].gen
            /\ boots'[b].todo = boots[b].todo \ {p} /\ boots[b].phase = "copy"
            /\ volume'[b] = volume[b] \cup {p}
        BY <1>1, <2>4, <3>1 DEF BootCopies, BootRecord
      <4>2. QED
        BY <1>7, <1>8, <4>1
    <3>2. CASE p \notin PartsOf(boots[b].gen)
      <4>1. boots'[b].phase = "vanished"
        BY <1>1, <2>4, <3>2 DEF BootCopies, BootRecord
      <4>2. QED
        BY <4>1
    <3>3. QED
      BY <3>1, <3>2
  <2>5. CASE BootCopied(b)
    <3>1. boots'[b].phase = "copied" /\ boots[b].phase = "copy" /\ boots[b].todo = {}
          /\ volume' = volume
      BY <1>1, <2>5 DEF BootCopied, BootRecord
    <3>2. volume'[b] = Parts
      BY <1>1, <1>7, <3>1
    <3>3. QED
      BY <3>1, <3>2
  <2>6. CASE BootFinishes(b)
    <3>1. boots'[b].phase = "warm" /\ boots[b].phase = "copied" /\ volume' = volume
      BY <1>1, <2>6 DEF BootFinishes, BootRecord
    <3>2. QED
      BY <1>7, <3>1
  <2>7. CASE BootRetries(b) \/ BootFails(b)
    <3>1. boots'[b].phase \in {"read", "cold", "failed"}
      BY <1>1, <2>7 DEF BootRetries, Retries, BootFails, BootRecord
    <3>2. QED
      BY <3>1
  <2>8. QED
    BY <2>1, <2>2, <2>3, <2>4, <2>5, <2>6, <2>7 DEF BootStep
<1>11. BootsCopyTheWhole'
  BY <1>9, <1>10 DEF BootsCopyTheWhole
<1>12. QED
  BY <1>4, <1>5, <1>6, <1>11 DEF WholeInv

\* What was being copied into a generation when the daemon died is finished in
\* no sense, but nobody will ever read it: only a later commit is published.
LEMMA CrashWholeInv ==
  ASSUME WholeInv, Crash, TypeInv', MarksAreOwned' PROVE WholeInv'
<1>1. /\ commits' = [c \in Committers |-> IdleCommit]
      /\ \A b \in Boots : /\ boots'[b].phase \notin {"mark"} \cup BootHolds
                          /\ boots'[b].phase = "warm" => boots'[b] = boots[b]
  BY CrashEndsAll DEF WholeInv, NewBoot
<1>2. slugDir' = slugDir /\ manifest' = manifest /\ dirs' = dirs /\ files' = files
      /\ used' = used /\ volume' = volume
  BY DEF Crash, disk
<1>3. CommitsWorkAlone' /\ CommitsFillTheirGens'
  BY <1>1 DEF CommitsWorkAlone, CommitsFillTheirGens, IdleCommit, CommitHolds
<1>4. ManifestIsFinished'
  BY <1>1, <1>2 DEF WholeInv, ManifestIsFinished, Finished, InTheMaking, IdleCommit, PartsOf
<1>5. BootsCopyTheWhole'
  BY <1>1, <1>2 DEF WholeInv, BootsCopyTheWhole, BootHolds
<1>6. QED
  BY <1>3, <1>4, <1>5 DEF WholeInv

LEMMA WholeInvariant == Removers = {} => (Spec => []WholeInv)
<1> SUFFICES ASSUME Removers = {} PROVE Spec => []WholeInv
  OBVIOUS
<1>1. Init => WholeInv
  <2> SUFFICES ASSUME Init PROVE WholeInv
    OBVIOUS
  <2>1. MarksAreOwned
    BY InitMarksOwned
  <2>2. CommitsWorkAlone /\ CommitsFillTheirGens /\ ManifestIsFinished
        /\ BootsCopyTheWhole
    BY DEF Init, IdleCommit, NewBoot, CommitHolds, CommitsWorkAlone,
         CommitsFillTheirGens, ManifestIsFinished, BootsCopyTheWhole
  <2>3. QED
    BY <2>1, <2>2, InitTypeInv DEF WholeInv
<1>2. WholeInv /\ [Next]_vars => WholeInv'
  <2> SUFFICES ASSUME WholeInv, [Next]_vars PROVE WholeInv'
    OBVIOUS
  <2>1. TypeInv' /\ MarksAreOwned'
    BY NextTypeInv, NextMarksOwned DEF WholeInv
  <2>2. CASE UNCHANGED vars
    BY <2>1, <2>2 DEF vars, disk, WholeInv, CommitsWorkAlone, CommitsFillTheirGens,
         ManifestIsFinished, BootsCopyTheWhole, Finished, InTheMaking, PartsOf
  <2>3. CASE Crash
    BY <2>1, <2>3, CrashWholeInv
  <2>4. QED
    BY <2>2, <2>3, BootWholeInv, CommitWholeInv DEF Next, CommitterStep
<1>3. QED
  BY <1>1, <1>2, PTL DEF Spec

\* With any number of boots, commits, cleaners and crashes, but no Drop and no
\* Sweep, the generation the manifest names is on disk whole or not at all.
THEOREM PublishedCorrect == Removers = {} => (Spec => []PublishedIsWhole)
<1>1. WholeInv => PublishedIsWhole
  BY NoGenIsFresh DEF WholeInv, ManifestIsFinished, Finished, PublishedIsWhole,
       TypeInv, TypeOK
<1>2. QED
  BY <1>1, WholeInvariant, PTL

\* A boot that reports a warm volume has copied all of a template, under the
\* same condition.
THEOREM WarmBootsCorrect == Removers = {} => (Spec => []WarmBootsAreComplete)
<1>1. WholeInv => WarmBootsAreComplete
  BY DEF WholeInv, BootsCopyTheWhole, WarmBootsAreComplete
<1>2. QED
  BY <1>1, WholeInvariant, PTL

\* A cold boot left nothing of a template in the volume, whoever deletes the
\* template under it.
THEOREM ColdBootsCorrect == Spec => []ColdBootsAreEmpty
<1>1. Init => BootsStartEmpty
  BY DEF Init, BootsStartEmpty
<1>2. TypeInv /\ BootsStartEmpty /\ [Next]_vars => BootsStartEmpty'
  <2> SUFFICES ASSUME TypeInv, BootsStartEmpty, [Next]_vars PROVE BootsStartEmpty'
    OBVIOUS
  <2> USE DEF BootAt, BootTo
  <2>1. boots \in [Boots -> BootRecord] /\ volume \in [Boots -> SUBSET Parts]
    BY DEF TypeInv, TypeOK, BootRecord
  <2>2. CASE UNCHANGED vars
    BY <2>2 DEF BootsStartEmpty, vars
  <2>3. ASSUME NEW b \in Boots, BootStep(b) PROVE BootsStartEmpty'
    <3>1. \A d \in Boots : d # b => boots'[d] = boots[d] /\ volume'[d] = volume[d]
      BY <2>1, <2>3, BootChanges DEF BootStep, BootReads, BootMarks, BootLists,
           BootCopies, BootCopied, BootFinishes, BootRetries, Clears, BootFails
    <3>2. boots'[b].phase \in {"read", "mark", "list", "cold"} => volume'[b] = {}
      <4>1. CASE BootReads(b) \/ BootMarks(b)
        BY <2>1, <4>1 DEF BootReads, BootMarks, BootsStartEmpty
      <4>2. CASE BootRetries(b)
        BY <2>1, <4>2 DEF BootRetries, Clears
      <4>3. CASE BootLists(b) \/ BootCopied(b) \/ BootFinishes(b) \/ BootFails(b)
                   \/ \E p \in Parts : BootCopies(b, p)
        <5>1. boots'[b].phase \in {"copy", "vanished", "copied", "warm", "failed"}
          BY <2>1, <4>3 DEF BootLists, BootCopied, BootFinishes, BootFails, BootCopies,
               BootRecord
        <5>2. QED
          BY <5>1
      <4>4. QED
        BY <2>3, <4>1, <4>2, <4>3 DEF BootStep
    <3>3. QED
      BY <3>1, <3>2 DEF BootsStartEmpty
  <2>4. ASSUME NEW c \in Committers, CommitterStep(c) PROVE BootsStartEmpty'
    BY <2>4, CommitChanges DEF OnlyCommits, BootsStartEmpty
  <2>5. ASSUME NEW x \in Removers, RemoverStep(x) PROVE BootsStartEmpty'
    BY <2>5, RemoverDisk DEF OnlyRemovals, BootsStartEmpty
  <2>6. CASE Crash
    BY <2>6, CrashEndsAll DEF Crash, BootsStartEmpty
  <2>7. QED
    BY <2>2, <2>3, <2>4, <2>5, <2>6 DEF Next, CommitterStep, RemoverStep
<1>3. BootsStartEmpty => ColdBootsAreEmpty
  BY DEF BootsStartEmpty, ColdBootsAreEmpty
<1>4. QED
  BY <1>1, <1>2, <1>3, InitTypeInv, NextTypeInv, PTL DEF Spec
=============================================================================

---------------------------- MODULE StorageProofs ----------------------------
(***************************************************************************)
(* What is proved of folders and files that are published: for any number  *)
(* of writers of one folder, any of which fail, die or, unless they        *)
(* overwrite, are interrupted, wherever that happens and however often;    *)
(* for any files of a single entity; and for any number of writers of one  *)
(* file, while people change it.                                           *)
(***************************************************************************)
EXTENDS MCStorage, TLAPS

-----------------------------------------------------------------------------
(* The inductive invariant.                                                *)

FolderTypes ==
    /\ temp \in [FolderWriters -> Folders!Trees \cup {None}]
    /\ backup \in [FolderWriters -> Folders!Trees \cup {None}]
    /\ step \in [FolderWriters -> Folders!Points]
    /\ saw \in [FolderWriters -> Folders!Trees \cup {None}]
    /\ victim \in [FolderWriters -> Folders!Trees \cup {None}]
    /\ stops \in [FolderWriters -> SUBSET Folders!Points]
    /\ before \in [FolderWriters -> Folders!Trees \cup {None}]
    /\ dest \in Folders!Trees \cup {None} /\ half \subseteq Folders!Trees

\* A writer that has not begun or has ended.
Resting == {"idle", "published", "failed", "killed"}

\* An overwriting writer runs alone.
RunsAlone ==
    \A v, w \in FolderWriters :
        v # w /\ step[v] \notin Resting /\ step[w] \notin Resting =>
            v \notin Overwriting /\ w \notin Overwriting

\* Only such a writer sets a folder aside, the one that it found.
SetsAside(w) ==
    /\ w \notin Overwriting =>
        /\ backup[w] = None
        /\ step[w] \notin {"set aside", "aside", "gone?", "purge", "purging",
                           "undo", "undo remove", "undoing", "restore"}
    /\ backup[w] \in {None, before[w]} /\ before[w] # w
    /\ step[w] = "idle" => before[w] = None
    /\ w \in Overwriting /\ before[w] \in FolderWriters =>
        step[before[w]] \in Folders!Over /\ temp[before[w]] = None

\* Where the staged folder of a writer is.
StagedOnce(w) ==
    /\ temp[w] \in {None, w}
    /\ temp[w] = w => dest # w
    /\ step[w] \in {"idle", "stage"} => temp[w] = None /\ dest # w
    /\ step[w] \in {"fill", "look", "recheck", "set aside", "aside", "gone?", "put"} => temp[w] = w
    /\ step[w] \in {"sync", "purge", "purging", "return", "clean dest", "clean remove", "cleaning dest"} =>
        temp[w] = None

\* The output path leads to it, and to nothing that another writer put there.
PutThere(w) ==
    /\ step[w] \in {"sync", "purge", "purging", "return", "undo remove", "undoing",
                    "clean remove", "cleaning dest"} => dest = w
    /\ step[w] \in {"undoing", "cleaning dest"} => victim[w] = w

\* It is complete before it is put there, and until it is undone.
PutWhole(w) ==
    step[w] \in {"look", "recheck", "set aside", "aside", "gone?", "put", "sync", "purge", "purging",
                 "return"} => w \notin half

\* An overwriting writer, its backup and the output path, step by step.
Early == {"stage", "fill", "look", "recheck", "set aside"}
Cleaning == {"clean temp", "cleaning temp", "clean dest", "clean remove", "cleaning dest"}

Phases(w) ==
    w \in Overwriting =>
        /\ step[w] \in Early => dest = before[w] /\ backup[w] = None
        /\ step[w] \in {"recheck", "set aside", "aside", "gone?", "put", "sync", "purge"} => saw[w] = before[w]
        /\ step[w] \in {"set aside", "aside", "gone?", "restore", "purge", "purging"} => before[w] # None
        /\ step[w] \in {"aside", "gone?", "put", "restore"} => dest = None
        /\ step[w] \in {"aside", "gone?", "put", "restore", "sync", "undo", "undo remove", "undoing",
                        "purge", "purging"} => backup[w] = before[w]
        /\ step[w] = "undo" => dest \in {w, None}
        /\ step[w] \in Cleaning => \/ dest = before[w] /\ backup[w] = None
                                   \/ dest \in {w, None} /\ backup[w] = before[w]

\* If nothing stopped its rollback, the folder is back.
RolledBack(w) ==
    w \in Overwriting /\ step[w] \in Cleaning /\ stops[w] \cap Folders!Undoing = {} => dest = before[w]

\* A bundle that someone relies on is complete at the output path, and while it
\* is set aside.
Intact(tree) == tree = Old \/ (tree \in FolderWriters /\ step[tree] = "published") => tree \notin half

KeptIntact(w) ==
    w \in Overwriting /\ step[w] \in {"aside", "gone?", "put", "sync", "undo", "undo remove", "undoing",
                                      "restore"} => Intact(backup[w])

\* While a writer may still remove what it put there, a complete bundle is set aside.
Need == \E w \in Overwriting :
            before[w] = Old \/ (before[w] \in FolderWriters /\ step[before[w]] = "published")
IsSetAside == \E w \in Overwriting : backup[w] \notin half \cup {None, Vacant}

MayRemove(w) ==
    \/ step[w] \in {"sync", "undo", "undo remove", "undoing"} \cup Cleaning
    \/ step[w] = "return" /\ w \notin Overwriting

Covered(w) == dest = w /\ MayRemove(w) /\ Need => IsSetAside

WriterInv(w) ==
    /\ SetsAside(w) /\ StagedOnce(w) /\ PutThere(w) /\ PutWhole(w) /\ Phases(w) /\ RolledBack(w)
    /\ KeptIntact(w) /\ Covered(w)

\* What any step of a writer leaves true of the path and of the bundles.
Kept == Intact(dest) /\ Folders!NeverNothing /\ Folders!PublishedStays

FoldersInv ==
    /\ FolderTypes /\ RunsAlone
    /\ \A w \in FolderWriters : WriterInv(w)
    /\ Kept

-----------------------------------------------------------------------------
(* What the steps have in common.                                          *)

\* Nothing of the other writers changes.
OthersAreLeft(w) ==
    \A v \in FolderWriters \ {w} :
        /\ temp'[v] = temp[v] /\ backup'[v] = backup[v] /\ step'[v] = step[v] /\ saw'[v] = saw[v]
        /\ victim'[v] = victim[v] /\ stops'[v] = stops[v] /\ before'[v] = before[v]

\* An assignment to one of them.
LEMMA Assigned ==
    ASSUME NEW D, NEW R, NEW f \in [D -> R], NEW w \in D, NEW x \in R, NEW g, g = [f EXCEPT ![w] = x]
    PROVE  g \in [D -> R] /\ g[w] = x /\ \A v \in D \ {w} : g[v] = f[v]
  OBVIOUS

\* While a writer is at work, the overwriting ones among the others rest; and
\* no other is at work while it overwrites.
LEMMA OthersRest ==
    ASSUME FoldersInv, NEW w \in FolderWriters, step[w] \notin Resting
    PROVE  /\ \A v \in FolderWriters \ {w} : v \in Overwriting => step[v] \in Resting
           /\ w \in Overwriting => \A v \in FolderWriters \ {w} : step[v] \in Resting
  BY DEF FoldersInv, RunsAlone

\* A step of one writer that only removes or replaces what is its own keeps the
\* invariant of the others.
LEMMA OthersStay ==
    ASSUME FoldersInv, NEW w \in FolderWriters, OthersAreLeft(w),
           step[w] \notin Folders!Over,
           \A v \in FolderWriters \ {w} : v \in Overwriting => step[v] \in Resting,
           w \in Overwriting => \A v \in FolderWriters \ {w} : step[v] \in Resting,
           \/ dest' = dest
           \/ dest \in {None, Vacant, w} /\ dest' \in {None, w}
           \/ w \in Overwriting /\ dest' \in {None, before[w]},
           \/ half' \subseteq half \cup {w}
           \/ w \in Overwriting /\ half' \subseteq half \cup {w, backup[w]},
           NEW v \in FolderWriters, v # w
    PROVE  WriterInv(v)'
<1>t. FolderTypes /\ SetsAside(v) /\ StagedOnce(v) /\ PutThere(v) /\ PutWhole(v) /\ SetsAside(w)
  BY DEF FoldersInv, WriterInv
<1>p. Phases(v) /\ RolledBack(v) /\ KeptIntact(v) /\ Covered(v)
  BY DEF FoldersInv, WriterInv
<1>o. /\ temp'[v] = temp[v] /\ backup'[v] = backup[v] /\ step'[v] = step[v] /\ saw'[v] = saw[v]
      /\ victim'[v] = victim[v] /\ stops'[v] = stops[v] /\ before'[v] = before[v]
  BY DEF OthersAreLeft
<1>n. None # v /\ Vacant # v
  BY FoldersAssumption DEF Folders!TreesAssumption
<1>w. v \in Overwriting => step[v] \in Resting
  OBVIOUS
<1>r. w \in Overwriting => step[v] \in Resting
  OBVIOUS
<1>1. SetsAside(v)'
  <2>1. before[v] \in FolderWriters /\ v \in Overwriting => step[before[v]] \in Folders!Over /\ temp[before[v]] = None
    BY <1>t DEF SetsAside
  <2>2. before[v] \in FolderWriters /\ v \in Overwriting =>
            step'[before[v]] \in Folders!Over /\ temp'[before[v]] = None
    BY <2>1 DEF OthersAreLeft
  <2> QED BY <1>t, <1>o, <2>2 DEF SetsAside
<1>d. dest' = v => dest = v \/ (w \in Overwriting /\ before[w] = v)
  BY <1>n
<1>2. StagedOnce(v)'
  <2>1. w \in Overwriting /\ before[w] = v => step[v] \in Folders!Over /\ temp[v] = None
    BY <1>t DEF SetsAside
  <2> QED BY <1>t, <1>o, <1>d, <2>1, <1>n DEF StagedOnce, Folders!Over
<1>3. PutThere(v)'
  BY <1>t, <1>o, <1>n, <1>r DEF PutThere, Resting
<1>4. PutWhole(v)'
  BY <1>t, <1>o, <1>r DEF PutWhole, Resting
<1>5. Phases(v)'
  BY <1>w, <1>o DEF Phases, Resting, Early, Cleaning
<1>6. RolledBack(v)'
  BY <1>w, <1>o DEF RolledBack, Resting, Cleaning
<1>7. KeptIntact(v)'
  BY <1>w, <1>o DEF KeptIntact, Resting
<1>8. Covered(v)'
  <2> SUFFICES ASSUME dest' = v, MayRemove(v)', Need' PROVE IsSetAside'
    BY DEF Covered
  <2>1. MayRemove(v) /\ step[v] \notin Resting
    BY <1>o DEF MayRemove, Cleaning, Resting
  <2>2. w \notin Overwriting /\ dest = v
    BY <2>1, <1>r, <1>d
  <2>3. \A u \in Overwriting : before'[u] = before[u] /\ backup'[u] = backup[u] /\ u # w
    BY <2>2, FoldersAssumption DEF OthersAreLeft, Folders!WritersAssumption
  <2>4. \A u \in Overwriting :
            before[u] \in FolderWriters => step[before[u]] \in Folders!Over /\ before[u] # w
    BY FoldersAssumption DEF FoldersInv, WriterInv, SetsAside, Folders!WritersAssumption
  <2>5. Need
    BY <2>3, <2>4 DEF Need, OthersAreLeft
  <2>6. IsSetAside
    BY <2>1, <2>2, <2>5, <1>p DEF Covered
  <2>7. PICK u \in Overwriting : backup[u] \notin half \cup {None, Vacant}
    BY <2>6 DEF IsSetAside
  <2>8. backup[u] = before[u]
    BY <2>7, FoldersAssumption DEF FoldersInv, WriterInv, SetsAside, Folders!WritersAssumption
  <2>9. backup[u] # w
    BY <2>4, <2>8, <2>7
  <2>10. backup'[u] \notin half' \cup {None, Vacant}
    BY <2>7, <2>9, <2>3, <2>2
  <2> QED BY <2>10 DEF IsSetAside
<1> QED BY <1>1, <1>2, <1>3, <1>4, <1>5, <1>6, <1>7, <1>8 DEF WriterInv

\* A step that leaves the path, what is set aside and what is complete as they
\* are keeps what is true of the bundles, unless it begins or ends a publication.
LEMMA QuietStep ==
    ASSUME FoldersInv, NEW w \in FolderWriters, OthersAreLeft(w),
           dest' = dest, half' \subseteq half, backup'[w] = backup[w], before'[w] = before[w],
           step[w] \notin Folders!Over, step'[w] # "published"
    PROVE  Kept'
<1>k. Kept
  BY DEF FoldersInv
<1>p. \A v \in FolderWriters : step'[v] = "published" <=> step[v] = "published"
  BY DEF OthersAreLeft, Folders!Over
<1>b. \A v \in FolderWriters : backup'[v] = backup[v] /\ before'[v] = before[v]
  BY DEF OthersAreLeft
<1>o. Overwriting \subseteq FolderWriters
  BY FoldersAssumption DEF Folders!WritersAssumption
<1>1. Intact(dest)'
  BY <1>k, <1>p DEF Kept, Intact
<1>2. Folders!NeverNothing'
  <2> SUFFICES ASSUME NEW u \in Overwriting,
                      before'[u] = Old \/ (before'[u] \in FolderWriters /\ step'[before'[u]] = "published")
               PROVE  Folders!Whole(dest)' \/ \E v \in Overwriting : Folders!Whole(backup[v])'
    BY DEF Folders!NeverNothing, Folders!Bundle
  <2>1. before[u] = Old \/ (before[u] \in FolderWriters /\ step[before[u]] = "published")
    BY <1>p, <1>b, <1>o
  <2>2. Folders!Whole(dest) \/ \E v \in Overwriting : Folders!Whole(backup[v])
    BY <1>k, <2>1 DEF Kept, Folders!NeverNothing, Folders!Bundle
  <2> QED BY <2>2, <1>b, <1>o DEF Folders!Whole
<1>3. Folders!PublishedStays'
  BY <1>k, <1>p, <1>b, <1>o DEF Kept, Folders!PublishedStays, Folders!Whole
<1> QED BY <1>1, <1>2, <1>3 DEF Kept

\* No bundle is to be replaced but those that were, and none but the writer's
\* own is spoiled where it is set aside.
LEMMA SameBundles ==
    ASSUME FoldersInv, NEW w \in FolderWriters, OthersAreLeft(w), before'[w] = before[w],
           step[w] \notin Folders!Over, step'[w] # "published"
    PROVE  /\ Need' => Need
           /\ backup'[w] = backup[w] /\ half' \subseteq half \cup {w} /\ IsSetAside => IsSetAside'
<1>o. Overwriting \subseteq FolderWriters
  BY FoldersAssumption DEF Folders!WritersAssumption
<1>a. \A u \in FolderWriters : before'[u] = before[u]
  BY DEF OthersAreLeft
<1>p. \A u \in FolderWriters : step'[u] = "published" => step[u] = "published"
  BY DEF OthersAreLeft
<1>1. Need' => Need
  BY <1>o, <1>a, <1>p DEF Need
<1>2. ASSUME backup'[w] = backup[w], half' \subseteq half \cup {w}, IsSetAside PROVE IsSetAside'
  <2>1. PICK u \in Overwriting : backup[u] \notin half \cup {None, Vacant}
    BY <1>2 DEF IsSetAside
  <2>2. SetsAside(u)
    BY <2>1, <1>o DEF FoldersInv, WriterInv
  <2>3. backup[u] # w
    BY <2>1, <2>2 DEF SetsAside
  <2>4. backup'[u] = backup[u]
    BY <1>2, <1>o DEF OthersAreLeft
  <2>5. backup'[u] \notin half' \cup {None, Vacant}
    BY <2>1, <2>3, <2>4, <1>2
  <2> QED BY <2>5 DEF IsSetAside
<1> QED BY <1>1, <1>2

\* NeverNothing in terms of both.
LEMMA NeverNothingIs ==
    /\ Folders!NeverNothing <=> (Need => Folders!Whole(dest) \/ IsSetAside)
    /\ Folders!NeverNothing' <=> (Need' => Folders!Whole(dest)' \/ IsSetAside')
  BY DEF Folders!NeverNothing, Folders!Bundle, Folders!Whole, Need, IsSetAside

\* What is published is neither removed nor spoiled by a writer, except by one
\* that is to replace it.
LEMMA PublishedAreLeft ==
    ASSUME FoldersInv, NEW w \in FolderWriters, OthersAreLeft(w),
           step[w] \notin Folders!Over, step'[w] # "published",
           before'[w] = before[w] \/ step[w] = "idle",
           dest' = dest \/ dest \in {None, Vacant, w} \/ (w \in Overwriting /\ dest = before[w]),
           \/ half' \subseteq half \cup {w}
           \/ w \in Overwriting /\ half' \subseteq half \cup {w, before[w]}
    PROVE  Folders!PublishedStays'
<1> SUFFICES ASSUME NEW v \in FolderWriters, step'[v] = "published"
             PROVE  (dest' = v /\ Folders!Whole(v)') \/ \E u \in Overwriting : before'[u] = v
  BY DEF Folders!PublishedStays
<1>n. None # v /\ Vacant # v /\ Overwriting \subseteq FolderWriters
  BY FoldersAssumption DEF Folders!TreesAssumption, Folders!WritersAssumption
<1>1. v # w /\ step[v] = "published"
  BY DEF OthersAreLeft
<1>2. (dest = v /\ v \notin half) \/ \E u \in Overwriting : before[u] = v
  BY <1>1 DEF FoldersInv, Kept, Folders!PublishedStays, Folders!Whole
<1>3. CASE \E u \in Overwriting : before[u] = v
  <2>1. PICK u \in Overwriting : before[u] = v
    BY <1>3
  <2>2. step[w] = "idle" => before[w] = None
    BY DEF FoldersInv, WriterInv, SetsAside
  <2>3. before'[u] = v
    BY <2>1, <2>2, <1>n DEF OthersAreLeft
  <2> QED BY <2>3
<1>4. CASE dest = v /\ v \notin half /\ ~\E u \in Overwriting : before[u] = v
  BY <1>1, <1>4, <1>n DEF Folders!Whole
<1> QED BY <1>2, <1>3, <1>4

\* What a writer sets aside is what it found.
LEMMA SetsAsideStays ==
    ASSUME FoldersInv, NEW w \in FolderWriters, OthersAreLeft(w), before'[w] = before[w], step'[w] # "idle",
           w \notin Overwriting =>
               /\ backup'[w] = None
               /\ step'[w] \notin {"set aside", "aside", "gone?", "purge", "purging",
                                   "undo", "undo remove", "undoing", "restore"},
           backup'[w] \in {None, before[w]}
    PROVE  SetsAside(w)'
<1>1. SetsAside(w)
  BY DEF FoldersInv, WriterInv
<1>2. w \in Overwriting /\ before[w] \in FolderWriters =>
          step[before[w]] \in Folders!Over /\ temp[before[w]] = None /\ before[w] # w
  BY <1>1 DEF SetsAside
<1>3. w \in Overwriting /\ before[w] \in FolderWriters =>
          step'[before[w]] \in Folders!Over /\ temp'[before[w]] = None
  BY <1>2 DEF OthersAreLeft
<1> QED BY <1>1, <1>3 DEF SetsAside

\* Its steps spoil no other folder, so none that it set aside.
LEMMA KeptIntactStays ==
    ASSUME FoldersInv, NEW w \in FolderWriters, OthersAreLeft(w), backup'[w] = backup[w],
           half' \subseteq half \cup {w}, Intact(backup[w])
    PROVE  Intact(backup[w])'
<1>1. backup[w] # w /\ (backup[w] # None => backup[w] = before[w])
  BY FoldersAssumption DEF FoldersInv, WriterInv, SetsAside, Folders!TreesAssumption
<1> QED BY <1>1 DEF Intact, OthersAreLeft

\* So a step of a writer keeps the invariant if it keeps the writer's own part
\* and what is true of the bundles;
LEMMA OwnStepKeeps ==
    ASSUME FoldersInv, NEW w \in FolderWriters, OthersAreLeft(w), FolderTypes', WriterInv(w)', Kept',
           step[w] \notin Folders!Over,
           step[w] = "idle" =>
               \A v \in FolderWriters : step[v] \notin Resting => v \notin Overwriting /\ w \notin Overwriting,
           \/ dest' = dest
           \/ dest \in {None, Vacant, w} /\ dest' \in {None, w}
           \/ w \in Overwriting /\ dest' \in {None, before[w]},
           \/ half' \subseteq half \cup {w}
           \/ w \in Overwriting /\ half' \subseteq half \cup {w, backup[w]}
    PROVE  FoldersInv'
<1>1. /\ \A v \in FolderWriters \ {w} : v \in Overwriting => step[v] \in Resting
      /\ w \in Overwriting => \A v \in FolderWriters \ {w} : step[v] \in Resting
  BY OthersRest DEF Resting, Folders!Over
<1>2. RunsAlone'
  BY <1>1 DEF RunsAlone, OthersAreLeft
<1>3. \A v \in FolderWriters \ {w} : WriterInv(v)'
  BY <1>1, OthersStay
<1> QED BY <1>2, <1>3 DEF FoldersInv

\* and one that leaves the path and what is set aside needs no more than the
\* former.
LEMMA QuietStepKeeps ==
    ASSUME FoldersInv, NEW w \in FolderWriters, OthersAreLeft(w), FolderTypes', WriterInv(w)',
           dest' = dest, half' \subseteq half, backup'[w] = backup[w], before'[w] = before[w],
           step[w] \notin Resting, step'[w] # "published"
    PROVE  FoldersInv'
<1>1. step[w] \notin Folders!Over /\ step[w] # "idle"
  BY DEF Resting, Folders!Over
<1>2. Kept'
  BY <1>1, QuietStep
<1> QED BY <1>1, <1>2, OwnStepKeeps

-----------------------------------------------------------------------------
(* The steps.                                                              *)

\* A writer begins; one that overwrites finds nobody else at work.
LEMMA StartKeepsFolders ==
    ASSUME FoldersInv, NEW w \in FolderWriters, Folders!Start(w)
    PROVE  FoldersInv'
<1>i. /\ FolderTypes /\ Kept
      /\ SetsAside(w) /\ StagedOnce(w) /\ PutThere(w) /\ PutWhole(w) /\ Phases(w) /\ RolledBack(w)
      /\ KeptIntact(w) /\ Covered(w)
  BY DEF FoldersInv, WriterInv
<1>g. step[w] = "idle" /\ \A v \in FolderWriters : step[v] \notin Resting => v \notin Overwriting
        /\ w \notin Overwriting
  BY DEF Folders!Start, Folders!Running, Folders!Over, Resting
<1>e. /\ step' = [step EXCEPT ![w] = "stage"]
      /\ before' = [before EXCEPT ![w] = dest]
      /\ dest' = dest /\ temp' = temp /\ backup' = backup /\ half' = half /\ saw' = saw
      /\ victim' = victim /\ stops' = stops
  BY <1>g, FoldersAssumption DEF Folders!Start, Folders!Go, Folders!Raise, Folders!Handler, Folders!Free,
       Folders!TreesAssumption
<1>v. OthersAreLeft(w) /\ step'[w] = "stage" /\ before'[w] = dest /\ temp'[w] = temp[w]
        /\ backup'[w] = backup[w] /\ saw'[w] = saw[w] /\ victim'[w] = victim[w] /\ stops'[w] = stops[w]
  BY <1>i, <1>e DEF FolderTypes, OthersAreLeft
<1>1. FolderTypes'
  BY <1>i, <1>g, <1>e, Assigned, FoldersAssumption DEF FolderTypes, Folders!Trees, Folders!Points,
       Folders!TreesAssumption, Folders!WritersAssumption
<1>2. StagedOnce(w)' /\ PutThere(w)' /\ PutWhole(w)' /\ Phases(w)' /\ RolledBack(w)'
  BY <1>i, <1>g, <1>e, <1>v, FoldersAssumption DEF StagedOnce, PutThere, PutWhole, Phases, RolledBack, SetsAside,
       Early, Cleaning, Folders!Over, Folders!Undoing, Folders!TreesAssumption
<1>3. SetsAside(w)'
  <2>1. backup[w] = None /\ dest # w
    BY <1>i, <1>g DEF SetsAside, StagedOnce
  <2>2. ASSUME w \in Overwriting, dest \in FolderWriters
        PROVE  step'[dest] \in Folders!Over /\ temp'[dest] = None
    <3>1. StagedOnce(dest)
      BY <2>2 DEF FoldersInv, WriterInv
    <3>2. step[dest] \in Folders!Over /\ temp[dest] = None
      BY <1>i, <1>g, <2>1, <2>2, <3>1 DEF StagedOnce, Resting, Folders!Over
    <3> QED BY <2>1, <2>2, <3>2, <1>v DEF OthersAreLeft
  <2> QED BY <1>g, <1>e, <1>v, <2>1, <2>2 DEF SetsAside
<1>4. KeptIntact(w)'
  BY <1>i, <1>g, <1>e, <1>v, KeptIntactStays, FoldersAssumption DEF KeptIntact, Phases, Cleaning, Intact,
       Folders!TreesAssumption
<1>5. Covered(w)'
  BY <1>i, <1>g, <1>e, <1>v, SameBundles, FoldersAssumption
  DEF Covered, MayRemove, Cleaning, StagedOnce, PutThere, SetsAside, Phases, Resting, Folders!Over,
      Folders!TreesAssumption
<1>6. Kept'
  <2>1. Intact(dest)'
    BY <1>i, <1>g, <1>e, <1>v, FoldersAssumption
    DEF Kept, Intact, KeptIntact, StagedOnce, OthersAreLeft, Folders!Over, Folders!TreesAssumption
  <2>2. Folders!NeverNothing'
    <3> SUFFICES ASSUME Need' PROVE Folders!Whole(dest)' \/ IsSetAside'
      BY NeverNothingIs
    <3>1. PICK u \in Overwriting :
              before'[u] = Old \/ (before'[u] \in FolderWriters /\ step'[before'[u]] = "published")
      BY DEF Need
    <3>2. CASE u = w
      BY <1>i, <1>e, <1>v, <3>1, <3>2, FoldersAssumption
      DEF Kept, Intact, OthersAreLeft, Folders!Whole, Folders!TreesAssumption
    <3>3. CASE u # w
      <4>1. before'[u] = before[u]
        BY <1>v, <3>3, FoldersAssumption DEF OthersAreLeft, Folders!WritersAssumption
      <4>2. Need
        BY <1>v, <3>1, <4>1 DEF Need, OthersAreLeft
      <4>3. Folders!Whole(dest) \/ IsSetAside
        BY <1>i, <4>2, NeverNothingIs DEF Kept
      <4> QED BY <4>3, <1>e DEF IsSetAside, Folders!Whole
    <3> QED BY <3>2, <3>3
  <2>3. Folders!PublishedStays'
    BY <1>i, <1>g, <1>e, <1>v, PublishedAreLeft DEF Folders!Over, Phases, Folders!Free
  <2> QED BY <2>1, <2>2, <2>3 DEF Kept
<1> QED BY <1>i, <1>g, <1>e, <1>v, <1>1, <1>2, <1>3, <1>4, <1>5, <1>6, OwnStepKeeps DEF WriterInv, SetsAside,
     Resting, Folders!Over, Folders!Free

\* A new folder is staged.
LEMMA StageKeepsFolders ==
    ASSUME FoldersInv, NEW w \in FolderWriters, Folders!Stage(w)
    PROVE  FoldersInv'
<1>i. /\ FolderTypes /\ Kept
      /\ SetsAside(w) /\ StagedOnce(w) /\ PutThere(w) /\ PutWhole(w) /\ Phases(w) /\ RolledBack(w)
      /\ KeptIntact(w) /\ Covered(w)
  BY DEF FoldersInv, WriterInv
<1>g. step[w] = "stage"
  BY <1>i, FoldersAssumption DEF Folders!Stage, SetsAside, StagedOnce, PutThere, Phases, Early, PutWhole,
       Folders!Free, Folders!TreesAssumption
<1>e. /\ step' = [step EXCEPT ![w] = "fill"]
      /\ temp' = [temp EXCEPT ![w] = w]
      /\ half' = half \cup {w}
      /\ dest' = dest /\ backup' = backup /\ saw' = saw /\ victim' = victim /\ stops' = stops
      /\ before' = before
  BY <1>g, FoldersAssumption DEF Folders!Stage, Folders!Go, Folders!Raise, Folders!Handler, Folders!Free,
       Folders!TreesAssumption
<1>v. OthersAreLeft(w) /\ step'[w] = "fill" /\ temp'[w] = w /\ backup'[w] = backup[w] /\ saw'[w] = saw[w]
        /\ victim'[w] = victim[w] /\ stops'[w] = stops[w] /\ before'[w] = before[w]
  BY <1>i, <1>e DEF FolderTypes, OthersAreLeft
<1>1. FolderTypes'
  <2>1. w \in Folders!Trees /\ w \in Folders!Trees \cup {None} /\ backup[w] \in Folders!Trees \cup {None}
    BY <1>i DEF FolderTypes, Folders!Trees
  <2>2. half' \subseteq Folders!Trees /\ dest' \in Folders!Trees \cup {None}
    BY <1>i, <1>g, <1>e, <2>1 DEF FolderTypes
  <2>3. step' \in [FolderWriters -> Folders!Points]
    BY <1>i, <1>e, Assigned DEF FolderTypes, Folders!Points
  <2>4. /\ temp' \in [FolderWriters -> Folders!Trees \cup {None}]
        /\ victim' \in [FolderWriters -> Folders!Trees \cup {None}]
    BY <1>i, <1>e, <2>1, Assigned DEF FolderTypes
  <2> QED BY <1>i, <1>e, <2>2, <2>3, <2>4 DEF FolderTypes
<1>2. StagedOnce(w)' /\ PutThere(w)' /\ PutWhole(w)' /\ Phases(w)' /\ RolledBack(w)'
  BY <1>i, <1>g, <1>e, <1>v, FoldersAssumption DEF StagedOnce, PutThere, PutWhole, Phases, RolledBack, SetsAside,
       Early, Cleaning, Folders!Over, Folders!Undoing, Folders!TreesAssumption
<1>3. SetsAside(w)'
  BY <1>i, <1>g, <1>e, <1>v, SetsAsideStays DEF SetsAside
<1>4. KeptIntact(w)'
  BY <1>i, <1>g, <1>e, <1>v, KeptIntactStays, FoldersAssumption DEF KeptIntact, Phases, Cleaning, Intact,
       Folders!TreesAssumption
<1>5. Covered(w)'
  BY <1>i, <1>g, <1>e, <1>v, SameBundles, FoldersAssumption
  DEF Covered, MayRemove, Cleaning, StagedOnce, PutThere, SetsAside, Phases, Resting, Folders!Over,
      Folders!TreesAssumption
<1>6. Kept'
  <2>1. Intact(dest)'
    BY <1>i, <1>g, <1>e, <1>v, FoldersAssumption DEF Kept, Intact, KeptIntact, StagedOnce, OthersAreLeft,
         Folders!Over, Folders!TreesAssumption
  <2>2. Folders!NeverNothing'
    BY <1>i, <1>g, <1>e, <1>v, SameBundles, NeverNothingIs, FoldersAssumption
    DEF Kept, StagedOnce, PutWhole, PutThere, Covered, MayRemove, Cleaning, SetsAside, Folders!Whole,
        Folders!Over, Folders!TreesAssumption
  <2>3. Folders!PublishedStays'
    BY <1>i, <1>g, <1>e, <1>v, PublishedAreLeft DEF Folders!Over, Phases, Folders!Free
  <2> QED BY <2>1, <2>2, <2>3 DEF Kept
<1> QED BY <1>i, <1>g, <1>e, <1>v, <1>1, <1>2, <1>3, <1>4, <1>5, <1>6, OwnStepKeeps DEF WriterInv, SetsAside,
     Resting, Folders!Over, Folders!Free

\* It is complete.
LEMMA FillKeepsFolders ==
    ASSUME FoldersInv, NEW w \in FolderWriters, Folders!Fill(w)
    PROVE  FoldersInv'
<1>i. /\ FolderTypes /\ Kept
      /\ SetsAside(w) /\ StagedOnce(w) /\ PutThere(w) /\ PutWhole(w) /\ Phases(w) /\ RolledBack(w)
      /\ KeptIntact(w) /\ Covered(w)
  BY DEF FoldersInv, WriterInv
<1>g. step[w] = "fill"
  BY <1>i, FoldersAssumption DEF Folders!Fill, SetsAside, StagedOnce, PutThere, Phases, Early, PutWhole,
       Folders!Free, Folders!TreesAssumption
<1>e. /\ step' = [step EXCEPT ![w] = "look"]
      /\ half' = half \ {w}
      /\ dest' = dest /\ temp' = temp /\ backup' = backup /\ saw' = saw /\ victim' = victim
      /\ stops' = stops /\ before' = before
  BY <1>g, FoldersAssumption DEF Folders!Fill, Folders!Go, Folders!Raise, Folders!Handler, Folders!Free,
       Folders!TreesAssumption
<1>v. OthersAreLeft(w) /\ step'[w] = "look" /\ temp'[w] = temp[w] /\ backup'[w] = backup[w] /\ saw'[w] = saw[w]
        /\ victim'[w] = victim[w] /\ stops'[w] = stops[w] /\ before'[w] = before[w]
  BY <1>i, <1>e DEF FolderTypes, OthersAreLeft
<1>1. FolderTypes'
  BY <1>i, <1>g, <1>e, Assigned, FoldersAssumption DEF FolderTypes, Folders!Trees, Folders!Points,
       Folders!TreesAssumption, Folders!WritersAssumption
<1>2. StagedOnce(w)' /\ PutThere(w)' /\ PutWhole(w)' /\ Phases(w)' /\ RolledBack(w)'
  BY <1>i, <1>g, <1>e, <1>v, FoldersAssumption DEF StagedOnce, PutThere, PutWhole, Phases, RolledBack, SetsAside,
       Early, Cleaning, Folders!Over, Folders!Undoing, Folders!TreesAssumption
<1>3. SetsAside(w)'
  BY <1>i, <1>g, <1>e, <1>v, SetsAsideStays DEF SetsAside
<1>4. KeptIntact(w)'
  BY <1>i, <1>g, <1>e, <1>v, KeptIntactStays, FoldersAssumption DEF KeptIntact, Phases, Cleaning, Intact,
       Folders!TreesAssumption
<1>5. Covered(w)'
  BY <1>i, <1>g, <1>e, <1>v, SameBundles, FoldersAssumption
  DEF Covered, MayRemove, Cleaning, StagedOnce, PutThere, SetsAside, Phases, Resting, Folders!Over,
      Folders!TreesAssumption
<1> QED BY <1>g, <1>e, <1>v, <1>1, <1>2, <1>3, <1>4, <1>5, QuietStepKeeps DEF WriterInv, Resting

\* The path is free, or what is there may be replaced.
LEMMA LookFreeKeepsFolders ==
    ASSUME FoldersInv, NEW w \in FolderWriters, Folders!Look(w), Folders!Free \/ w \in Overwriting
    PROVE  FoldersInv'
<1>i. /\ FolderTypes /\ Kept
      /\ SetsAside(w) /\ StagedOnce(w) /\ PutThere(w) /\ PutWhole(w) /\ Phases(w) /\ RolledBack(w)
      /\ KeptIntact(w) /\ Covered(w)
  BY DEF FoldersInv, WriterInv
<1>g. step[w] = "look"
  BY <1>i, FoldersAssumption DEF Folders!Look, SetsAside, StagedOnce, PutThere, Phases, Early, PutWhole,
       Folders!Free, Folders!TreesAssumption
<1>e. /\ step' = [step EXCEPT ![w] = "recheck"]
      /\ saw' = [saw EXCEPT ![w] = dest]
      /\ dest' = dest /\ temp' = temp /\ backup' = backup /\ half' = half /\ victim' = victim
      /\ stops' = stops /\ before' = before
  BY <1>g, FoldersAssumption DEF Folders!Look, Folders!Go, Folders!Raise, Folders!Handler, Folders!Free,
       Folders!TreesAssumption
<1>v. OthersAreLeft(w) /\ step'[w] = "recheck" /\ saw'[w] = dest /\ temp'[w] = temp[w] /\ backup'[w] = backup[w]
        /\ victim'[w] = victim[w] /\ stops'[w] = stops[w] /\ before'[w] = before[w]
  BY <1>i, <1>e DEF FolderTypes, OthersAreLeft
<1>1. FolderTypes'
  BY <1>i, <1>g, <1>e, Assigned, FoldersAssumption DEF FolderTypes, Folders!Trees, Folders!Points,
       Folders!TreesAssumption, Folders!WritersAssumption
<1>2. StagedOnce(w)' /\ PutThere(w)' /\ PutWhole(w)' /\ Phases(w)' /\ RolledBack(w)'
  BY <1>i, <1>g, <1>e, <1>v, FoldersAssumption DEF StagedOnce, PutThere, PutWhole, Phases, RolledBack, SetsAside,
       Early, Cleaning, Folders!Over, Folders!Undoing, Folders!TreesAssumption
<1>3. SetsAside(w)'
  BY <1>i, <1>g, <1>e, <1>v, SetsAsideStays DEF SetsAside
<1>4. KeptIntact(w)'
  BY <1>i, <1>g, <1>e, <1>v, KeptIntactStays, FoldersAssumption DEF KeptIntact, Phases, Cleaning, Intact,
       Folders!TreesAssumption
<1>5. Covered(w)'
  BY <1>i, <1>g, <1>e, <1>v, SameBundles, FoldersAssumption
  DEF Covered, MayRemove, Cleaning, StagedOnce, PutThere, SetsAside, Phases, Resting, Folders!Over,
      Folders!TreesAssumption
<1> QED BY <1>g, <1>e, <1>v, <1>1, <1>2, <1>3, <1>4, <1>5, QuietStepKeeps DEF WriterInv, Resting

\* Neither is so.
LEMMA LookTakenKeepsFolders ==
    ASSUME FoldersInv, NEW w \in FolderWriters, Folders!Look(w), ~(Folders!Free \/ w \in Overwriting)
    PROVE  FoldersInv'
<1>i. /\ FolderTypes /\ Kept
      /\ SetsAside(w) /\ StagedOnce(w) /\ PutThere(w) /\ PutWhole(w) /\ Phases(w) /\ RolledBack(w)
      /\ KeptIntact(w) /\ Covered(w)
  BY DEF FoldersInv, WriterInv
<1>g. step[w] = "look" /\ w \notin Overwriting
  BY <1>i, FoldersAssumption DEF Folders!Look, SetsAside, StagedOnce, PutThere, Phases, Early, PutWhole,
       Folders!Free, Folders!TreesAssumption
<1>e. /\ step' = [step EXCEPT ![w] = "clean temp"]
      /\ saw' = [saw EXCEPT ![w] = dest]
      /\ dest' = dest /\ temp' = temp /\ backup' = backup /\ half' = half /\ victim' = victim
      /\ stops' = stops /\ before' = before
  BY <1>g, FoldersAssumption DEF Folders!Look, Folders!Go, Folders!Raise, Folders!Handler, Folders!Free,
       Folders!TreesAssumption
<1>v. OthersAreLeft(w) /\ step'[w] = "clean temp" /\ saw'[w] = dest /\ temp'[w] = temp[w]
        /\ backup'[w] = backup[w] /\ victim'[w] = victim[w] /\ stops'[w] = stops[w] /\ before'[w] = before[w]
  BY <1>i, <1>e DEF FolderTypes, OthersAreLeft
<1>1. FolderTypes'
  BY <1>i, <1>g, <1>e, Assigned, FoldersAssumption DEF FolderTypes, Folders!Trees, Folders!Points,
       Folders!TreesAssumption, Folders!WritersAssumption
<1>2. StagedOnce(w)' /\ PutThere(w)' /\ PutWhole(w)' /\ Phases(w)' /\ RolledBack(w)'
  BY <1>i, <1>g, <1>e, <1>v, FoldersAssumption DEF StagedOnce, PutThere, PutWhole, Phases, RolledBack, SetsAside,
       Early, Cleaning, Folders!Over, Folders!Undoing, Folders!TreesAssumption
<1>3. SetsAside(w)'
  BY <1>i, <1>g, <1>e, <1>v, SetsAsideStays DEF SetsAside
<1>4. KeptIntact(w)'
  BY <1>i, <1>g, <1>e, <1>v, KeptIntactStays, FoldersAssumption DEF KeptIntact, Phases, Cleaning, Intact,
       Folders!TreesAssumption
<1>5. Covered(w)'
  BY <1>i, <1>g, <1>e, <1>v, SameBundles, FoldersAssumption
  DEF Covered, MayRemove, Cleaning, StagedOnce, PutThere, SetsAside, Phases, Resting, Folders!Over,
      Folders!TreesAssumption
<1> QED BY <1>g, <1>e, <1>v, <1>1, <1>2, <1>3, <1>4, <1>5, QuietStepKeeps DEF WriterInv, Resting

\* The folder there is another than it was; this writer does not overwrite.
LEMMA RecheckOtherKeepsFolders ==
    ASSUME FoldersInv, NEW w \in FolderWriters, Folders!Recheck(w), dest # saw[w]
    PROVE  FoldersInv'
<1>i. /\ FolderTypes /\ Kept
      /\ SetsAside(w) /\ StagedOnce(w) /\ PutThere(w) /\ PutWhole(w) /\ Phases(w) /\ RolledBack(w)
      /\ KeptIntact(w) /\ Covered(w)
  BY DEF FoldersInv, WriterInv
<1>g. step[w] = "recheck" /\ w \notin Overwriting
  BY <1>i, FoldersAssumption DEF Folders!Recheck, SetsAside, StagedOnce, PutThere, Phases, Early, PutWhole,
       Folders!Free, Folders!TreesAssumption
<1>e. /\ step' = [step EXCEPT ![w] = "clean temp"]
      /\ dest' = dest /\ temp' = temp /\ backup' = backup /\ half' = half /\ saw' = saw
      /\ victim' = victim /\ stops' = stops /\ before' = before
  BY <1>g, FoldersAssumption DEF Folders!Recheck, Folders!Go, Folders!Raise, Folders!Handler, Folders!Free,
       Folders!TreesAssumption
<1>v. OthersAreLeft(w) /\ step'[w] = "clean temp" /\ temp'[w] = temp[w] /\ backup'[w] = backup[w]
        /\ saw'[w] = saw[w] /\ victim'[w] = victim[w] /\ stops'[w] = stops[w] /\ before'[w] = before[w]
  BY <1>i, <1>e DEF FolderTypes, OthersAreLeft
<1>1. FolderTypes'
  BY <1>i, <1>g, <1>e, Assigned, FoldersAssumption DEF FolderTypes, Folders!Trees, Folders!Points,
       Folders!TreesAssumption, Folders!WritersAssumption
<1>2. StagedOnce(w)' /\ PutThere(w)' /\ PutWhole(w)' /\ Phases(w)' /\ RolledBack(w)'
  BY <1>i, <1>g, <1>e, <1>v, FoldersAssumption DEF StagedOnce, PutThere, PutWhole, Phases, RolledBack, SetsAside,
       Early, Cleaning, Folders!Over, Folders!Undoing, Folders!TreesAssumption
<1>3. SetsAside(w)'
  BY <1>i, <1>g, <1>e, <1>v, SetsAsideStays DEF SetsAside
<1>4. KeptIntact(w)'
  BY <1>i, <1>g, <1>e, <1>v, KeptIntactStays, FoldersAssumption DEF KeptIntact, Phases, Cleaning, Intact,
       Folders!TreesAssumption
<1>5. Covered(w)'
  BY <1>i, <1>g, <1>e, <1>v, SameBundles, FoldersAssumption
  DEF Covered, MayRemove, Cleaning, StagedOnce, PutThere, SetsAside, Phases, Resting, Folders!Over,
      Folders!TreesAssumption
<1> QED BY <1>g, <1>e, <1>v, <1>1, <1>2, <1>3, <1>4, <1>5, QuietStepKeeps DEF WriterInv, Resting

\* It is to be replaced.
LEMMA RecheckOldKeepsFolders ==
    ASSUME FoldersInv, NEW w \in FolderWriters, Folders!Recheck(w), dest = saw[w],
           w \in Overwriting /\ saw[w] # None
    PROVE  FoldersInv'
<1>i. /\ FolderTypes /\ Kept
      /\ SetsAside(w) /\ StagedOnce(w) /\ PutThere(w) /\ PutWhole(w) /\ Phases(w) /\ RolledBack(w)
      /\ KeptIntact(w) /\ Covered(w)
  BY DEF FoldersInv, WriterInv
<1>g. step[w] = "recheck" /\ w \in Overwriting /\ dest = saw[w] /\ saw[w] # None
  BY <1>i, FoldersAssumption DEF Folders!Recheck, SetsAside, StagedOnce, PutThere, Phases, Early, PutWhole,
       Folders!Free, Folders!TreesAssumption
<1>e. /\ step' = [step EXCEPT ![w] = "set aside"]
      /\ dest' = dest /\ temp' = temp /\ backup' = backup /\ half' = half /\ saw' = saw
      /\ victim' = victim /\ stops' = stops /\ before' = before
  BY <1>g, FoldersAssumption DEF Folders!Recheck, Folders!Go, Folders!Raise, Folders!Handler, Folders!Free,
       Folders!TreesAssumption
<1>v. OthersAreLeft(w) /\ step'[w] = "set aside" /\ temp'[w] = temp[w] /\ backup'[w] = backup[w]
        /\ saw'[w] = saw[w] /\ victim'[w] = victim[w] /\ stops'[w] = stops[w] /\ before'[w] = before[w]
  BY <1>i, <1>e DEF FolderTypes, OthersAreLeft
<1>1. FolderTypes'
  BY <1>i, <1>g, <1>e, Assigned, FoldersAssumption DEF FolderTypes, Folders!Trees, Folders!Points,
       Folders!TreesAssumption, Folders!WritersAssumption
<1>2. StagedOnce(w)' /\ PutThere(w)' /\ PutWhole(w)' /\ Phases(w)' /\ RolledBack(w)'
  BY <1>i, <1>g, <1>e, <1>v, FoldersAssumption DEF StagedOnce, PutThere, PutWhole, Phases, RolledBack, SetsAside,
       Early, Cleaning, Folders!Over, Folders!Undoing, Folders!TreesAssumption
<1>3. SetsAside(w)'
  BY <1>i, <1>g, <1>e, <1>v, SetsAsideStays DEF SetsAside
<1>4. KeptIntact(w)'
  BY <1>i, <1>g, <1>e, <1>v, KeptIntactStays, FoldersAssumption DEF KeptIntact, Phases, Cleaning, Intact,
       Folders!TreesAssumption
<1>5. Covered(w)'
  BY <1>i, <1>g, <1>e, <1>v, SameBundles, FoldersAssumption
  DEF Covered, MayRemove, Cleaning, StagedOnce, PutThere, SetsAside, Phases, Resting, Folders!Over,
      Folders!TreesAssumption
<1> QED BY <1>g, <1>e, <1>v, <1>1, <1>2, <1>3, <1>4, <1>5, QuietStepKeeps DEF WriterInv, Resting

\* There is none to be replaced.
LEMMA RecheckNoneKeepsFolders ==
    ASSUME FoldersInv, NEW w \in FolderWriters, Folders!Recheck(w), dest = saw[w],
           ~(w \in Overwriting /\ saw[w] # None)
    PROVE  FoldersInv'
<1>i. /\ FolderTypes /\ Kept
      /\ SetsAside(w) /\ StagedOnce(w) /\ PutThere(w) /\ PutWhole(w) /\ Phases(w) /\ RolledBack(w)
      /\ KeptIntact(w) /\ Covered(w)
  BY DEF FoldersInv, WriterInv
<1>g. step[w] = "recheck" /\ dest = saw[w] /\ (w \in Overwriting => dest = None)
  BY <1>i, FoldersAssumption DEF Folders!Recheck, SetsAside, StagedOnce, PutThere, Phases, Early, PutWhole,
       Folders!Free, Folders!TreesAssumption
<1>e. /\ step' = [step EXCEPT ![w] = "put"]
      /\ dest' = dest /\ temp' = temp /\ backup' = backup /\ half' = half /\ saw' = saw
      /\ victim' = victim /\ stops' = stops /\ before' = before
  BY <1>g, FoldersAssumption DEF Folders!Recheck, Folders!Go, Folders!Raise, Folders!Handler, Folders!Free,
       Folders!TreesAssumption
<1>v. OthersAreLeft(w) /\ step'[w] = "put" /\ temp'[w] = temp[w] /\ backup'[w] = backup[w] /\ saw'[w] = saw[w]
        /\ victim'[w] = victim[w] /\ stops'[w] = stops[w] /\ before'[w] = before[w]
  BY <1>i, <1>e DEF FolderTypes, OthersAreLeft
<1>1. FolderTypes'
  BY <1>i, <1>g, <1>e, Assigned, FoldersAssumption DEF FolderTypes, Folders!Trees, Folders!Points,
       Folders!TreesAssumption, Folders!WritersAssumption
<1>2. StagedOnce(w)' /\ PutThere(w)' /\ PutWhole(w)' /\ Phases(w)' /\ RolledBack(w)'
  BY <1>i, <1>g, <1>e, <1>v, FoldersAssumption DEF StagedOnce, PutThere, PutWhole, Phases, RolledBack, SetsAside,
       Early, Cleaning, Folders!Over, Folders!Undoing, Folders!TreesAssumption
<1>3. SetsAside(w)'
  BY <1>i, <1>g, <1>e, <1>v, SetsAsideStays DEF SetsAside
<1>4. KeptIntact(w)'
  <2>1. w \in Overwriting => backup'[w] = None
    BY <1>i, <1>g, <1>e DEF Phases, Early
  <2> QED BY <2>1, FoldersAssumption DEF KeptIntact, Intact, Folders!TreesAssumption
<1>5. Covered(w)'
  BY <1>i, <1>g, <1>e, <1>v, SameBundles, FoldersAssumption
  DEF Covered, MayRemove, Cleaning, StagedOnce, PutThere, SetsAside, Phases, Resting, Folders!Over,
      Folders!TreesAssumption
<1> QED BY <1>g, <1>e, <1>v, <1>1, <1>2, <1>3, <1>4, <1>5, QuietStepKeeps DEF WriterInv, Resting

\* The folder that was found is set aside.
LEMMA SetAsideKeepsFolders ==
    ASSUME FoldersInv, NEW w \in FolderWriters, Folders!SetAside(w)
    PROVE  FoldersInv'
<1>i. /\ FolderTypes /\ Kept
      /\ SetsAside(w) /\ StagedOnce(w) /\ PutThere(w) /\ PutWhole(w) /\ Phases(w) /\ RolledBack(w)
      /\ KeptIntact(w) /\ Covered(w)
  BY DEF FoldersInv, WriterInv
<1>g. step[w] = "set aside" /\ w \in Overwriting /\ dest # None /\ dest = before[w] /\ backup[w] = None
  BY <1>i, FoldersAssumption DEF Folders!SetAside, SetsAside, StagedOnce, PutThere, Phases, Early, PutWhole,
       Folders!Free, Folders!TreesAssumption
<1>e. /\ step' = [step EXCEPT ![w] = "aside"]
      /\ backup' = [backup EXCEPT ![w] = dest]
      /\ dest' = None
      /\ temp' = temp /\ half' = half /\ saw' = saw /\ victim' = victim /\ stops' = stops /\ before' = before
  BY <1>g, FoldersAssumption DEF Folders!SetAside, Folders!Go, Folders!Raise, Folders!Handler, Folders!Free,
       Folders!TreesAssumption
<1>v. OthersAreLeft(w) /\ step'[w] = "aside" /\ backup'[w] = dest /\ temp'[w] = temp[w] /\ saw'[w] = saw[w]
        /\ victim'[w] = victim[w] /\ stops'[w] = stops[w] /\ before'[w] = before[w]
  BY <1>i, <1>e DEF FolderTypes, OthersAreLeft
<1>1. FolderTypes'
  BY <1>i, <1>g, <1>e, Assigned, FoldersAssumption DEF FolderTypes, Folders!Trees, Folders!Points,
       Folders!TreesAssumption, Folders!WritersAssumption
<1>2. StagedOnce(w)' /\ PutThere(w)' /\ PutWhole(w)' /\ Phases(w)' /\ RolledBack(w)'
  BY <1>i, <1>g, <1>e, <1>v, FoldersAssumption DEF StagedOnce, PutThere, PutWhole, Phases, RolledBack, SetsAside,
       Early, Cleaning, Folders!Over, Folders!Undoing, Folders!TreesAssumption
<1>3. SetsAside(w)'
  BY <1>i, <1>g, <1>e, <1>v, SetsAsideStays DEF SetsAside
<1>4. KeptIntact(w)'
  <2>1. backup'[w] = dest /\ dest # w /\ Intact(dest)
    BY <1>i, <1>g, <1>v DEF SetsAside, Kept
  <2>2. Intact(backup[w])'
    BY <2>1, <1>e, <1>v DEF Intact, OthersAreLeft
  <2> QED BY <2>2 DEF KeptIntact
<1>5. Covered(w)'
  BY <1>i, <1>g, <1>e, <1>v, SameBundles, FoldersAssumption
  DEF Covered, MayRemove, Cleaning, StagedOnce, PutThere, SetsAside, Phases, Resting, Folders!Over,
      Folders!TreesAssumption
<1>6. Kept'
  <2>1. Intact(dest)'
    BY <1>i, <1>g, <1>e, <1>v, FoldersAssumption
    DEF Kept, Intact, KeptIntact, StagedOnce, OthersAreLeft, Folders!Over, Folders!TreesAssumption
  <2>2. Folders!NeverNothing'
    <3> SUFFICES ASSUME Need PROVE IsSetAside'
      BY <1>g, <1>v, SameBundles, NeverNothingIs DEF Folders!Over
    <3>1. CASE Folders!Whole(dest)
      BY <1>g, <1>e, <1>v, <3>1 DEF Folders!Whole, IsSetAside
    <3>2. CASE IsSetAside
      <4>1. PICK u \in Overwriting : backup[u] \notin half \cup {None, Vacant}
        BY <3>2 DEF IsSetAside
      <4>2. backup'[u] = backup[u]
        BY <4>1, <1>g, <1>v, FoldersAssumption DEF OthersAreLeft, Folders!WritersAssumption
      <4> QED BY <4>1, <4>2, <1>e DEF IsSetAside
    <3> QED BY <1>i, <3>1, <3>2, NeverNothingIs DEF Kept
  <2>3. Folders!PublishedStays'
    BY <1>i, <1>g, <1>e, <1>v, PublishedAreLeft DEF Folders!Over, Phases, Folders!Free
  <2> QED BY <2>1, <2>2, <2>3 DEF Kept
<1> QED BY <1>i, <1>g, <1>e, <1>v, <1>1, <1>2, <1>3, <1>4, <1>5, <1>6, OwnStepKeeps DEF WriterInv, SetsAside,
     Resting, Folders!Over, Folders!Free

\* It is set aside.
LEMMA AsideKeepsFolders ==
    ASSUME FoldersInv, NEW w \in FolderWriters, Folders!Aside(w)
    PROVE  FoldersInv'
<1>i. /\ FolderTypes /\ Kept
      /\ SetsAside(w) /\ StagedOnce(w) /\ PutThere(w) /\ PutWhole(w) /\ Phases(w) /\ RolledBack(w)
      /\ KeptIntact(w) /\ Covered(w)
  BY DEF FoldersInv, WriterInv
<1>g. step[w] = "aside"
  BY <1>i, FoldersAssumption DEF Folders!Aside, SetsAside, StagedOnce, PutThere, Phases, Early, PutWhole,
       Folders!Free, Folders!TreesAssumption
<1>e. /\ step' = [step EXCEPT ![w] = "gone?"]
      /\ dest' = dest /\ temp' = temp /\ backup' = backup /\ half' = half /\ saw' = saw
      /\ victim' = victim /\ stops' = stops /\ before' = before
  BY <1>g, FoldersAssumption DEF Folders!Aside, Folders!Go, Folders!Raise, Folders!Handler, Folders!Free,
       Folders!TreesAssumption
<1>v. OthersAreLeft(w) /\ step'[w] = "gone?" /\ temp'[w] = temp[w] /\ backup'[w] = backup[w] /\ saw'[w] = saw[w]
        /\ victim'[w] = victim[w] /\ stops'[w] = stops[w] /\ before'[w] = before[w]
  BY <1>i, <1>e DEF FolderTypes, OthersAreLeft
<1>1. FolderTypes'
  BY <1>i, <1>g, <1>e, Assigned, FoldersAssumption DEF FolderTypes, Folders!Trees, Folders!Points,
       Folders!TreesAssumption, Folders!WritersAssumption
<1>2. StagedOnce(w)' /\ PutThere(w)' /\ PutWhole(w)' /\ Phases(w)' /\ RolledBack(w)'
  BY <1>i, <1>g, <1>e, <1>v, FoldersAssumption DEF StagedOnce, PutThere, PutWhole, Phases, RolledBack, SetsAside,
       Early, Cleaning, Folders!Over, Folders!Undoing, Folders!TreesAssumption
<1>3. SetsAside(w)'
  BY <1>i, <1>g, <1>e, <1>v, SetsAsideStays DEF SetsAside
<1>4. KeptIntact(w)'
  BY <1>i, <1>g, <1>e, <1>v, KeptIntactStays, FoldersAssumption DEF KeptIntact, Phases, Cleaning, Intact,
       Folders!TreesAssumption
<1>5. Covered(w)'
  BY <1>i, <1>g, <1>e, <1>v, SameBundles, FoldersAssumption
  DEF Covered, MayRemove, Cleaning, StagedOnce, PutThere, SetsAside, Phases, Resting, Folders!Over,
      Folders!TreesAssumption
<1> QED BY <1>g, <1>e, <1>v, <1>1, <1>2, <1>3, <1>4, <1>5, QuietStepKeeps DEF WriterInv, Resting

\* Nothing is at the path any more.
LEMMA GoneKeepsFolders ==
    ASSUME FoldersInv, NEW w \in FolderWriters, Folders!Gone(w)
    PROVE  FoldersInv'
<1>i. /\ FolderTypes /\ Kept
      /\ SetsAside(w) /\ StagedOnce(w) /\ PutThere(w) /\ PutWhole(w) /\ Phases(w) /\ RolledBack(w)
      /\ KeptIntact(w) /\ Covered(w)
  BY DEF FoldersInv, WriterInv
<1>g. step[w] = "gone?" /\ dest = None
  BY <1>i, FoldersAssumption DEF Folders!Gone, SetsAside, StagedOnce, PutThere, Phases, Early, PutWhole,
       Folders!Free, Folders!TreesAssumption
<1>e. /\ step' = [step EXCEPT ![w] = "put"]
      /\ dest' = dest /\ temp' = temp /\ backup' = backup /\ half' = half /\ saw' = saw
      /\ victim' = victim /\ stops' = stops /\ before' = before
  BY <1>g, FoldersAssumption DEF Folders!Gone, Folders!Go, Folders!Raise, Folders!Handler, Folders!Free,
       Folders!TreesAssumption
<1>v. OthersAreLeft(w) /\ step'[w] = "put" /\ temp'[w] = temp[w] /\ backup'[w] = backup[w] /\ saw'[w] = saw[w]
        /\ victim'[w] = victim[w] /\ stops'[w] = stops[w] /\ before'[w] = before[w]
  BY <1>i, <1>e DEF FolderTypes, OthersAreLeft
<1>1. FolderTypes'
  BY <1>i, <1>g, <1>e, Assigned, FoldersAssumption DEF FolderTypes, Folders!Trees, Folders!Points,
       Folders!TreesAssumption, Folders!WritersAssumption
<1>2. StagedOnce(w)' /\ PutThere(w)' /\ PutWhole(w)' /\ Phases(w)' /\ RolledBack(w)'
  BY <1>i, <1>g, <1>e, <1>v, FoldersAssumption DEF StagedOnce, PutThere, PutWhole, Phases, RolledBack, SetsAside,
       Early, Cleaning, Folders!Over, Folders!Undoing, Folders!TreesAssumption
<1>3. SetsAside(w)'
  BY <1>i, <1>g, <1>e, <1>v, SetsAsideStays DEF SetsAside
<1>4. KeptIntact(w)'
  BY <1>i, <1>g, <1>e, <1>v, KeptIntactStays, FoldersAssumption DEF KeptIntact, Phases, Cleaning, Intact,
       Folders!TreesAssumption
<1>5. Covered(w)'
  BY <1>i, <1>g, <1>e, <1>v, SameBundles, FoldersAssumption
  DEF Covered, MayRemove, Cleaning, StagedOnce, PutThere, SetsAside, Phases, Resting, Folders!Over,
      Folders!TreesAssumption
<1> QED BY <1>g, <1>e, <1>v, <1>1, <1>2, <1>3, <1>4, <1>5, QuietStepKeeps DEF WriterInv, Resting

\* The new folder is put there.
LEMMA PutFreeKeepsFolders ==
    ASSUME FoldersInv, NEW w \in FolderWriters, Folders!Put(w), Folders!Free
    PROVE  FoldersInv'
<1>i. /\ FolderTypes /\ Kept
      /\ SetsAside(w) /\ StagedOnce(w) /\ PutThere(w) /\ PutWhole(w) /\ Phases(w) /\ RolledBack(w)
      /\ KeptIntact(w) /\ Covered(w)
  BY DEF FoldersInv, WriterInv
<1>g. step[w] = "put" /\ dest \in {None, Vacant}
  BY <1>i, FoldersAssumption DEF Folders!Put, SetsAside, StagedOnce, PutThere, Phases, Early, PutWhole,
       Folders!Free, Folders!TreesAssumption
<1>e. /\ step' = [step EXCEPT ![w] = "sync"]
      /\ dest' = w
      /\ temp' = [temp EXCEPT ![w] = None]
      /\ backup' = backup /\ half' = half /\ saw' = saw /\ victim' = victim /\ stops' = stops
      /\ before' = before
  BY <1>g, FoldersAssumption DEF Folders!Put, Folders!Go, Folders!Raise, Folders!Handler, Folders!Free,
       Folders!TreesAssumption
<1>v. OthersAreLeft(w) /\ step'[w] = "sync" /\ temp'[w] = None /\ backup'[w] = backup[w] /\ saw'[w] = saw[w]
        /\ victim'[w] = victim[w] /\ stops'[w] = stops[w] /\ before'[w] = before[w]
  BY <1>i, <1>e DEF FolderTypes, OthersAreLeft
<1>1. FolderTypes'
  BY <1>i, <1>g, <1>e, Assigned, FoldersAssumption DEF FolderTypes, Folders!Trees, Folders!Points,
       Folders!TreesAssumption, Folders!WritersAssumption
<1>2. StagedOnce(w)' /\ PutThere(w)' /\ PutWhole(w)' /\ Phases(w)' /\ RolledBack(w)'
  BY <1>i, <1>g, <1>e, <1>v, FoldersAssumption DEF StagedOnce, PutThere, PutWhole, Phases, RolledBack, SetsAside,
       Early, Cleaning, Folders!Over, Folders!Undoing, Folders!TreesAssumption
<1>3. SetsAside(w)'
  BY <1>i, <1>g, <1>e, <1>v, SetsAsideStays DEF SetsAside
<1>4. KeptIntact(w)'
  BY <1>i, <1>g, <1>e, <1>v, KeptIntactStays, FoldersAssumption DEF KeptIntact, Phases, Cleaning, Intact,
       Folders!TreesAssumption
<1>5. Covered(w)'
  <2>1. Need' => IsSetAside
    BY <1>i, <1>g, <1>e, <1>v, SameBundles, NeverNothingIs DEF Kept, Folders!Whole, Folders!Over
  <2> QED BY <2>1, <1>g, <1>e, <1>v, SameBundles DEF Covered, Folders!Over
<1>6. Kept'
  <2>1. Intact(dest)'
    BY <1>i, <1>g, <1>e, <1>v, FoldersAssumption DEF Kept, Intact, KeptIntact, StagedOnce, OthersAreLeft,
         Folders!Over, Folders!TreesAssumption
  <2>2. Folders!NeverNothing'
    BY <1>i, <1>g, <1>e, <1>v, SameBundles, NeverNothingIs, FoldersAssumption
    DEF Kept, StagedOnce, PutWhole, PutThere, Covered, MayRemove, Cleaning, SetsAside, Folders!Whole,
        Folders!Over, Folders!TreesAssumption
  <2>3. Folders!PublishedStays'
    BY <1>i, <1>g, <1>e, <1>v, PublishedAreLeft DEF Folders!Over, Phases, Folders!Free
  <2> QED BY <2>1, <2>2, <2>3 DEF Kept
<1> QED BY <1>i, <1>g, <1>e, <1>v, <1>1, <1>2, <1>3, <1>4, <1>5, <1>6, OwnStepKeeps DEF WriterInv, SetsAside,
     Resting, Folders!Over, Folders!Free

\* Another folder has come there.
LEMMA PutTakenKeepsFolders ==
    ASSUME FoldersInv, NEW w \in FolderWriters, Folders!Put(w), ~Folders!Free
    PROVE  FoldersInv'
<1>i. /\ FolderTypes /\ Kept
      /\ SetsAside(w) /\ StagedOnce(w) /\ PutThere(w) /\ PutWhole(w) /\ Phases(w) /\ RolledBack(w)
      /\ KeptIntact(w) /\ Covered(w)
  BY DEF FoldersInv, WriterInv
<1>g. step[w] = "put" /\ w \notin Overwriting
  BY <1>i, FoldersAssumption DEF Folders!Put, SetsAside, StagedOnce, PutThere, Phases, Early, PutWhole,
       Folders!Free, Folders!TreesAssumption
<1>e. /\ step' = [step EXCEPT ![w] = "clean temp"]
      /\ dest' = dest /\ temp' = temp /\ backup' = backup /\ half' = half /\ saw' = saw
      /\ victim' = victim /\ stops' = stops /\ before' = before
  BY <1>g, FoldersAssumption DEF Folders!Put, Folders!Go, Folders!Raise, Folders!Handler, Folders!Free,
       Folders!TreesAssumption
<1>v. OthersAreLeft(w) /\ step'[w] = "clean temp" /\ temp'[w] = temp[w] /\ backup'[w] = backup[w]
        /\ saw'[w] = saw[w] /\ victim'[w] = victim[w] /\ stops'[w] = stops[w] /\ before'[w] = before[w]
  BY <1>i, <1>e DEF FolderTypes, OthersAreLeft
<1>1. FolderTypes'
  BY <1>i, <1>g, <1>e, Assigned, FoldersAssumption DEF FolderTypes, Folders!Trees, Folders!Points,
       Folders!TreesAssumption, Folders!WritersAssumption
<1>2. StagedOnce(w)' /\ PutThere(w)' /\ PutWhole(w)' /\ Phases(w)' /\ RolledBack(w)'
  BY <1>i, <1>g, <1>e, <1>v, FoldersAssumption DEF StagedOnce, PutThere, PutWhole, Phases, RolledBack, SetsAside,
       Early, Cleaning, Folders!Over, Folders!Undoing, Folders!TreesAssumption
<1>3. SetsAside(w)'
  BY <1>i, <1>g, <1>e, <1>v, SetsAsideStays DEF SetsAside
<1>4. KeptIntact(w)'
  BY <1>i, <1>g, <1>e, <1>v, KeptIntactStays, FoldersAssumption DEF KeptIntact, Phases, Cleaning, Intact,
       Folders!TreesAssumption
<1>5. Covered(w)'
  BY <1>i, <1>g, <1>e, <1>v, SameBundles, FoldersAssumption
  DEF Covered, MayRemove, Cleaning, StagedOnce, PutThere, SetsAside, Phases, Resting, Folders!Over,
      Folders!TreesAssumption
<1> QED BY <1>g, <1>e, <1>v, <1>1, <1>2, <1>3, <1>4, <1>5, QuietStepKeeps DEF WriterInv, Resting

\* It is there to stay, and replaces another.
LEMMA SyncOldKeepsFolders ==
    ASSUME FoldersInv, NEW w \in FolderWriters, Folders!Sync(w), w \in Overwriting /\ saw[w] # None
    PROVE  FoldersInv'
<1>i. /\ FolderTypes /\ Kept
      /\ SetsAside(w) /\ StagedOnce(w) /\ PutThere(w) /\ PutWhole(w) /\ Phases(w) /\ RolledBack(w)
      /\ KeptIntact(w) /\ Covered(w)
  BY DEF FoldersInv, WriterInv
<1>g. step[w] = "sync" /\ dest = w /\ w \in Overwriting /\ saw[w] # None
  BY <1>i, FoldersAssumption DEF Folders!Sync, SetsAside, StagedOnce, PutThere, Phases, Early, PutWhole,
       Folders!Free, Folders!TreesAssumption
<1>e. /\ step' = [step EXCEPT ![w] = "purge"]
      /\ dest' = dest /\ temp' = temp /\ backup' = backup /\ half' = half /\ saw' = saw
      /\ victim' = victim /\ stops' = stops /\ before' = before
  BY <1>g, FoldersAssumption DEF Folders!Sync, Folders!Go, Folders!Raise, Folders!Handler, Folders!Free,
       Folders!TreesAssumption
<1>v. OthersAreLeft(w) /\ step'[w] = "purge" /\ temp'[w] = temp[w] /\ backup'[w] = backup[w] /\ saw'[w] = saw[w]
        /\ victim'[w] = victim[w] /\ stops'[w] = stops[w] /\ before'[w] = before[w]
  BY <1>i, <1>e DEF FolderTypes, OthersAreLeft
<1>1. FolderTypes'
  BY <1>i, <1>g, <1>e, Assigned, FoldersAssumption DEF FolderTypes, Folders!Trees, Folders!Points,
       Folders!TreesAssumption, Folders!WritersAssumption
<1>2. StagedOnce(w)' /\ PutThere(w)' /\ PutWhole(w)' /\ Phases(w)' /\ RolledBack(w)'
  BY <1>i, <1>g, <1>e, <1>v, FoldersAssumption DEF StagedOnce, PutThere, PutWhole, Phases, RolledBack, SetsAside,
       Early, Cleaning, Folders!Over, Folders!Undoing, Folders!TreesAssumption
<1>3. SetsAside(w)'
  BY <1>i, <1>g, <1>e, <1>v, SetsAsideStays DEF SetsAside
<1>4. KeptIntact(w)'
  BY <1>i, <1>g, <1>e, <1>v, KeptIntactStays, FoldersAssumption DEF KeptIntact, Phases, Cleaning, Intact,
       Folders!TreesAssumption
<1>5. Covered(w)'
  BY <1>i, <1>g, <1>e, <1>v, SameBundles, FoldersAssumption
  DEF Covered, MayRemove, Cleaning, StagedOnce, PutThere, SetsAside, Phases, Resting, Folders!Over,
      Folders!TreesAssumption
<1> QED BY <1>g, <1>e, <1>v, <1>1, <1>2, <1>3, <1>4, <1>5, QuietStepKeeps DEF WriterInv, Resting

\* It replaces none.
LEMMA SyncNoneKeepsFolders ==
    ASSUME FoldersInv, NEW w \in FolderWriters, Folders!Sync(w), ~(w \in Overwriting /\ saw[w] # None)
    PROVE  FoldersInv'
<1>i. /\ FolderTypes /\ Kept
      /\ SetsAside(w) /\ StagedOnce(w) /\ PutThere(w) /\ PutWhole(w) /\ Phases(w) /\ RolledBack(w)
      /\ KeptIntact(w) /\ Covered(w)
  BY DEF FoldersInv, WriterInv
<1>g. step[w] = "sync" /\ dest = w /\ (w \in Overwriting => saw[w] = None)
  BY <1>i, FoldersAssumption DEF Folders!Sync, SetsAside, StagedOnce, PutThere, Phases, Early, PutWhole,
       Folders!Free, Folders!TreesAssumption
<1>e. /\ step' = [step EXCEPT ![w] = "return"]
      /\ dest' = dest /\ temp' = temp /\ backup' = backup /\ half' = half /\ saw' = saw
      /\ victim' = victim /\ stops' = stops /\ before' = before
  BY <1>g, FoldersAssumption DEF Folders!Sync, Folders!Go, Folders!Raise, Folders!Handler, Folders!Free,
       Folders!TreesAssumption
<1>v. OthersAreLeft(w) /\ step'[w] = "return" /\ temp'[w] = temp[w] /\ backup'[w] = backup[w]
        /\ saw'[w] = saw[w] /\ victim'[w] = victim[w] /\ stops'[w] = stops[w] /\ before'[w] = before[w]
  BY <1>i, <1>e DEF FolderTypes, OthersAreLeft
<1>1. FolderTypes'
  BY <1>i, <1>g, <1>e, Assigned, FoldersAssumption DEF FolderTypes, Folders!Trees, Folders!Points,
       Folders!TreesAssumption, Folders!WritersAssumption
<1>2. StagedOnce(w)' /\ PutThere(w)' /\ PutWhole(w)' /\ Phases(w)' /\ RolledBack(w)'
  BY <1>i, <1>g, <1>e, <1>v, FoldersAssumption DEF StagedOnce, PutThere, PutWhole, Phases, RolledBack, SetsAside,
       Early, Cleaning, Folders!Over, Folders!Undoing, Folders!TreesAssumption
<1>3. SetsAside(w)'
  BY <1>i, <1>g, <1>e, <1>v, SetsAsideStays DEF SetsAside
<1>4. KeptIntact(w)'
  BY <1>i, <1>g, <1>e, <1>v, KeptIntactStays, FoldersAssumption DEF KeptIntact, Phases, Cleaning, Intact,
       Folders!TreesAssumption
<1>5. Covered(w)'
  BY <1>i, <1>g, <1>e, <1>v, SameBundles, FoldersAssumption
  DEF Covered, MayRemove, Cleaning, StagedOnce, PutThere, SetsAside, Phases, Resting, Folders!Over,
      Folders!TreesAssumption
<1> QED BY <1>g, <1>e, <1>v, <1>1, <1>2, <1>3, <1>4, <1>5, QuietStepKeeps DEF WriterInv, Resting

\* The writer reports success.
LEMMA ReturnKeepsFolders ==
    ASSUME FoldersInv, NEW w \in FolderWriters, Folders!Return(w)
    PROVE  FoldersInv'
<1>i. /\ FolderTypes /\ Kept
      /\ SetsAside(w) /\ StagedOnce(w) /\ PutThere(w) /\ PutWhole(w) /\ Phases(w) /\ RolledBack(w)
      /\ KeptIntact(w) /\ Covered(w)
  BY DEF FoldersInv, WriterInv
<1>g. step[w] = "return" /\ dest = w
  BY <1>i, FoldersAssumption DEF Folders!Return, SetsAside, StagedOnce, PutThere, Phases, Early, PutWhole,
       Folders!Free, Folders!TreesAssumption
<1>e. /\ step' = [step EXCEPT ![w] = "published"]
      /\ dest' = dest /\ temp' = temp /\ backup' = backup /\ half' = half /\ saw' = saw
      /\ victim' = victim /\ stops' = stops /\ before' = before
  BY <1>g, FoldersAssumption DEF Folders!Return, Folders!Go, Folders!Raise, Folders!Handler, Folders!Free,
       Folders!TreesAssumption
<1>v. OthersAreLeft(w) /\ step'[w] = "published" /\ temp'[w] = temp[w] /\ backup'[w] = backup[w]
        /\ saw'[w] = saw[w] /\ victim'[w] = victim[w] /\ stops'[w] = stops[w] /\ before'[w] = before[w]
  BY <1>i, <1>e DEF FolderTypes, OthersAreLeft
<1>1. FolderTypes'
  BY <1>i, <1>g, <1>e, Assigned, FoldersAssumption DEF FolderTypes, Folders!Trees, Folders!Points,
       Folders!TreesAssumption, Folders!WritersAssumption
<1>2. StagedOnce(w)' /\ PutThere(w)' /\ PutWhole(w)' /\ Phases(w)' /\ RolledBack(w)'
  BY <1>i, <1>g, <1>e, <1>v, FoldersAssumption DEF StagedOnce, PutThere, PutWhole, Phases, RolledBack, SetsAside,
       Early, Cleaning, Folders!Over, Folders!Undoing, Folders!TreesAssumption
<1>3. SetsAside(w)'
  BY <1>i, <1>g, <1>e, <1>v, SetsAsideStays DEF SetsAside
<1>4. KeptIntact(w)'
  BY <1>i, <1>g, <1>e, <1>v, KeptIntactStays, FoldersAssumption DEF KeptIntact, Phases, Cleaning, Intact,
       Folders!TreesAssumption
<1>5. Covered(w)'
  BY <1>i, <1>g, <1>e, <1>v, SameBundles, FoldersAssumption
  DEF Covered, MayRemove, Cleaning, StagedOnce, PutThere, SetsAside, Phases, Resting, Folders!Over,
      Folders!TreesAssumption
<1>6. Kept'
  <2>1. w \notin half /\ w \notin {None, Vacant, Old}
    BY <1>i, <1>g, FoldersAssumption DEF PutWhole, Folders!TreesAssumption
  <2>2. Intact(dest)'
    BY <2>1, <1>g, <1>e DEF Intact
  <2>3. Folders!NeverNothing'
    BY <2>1, <1>g, <1>e, NeverNothingIs DEF Folders!Whole
  <2>4. Folders!PublishedStays'
    <3> SUFFICES ASSUME NEW v \in FolderWriters, step'[v] = "published"
                 PROVE  (dest' = v /\ Folders!Whole(v)') \/ \E u \in Overwriting : before'[u] = v
      BY DEF Folders!PublishedStays
    <3>1. CASE v = w
      BY <3>1, <2>1, <1>g, <1>e DEF Folders!Whole
    <3>2. CASE v # w
      <4>1. step[v] = "published"
        BY <3>2, <1>v DEF OthersAreLeft
      <4> QED BY <4>1, <1>i, <1>e DEF Kept, Folders!PublishedStays, Folders!Whole
    <3> QED BY <3>1, <3>2
  <2> QED BY <2>2, <2>3, <2>4 DEF Kept
<1> QED BY <1>i, <1>g, <1>e, <1>v, <1>1, <1>2, <1>3, <1>4, <1>5, <1>6, OwnStepKeeps DEF WriterInv, SetsAside,
     Resting, Folders!Over, Folders!Free

\* What was put there is to be removed.
LEMMA UndoOwnKeepsFolders ==
    ASSUME FoldersInv, NEW w \in FolderWriters, Folders!Undo(w), dest = w
    PROVE  FoldersInv'
<1>i. /\ FolderTypes /\ Kept
      /\ SetsAside(w) /\ StagedOnce(w) /\ PutThere(w) /\ PutWhole(w) /\ Phases(w) /\ RolledBack(w)
      /\ KeptIntact(w) /\ Covered(w)
  BY DEF FoldersInv, WriterInv
<1>g. step[w] = "undo" /\ w \in Overwriting /\ dest = w
  BY <1>i, FoldersAssumption DEF Folders!Undo, SetsAside, StagedOnce, PutThere, Phases, Early, PutWhole,
       Folders!Free, Folders!TreesAssumption
<1>e. /\ step' = [step EXCEPT ![w] = "undo remove"]
      /\ dest' = dest /\ temp' = temp /\ backup' = backup /\ half' = half /\ saw' = saw
      /\ victim' = victim /\ stops' = stops /\ before' = before
  BY <1>g, FoldersAssumption DEF Folders!Undo, Folders!Go, Folders!Raise, Folders!Handler, Folders!Free,
       Folders!TreesAssumption
<1>v. OthersAreLeft(w) /\ step'[w] = "undo remove" /\ temp'[w] = temp[w] /\ backup'[w] = backup[w]
        /\ saw'[w] = saw[w] /\ victim'[w] = victim[w] /\ stops'[w] = stops[w] /\ before'[w] = before[w]
  BY <1>i, <1>e DEF FolderTypes, OthersAreLeft
<1>1. FolderTypes'
  BY <1>i, <1>g, <1>e, Assigned, FoldersAssumption DEF FolderTypes, Folders!Trees, Folders!Points,
       Folders!TreesAssumption, Folders!WritersAssumption
<1>2. StagedOnce(w)' /\ PutThere(w)' /\ PutWhole(w)' /\ Phases(w)' /\ RolledBack(w)'
  BY <1>i, <1>g, <1>e, <1>v, FoldersAssumption DEF StagedOnce, PutThere, PutWhole, Phases, RolledBack, SetsAside,
       Early, Cleaning, Folders!Over, Folders!Undoing, Folders!TreesAssumption
<1>3. SetsAside(w)'
  BY <1>i, <1>g, <1>e, <1>v, SetsAsideStays DEF SetsAside
<1>4. KeptIntact(w)'
  BY <1>i, <1>g, <1>e, <1>v, KeptIntactStays, FoldersAssumption DEF KeptIntact, Phases, Cleaning, Intact,
       Folders!TreesAssumption
<1>5. Covered(w)'
  BY <1>i, <1>g, <1>e, <1>v, SameBundles, FoldersAssumption
  DEF Covered, MayRemove, Cleaning, StagedOnce, PutThere, SetsAside, Phases, Resting, Folders!Over,
      Folders!TreesAssumption
<1> QED BY <1>g, <1>e, <1>v, <1>1, <1>2, <1>3, <1>4, <1>5, QuietStepKeeps DEF WriterInv, Resting

\* Nothing was put there yet.
LEMMA UndoNoneKeepsFolders ==
    ASSUME FoldersInv, NEW w \in FolderWriters, Folders!Undo(w), dest = None /\ backup[w] # None
    PROVE  FoldersInv'
<1>i. /\ FolderTypes /\ Kept
      /\ SetsAside(w) /\ StagedOnce(w) /\ PutThere(w) /\ PutWhole(w) /\ Phases(w) /\ RolledBack(w)
      /\ KeptIntact(w) /\ Covered(w)
  BY DEF FoldersInv, WriterInv
<1>g. step[w] = "undo" /\ w \in Overwriting /\ dest = None /\ backup[w] # None
  BY <1>i, FoldersAssumption DEF Folders!Undo, SetsAside, StagedOnce, PutThere, Phases, Early, PutWhole,
       Folders!Free, Folders!TreesAssumption
<1>e. /\ step' = [step EXCEPT ![w] = "restore"]
      /\ dest' = dest /\ temp' = temp /\ backup' = backup /\ half' = half /\ saw' = saw
      /\ victim' = victim /\ stops' = stops /\ before' = before
  BY <1>g, FoldersAssumption DEF Folders!Undo, Folders!Go, Folders!Raise, Folders!Handler, Folders!Free,
       Folders!TreesAssumption
<1>v. OthersAreLeft(w) /\ step'[w] = "restore" /\ temp'[w] = temp[w] /\ backup'[w] = backup[w]
        /\ saw'[w] = saw[w] /\ victim'[w] = victim[w] /\ stops'[w] = stops[w] /\ before'[w] = before[w]
  BY <1>i, <1>e DEF FolderTypes, OthersAreLeft
<1>1. FolderTypes'
  BY <1>i, <1>g, <1>e, Assigned, FoldersAssumption DEF FolderTypes, Folders!Trees, Folders!Points,
       Folders!TreesAssumption, Folders!WritersAssumption
<1>2. StagedOnce(w)' /\ PutThere(w)' /\ PutWhole(w)' /\ Phases(w)' /\ RolledBack(w)'
  BY <1>i, <1>g, <1>e, <1>v, FoldersAssumption DEF StagedOnce, PutThere, PutWhole, Phases, RolledBack, SetsAside,
       Early, Cleaning, Folders!Over, Folders!Undoing, Folders!TreesAssumption
<1>3. SetsAside(w)'
  BY <1>i, <1>g, <1>e, <1>v, SetsAsideStays DEF SetsAside
<1>4. KeptIntact(w)'
  BY <1>i, <1>g, <1>e, <1>v, KeptIntactStays, FoldersAssumption DEF KeptIntact, Phases, Cleaning, Intact,
       Folders!TreesAssumption
<1>5. Covered(w)'
  BY <1>i, <1>g, <1>e, <1>v, SameBundles, FoldersAssumption
  DEF Covered, MayRemove, Cleaning, StagedOnce, PutThere, SetsAside, Phases, Resting, Folders!Over,
      Folders!TreesAssumption
<1> QED BY <1>g, <1>e, <1>v, <1>1, <1>2, <1>3, <1>4, <1>5, QuietStepKeeps DEF WriterInv, Resting

\* Nothing is to be undone.
LEMMA UndoNothingKeepsFolders ==
    ASSUME FoldersInv, NEW w \in FolderWriters, Folders!Undo(w), ~(dest = w), ~(dest = None /\ backup[w] # None)
    PROVE  FoldersInv'
<1>i. /\ FolderTypes /\ Kept
      /\ SetsAside(w) /\ StagedOnce(w) /\ PutThere(w) /\ PutWhole(w) /\ Phases(w) /\ RolledBack(w)
      /\ KeptIntact(w) /\ Covered(w)
  BY DEF FoldersInv, WriterInv
<1>g. step[w] = "undo" /\ w \in Overwriting /\ dest = None /\ backup[w] = None
  BY <1>i, FoldersAssumption DEF Folders!Undo, SetsAside, StagedOnce, PutThere, Phases, Early, PutWhole,
       Folders!Free, Folders!TreesAssumption
<1>e. /\ step' = [step EXCEPT ![w] = "clean temp"]
      /\ dest' = dest /\ temp' = temp /\ backup' = backup /\ half' = half /\ saw' = saw
      /\ victim' = victim /\ stops' = stops /\ before' = before
  BY <1>g, FoldersAssumption DEF Folders!Undo, Folders!Go, Folders!Raise, Folders!Handler, Folders!Free,
       Folders!TreesAssumption
<1>v. OthersAreLeft(w) /\ step'[w] = "clean temp" /\ temp'[w] = temp[w] /\ backup'[w] = backup[w]
        /\ saw'[w] = saw[w] /\ victim'[w] = victim[w] /\ stops'[w] = stops[w] /\ before'[w] = before[w]
  BY <1>i, <1>e DEF FolderTypes, OthersAreLeft
<1>1. FolderTypes'
  BY <1>i, <1>g, <1>e, Assigned, FoldersAssumption DEF FolderTypes, Folders!Trees, Folders!Points,
       Folders!TreesAssumption, Folders!WritersAssumption
<1>2. StagedOnce(w)' /\ PutThere(w)' /\ PutWhole(w)' /\ Phases(w)' /\ RolledBack(w)'
  BY <1>i, <1>g, <1>e, <1>v, FoldersAssumption DEF StagedOnce, PutThere, PutWhole, Phases, RolledBack, SetsAside,
       Early, Cleaning, Folders!Over, Folders!Undoing, Folders!TreesAssumption
<1>3. SetsAside(w)'
  BY <1>i, <1>g, <1>e, <1>v, SetsAsideStays DEF SetsAside
<1>4. KeptIntact(w)'
  BY <1>i, <1>g, <1>e, <1>v, KeptIntactStays, FoldersAssumption DEF KeptIntact, Phases, Cleaning, Intact,
       Folders!TreesAssumption
<1>5. Covered(w)'
  BY <1>i, <1>g, <1>e, <1>v, SameBundles, FoldersAssumption
  DEF Covered, MayRemove, Cleaning, StagedOnce, PutThere, SetsAside, Phases, Resting, Folders!Over,
      Folders!TreesAssumption
<1> QED BY <1>g, <1>e, <1>v, <1>1, <1>2, <1>3, <1>4, <1>5, QuietStepKeeps DEF WriterInv, Resting

\* The folder that was set aside comes back.
LEMMA RestoreKeepsFolders ==
    ASSUME FoldersInv, NEW w \in FolderWriters, Folders!Restore(w)
    PROVE  FoldersInv'
<1>i. /\ FolderTypes /\ Kept
      /\ SetsAside(w) /\ StagedOnce(w) /\ PutThere(w) /\ PutWhole(w) /\ Phases(w) /\ RolledBack(w)
      /\ KeptIntact(w) /\ Covered(w)
  BY DEF FoldersInv, WriterInv
<1>g. step[w] = "restore" /\ w \in Overwriting /\ dest = None /\ backup[w] = before[w] /\ before[w] # None
  BY <1>i, FoldersAssumption DEF Folders!Restore, SetsAside, StagedOnce, PutThere, Phases, Early, PutWhole,
       Folders!Free, Folders!TreesAssumption
<1>e. /\ step' = [step EXCEPT ![w] = "clean temp"]
      /\ dest' = backup[w]
      /\ backup' = [backup EXCEPT ![w] = None]
      /\ temp' = temp /\ half' = half /\ saw' = saw /\ victim' = victim /\ stops' = stops /\ before' = before
  BY <1>g, FoldersAssumption DEF Folders!Restore, Folders!Go, Folders!Raise, Folders!Handler, Folders!Free,
       Folders!TreesAssumption
<1>v. OthersAreLeft(w) /\ step'[w] = "clean temp" /\ backup'[w] = None /\ temp'[w] = temp[w] /\ saw'[w] = saw[w]
        /\ victim'[w] = victim[w] /\ stops'[w] = stops[w] /\ before'[w] = before[w]
  BY <1>i, <1>e DEF FolderTypes, OthersAreLeft
<1>1. FolderTypes'
  BY <1>i, <1>g, <1>e, Assigned, FoldersAssumption DEF FolderTypes, Folders!Trees, Folders!Points,
       Folders!TreesAssumption, Folders!WritersAssumption
<1>2. StagedOnce(w)' /\ PutThere(w)' /\ PutWhole(w)' /\ Phases(w)' /\ RolledBack(w)'
  BY <1>i, <1>g, <1>e, <1>v, FoldersAssumption DEF StagedOnce, PutThere, PutWhole, Phases, RolledBack, SetsAside,
       Early, Cleaning, Folders!Over, Folders!Undoing, Folders!TreesAssumption
<1>3. SetsAside(w)'
  BY <1>i, <1>g, <1>e, <1>v, SetsAsideStays DEF SetsAside
<1>4. KeptIntact(w)'
  BY <1>i, <1>g, <1>e, <1>v DEF KeptIntact
<1>5. Covered(w)'
  BY <1>i, <1>g, <1>e DEF Covered, SetsAside
<1>6. Kept'
  <2>1. Intact(dest)'
    <3>1. dest' = backup[w] /\ backup[w] # w /\ Intact(backup[w])
      BY <1>i, <1>g, <1>e DEF KeptIntact, SetsAside
    <3>2. half' = half /\ (backup[w] \in FolderWriters => step'[backup[w]] = step[backup[w]])
      BY <3>1, <1>e, <1>v DEF OthersAreLeft
    <3> QED BY <3>1, <3>2 DEF Intact
  <2>2. Folders!NeverNothing'
    <3> SUFFICES ASSUME Need PROVE Folders!Whole(dest)' \/ IsSetAside'
      BY <1>g, <1>v, SameBundles, NeverNothingIs DEF Folders!Over
    <3>1. IsSetAside
      BY <1>i, <1>g, NeverNothingIs DEF Kept, Folders!Whole
    <3>2. PICK u \in Overwriting : backup[u] \notin half \cup {None, Vacant}
      BY <3>1 DEF IsSetAside
    <3>3. CASE u = w
      BY <3>2, <3>3, <1>e DEF Folders!Whole
    <3>4. CASE u # w
      <4>1. backup'[u] = backup[u]
        BY <3>4, <1>v, FoldersAssumption DEF OthersAreLeft, Folders!WritersAssumption
      <4> QED BY <3>2, <4>1, <1>e DEF IsSetAside
    <3> QED BY <3>3, <3>4
  <2>3. Folders!PublishedStays'
    BY <1>i, <1>g, <1>e, <1>v, PublishedAreLeft DEF Folders!Over, Phases, Folders!Free
  <2> QED BY <2>1, <2>2, <2>3 DEF Kept
<1> QED BY <1>i, <1>g, <1>e, <1>v, <1>1, <1>2, <1>3, <1>4, <1>5, <1>6, OwnStepKeeps DEF WriterInv, SetsAside,
     Resting, Folders!Over, Folders!Free

\* The staged folder is removed.
LEMMA CleanTempSomeKeepsFolders ==
    ASSUME FoldersInv, NEW w \in FolderWriters, Folders!CleanTemp(w), temp[w] = w
    PROVE  FoldersInv'
<1>i. /\ FolderTypes /\ Kept
      /\ SetsAside(w) /\ StagedOnce(w) /\ PutThere(w) /\ PutWhole(w) /\ Phases(w) /\ RolledBack(w)
      /\ KeptIntact(w) /\ Covered(w)
  BY DEF FoldersInv, WriterInv
<1>g. step[w] = "clean temp" /\ dest # w
  BY <1>i, FoldersAssumption DEF Folders!CleanTemp, SetsAside, StagedOnce, PutThere, Phases, Early, PutWhole,
       Folders!Free, Folders!TreesAssumption
<1>e. /\ step' = [step EXCEPT ![w] = "cleaning temp"]
      /\ half' = half \cup {w}
      /\ victim' = [victim EXCEPT ![w] = w]
      /\ dest' = dest /\ temp' = temp /\ backup' = backup /\ saw' = saw /\ stops' = stops /\ before' = before
  BY <1>g, FoldersAssumption DEF Folders!CleanTemp, Folders!Go, Folders!Raise, Folders!Handler, Folders!Free,
       Folders!TreesAssumption
<1>v. OthersAreLeft(w) /\ step'[w] = "cleaning temp" /\ victim'[w] = w /\ temp'[w] = temp[w]
        /\ backup'[w] = backup[w] /\ saw'[w] = saw[w] /\ stops'[w] = stops[w] /\ before'[w] = before[w]
  BY <1>i, <1>e DEF FolderTypes, OthersAreLeft
<1>1. FolderTypes'
  <2>1. w \in Folders!Trees /\ w \in Folders!Trees \cup {None} /\ backup[w] \in Folders!Trees \cup {None}
    BY <1>i DEF FolderTypes, Folders!Trees
  <2>2. half' \subseteq Folders!Trees /\ dest' \in Folders!Trees \cup {None}
    BY <1>i, <1>g, <1>e, <2>1 DEF FolderTypes
  <2>3. step' \in [FolderWriters -> Folders!Points]
    BY <1>i, <1>e, Assigned DEF FolderTypes, Folders!Points
  <2>4. /\ temp' \in [FolderWriters -> Folders!Trees \cup {None}]
        /\ victim' \in [FolderWriters -> Folders!Trees \cup {None}]
    BY <1>i, <1>e, <2>1, Assigned DEF FolderTypes
  <2> QED BY <1>i, <1>e, <2>2, <2>3, <2>4 DEF FolderTypes
<1>2. StagedOnce(w)' /\ PutThere(w)' /\ PutWhole(w)' /\ Phases(w)' /\ RolledBack(w)'
  BY <1>i, <1>g, <1>e, <1>v, FoldersAssumption DEF StagedOnce, PutThere, PutWhole, Phases, RolledBack, SetsAside,
       Early, Cleaning, Folders!Over, Folders!Undoing, Folders!TreesAssumption
<1>3. SetsAside(w)'
  BY <1>i, <1>g, <1>e, <1>v, SetsAsideStays DEF SetsAside
<1>4. KeptIntact(w)'
  BY <1>i, <1>g, <1>e, <1>v, KeptIntactStays, FoldersAssumption DEF KeptIntact, Phases, Cleaning, Intact,
       Folders!TreesAssumption
<1>5. Covered(w)'
  BY <1>i, <1>g, <1>e, <1>v, SameBundles, FoldersAssumption
  DEF Covered, MayRemove, Cleaning, StagedOnce, PutThere, SetsAside, Phases, Resting, Folders!Over,
      Folders!TreesAssumption
<1>6. Kept'
  <2>1. Intact(dest)'
    <3>1. Intact(dest) /\ dest' = dest /\ half' = half \cup {w}
      BY <1>i, <1>e DEF Kept
    <3>2. dest \in FolderWriters => step'[dest] = step[dest]
      BY <1>g, <1>v DEF OthersAreLeft
    <3> QED BY <1>g, <3>1, <3>2 DEF Intact
  <2>2. Folders!NeverNothing'
    BY <1>i, <1>g, <1>e, <1>v, SameBundles, NeverNothingIs
    DEF Kept, Folders!Whole, Folders!Over
  <2>3. Folders!PublishedStays'
    BY <1>i, <1>g, <1>e, <1>v, PublishedAreLeft DEF Folders!Over, Phases, Folders!Free
  <2> QED BY <2>1, <2>2, <2>3 DEF Kept
<1> QED BY <1>i, <1>g, <1>e, <1>v, <1>1, <1>2, <1>3, <1>4, <1>5, <1>6, OwnStepKeeps DEF WriterInv, SetsAside,
     Resting, Folders!Over, Folders!Free

\* There is none.
LEMMA CleanTempNoneKeepsFolders ==
    ASSUME FoldersInv, NEW w \in FolderWriters, Folders!CleanTemp(w), temp[w] # w
    PROVE  FoldersInv'
<1>i. /\ FolderTypes /\ Kept
      /\ SetsAside(w) /\ StagedOnce(w) /\ PutThere(w) /\ PutWhole(w) /\ Phases(w) /\ RolledBack(w)
      /\ KeptIntact(w) /\ Covered(w)
  BY DEF FoldersInv, WriterInv
<1>g. step[w] = "clean temp" /\ temp[w] = None
  BY <1>i, FoldersAssumption DEF Folders!CleanTemp, SetsAside, StagedOnce, PutThere, Phases, Early, PutWhole,
       Folders!Free, Folders!TreesAssumption
<1>e. /\ step' = [step EXCEPT ![w] = "clean dest"]
      /\ dest' = dest /\ temp' = temp /\ backup' = backup /\ half' = half /\ saw' = saw
      /\ victim' = victim /\ stops' = stops /\ before' = before
  BY <1>g, FoldersAssumption DEF Folders!CleanTemp, Folders!Go, Folders!Raise, Folders!Handler, Folders!Free,
       Folders!TreesAssumption
<1>v. OthersAreLeft(w) /\ step'[w] = "clean dest" /\ temp'[w] = temp[w] /\ backup'[w] = backup[w]
        /\ saw'[w] = saw[w] /\ victim'[w] = victim[w] /\ stops'[w] = stops[w] /\ before'[w] = before[w]
  BY <1>i, <1>e DEF FolderTypes, OthersAreLeft
<1>1. FolderTypes'
  BY <1>i, <1>g, <1>e, Assigned, FoldersAssumption DEF FolderTypes, Folders!Trees, Folders!Points,
       Folders!TreesAssumption, Folders!WritersAssumption
<1>2. StagedOnce(w)' /\ PutThere(w)' /\ PutWhole(w)' /\ Phases(w)' /\ RolledBack(w)'
  BY <1>i, <1>g, <1>e, <1>v, FoldersAssumption DEF StagedOnce, PutThere, PutWhole, Phases, RolledBack, SetsAside,
       Early, Cleaning, Folders!Over, Folders!Undoing, Folders!TreesAssumption
<1>3. SetsAside(w)'
  BY <1>i, <1>g, <1>e, <1>v, SetsAsideStays DEF SetsAside
<1>4. KeptIntact(w)'
  BY <1>i, <1>g, <1>e, <1>v, KeptIntactStays, FoldersAssumption DEF KeptIntact, Phases, Cleaning, Intact,
       Folders!TreesAssumption
<1>5. Covered(w)'
  BY <1>i, <1>g, <1>e, <1>v, SameBundles, FoldersAssumption
  DEF Covered, MayRemove, Cleaning, StagedOnce, PutThere, SetsAside, Phases, Resting, Folders!Over,
      Folders!TreesAssumption
<1> QED BY <1>g, <1>e, <1>v, <1>1, <1>2, <1>3, <1>4, <1>5, QuietStepKeeps DEF WriterInv, Resting

\* What was put at the path is to be removed.
LEMMA CleanDestOwnKeepsFolders ==
    ASSUME FoldersInv, NEW w \in FolderWriters, Folders!CleanDest(w), dest = w
    PROVE  FoldersInv'
<1>i. /\ FolderTypes /\ Kept
      /\ SetsAside(w) /\ StagedOnce(w) /\ PutThere(w) /\ PutWhole(w) /\ Phases(w) /\ RolledBack(w)
      /\ KeptIntact(w) /\ Covered(w)
  BY DEF FoldersInv, WriterInv
<1>g. step[w] = "clean dest"
  BY <1>i, FoldersAssumption DEF Folders!CleanDest, SetsAside, StagedOnce, PutThere, Phases, Early, PutWhole,
       Folders!Free, Folders!TreesAssumption
<1>e. /\ step' = [step EXCEPT ![w] = "clean remove"]
      /\ dest' = dest /\ temp' = temp /\ backup' = backup /\ half' = half /\ saw' = saw
      /\ victim' = victim /\ stops' = stops /\ before' = before
  BY <1>g, FoldersAssumption DEF Folders!CleanDest, Folders!Go, Folders!Raise, Folders!Handler, Folders!Free,
       Folders!TreesAssumption
<1>v. OthersAreLeft(w) /\ step'[w] = "clean remove" /\ temp'[w] = temp[w] /\ backup'[w] = backup[w]
        /\ saw'[w] = saw[w] /\ victim'[w] = victim[w] /\ stops'[w] = stops[w] /\ before'[w] = before[w]
  BY <1>i, <1>e DEF FolderTypes, OthersAreLeft
<1>1. FolderTypes'
  BY <1>i, <1>g, <1>e, Assigned, FoldersAssumption DEF FolderTypes, Folders!Trees, Folders!Points,
       Folders!TreesAssumption, Folders!WritersAssumption
<1>2. StagedOnce(w)' /\ PutThere(w)' /\ PutWhole(w)' /\ Phases(w)' /\ RolledBack(w)'
  BY <1>i, <1>g, <1>e, <1>v, FoldersAssumption DEF StagedOnce, PutThere, PutWhole, Phases, RolledBack, SetsAside,
       Early, Cleaning, Folders!Over, Folders!Undoing, Folders!TreesAssumption
<1>3. SetsAside(w)'
  BY <1>i, <1>g, <1>e, <1>v, SetsAsideStays DEF SetsAside
<1>4. KeptIntact(w)'
  BY <1>i, <1>g, <1>e, <1>v, KeptIntactStays, FoldersAssumption DEF KeptIntact, Phases, Cleaning, Intact,
       Folders!TreesAssumption
<1>5. Covered(w)'
  BY <1>i, <1>g, <1>e, <1>v, SameBundles, FoldersAssumption
  DEF Covered, MayRemove, Cleaning, StagedOnce, PutThere, SetsAside, Phases, Resting, Folders!Over,
      Folders!TreesAssumption
<1> QED BY <1>g, <1>e, <1>v, <1>1, <1>2, <1>3, <1>4, <1>5, QuietStepKeeps DEF WriterInv, Resting

\* It is not there.
LEMMA CleanDestOtherKeepsFolders ==
    ASSUME FoldersInv, NEW w \in FolderWriters, Folders!CleanDest(w), dest # w
    PROVE  FoldersInv'
<1>i. /\ FolderTypes /\ Kept
      /\ SetsAside(w) /\ StagedOnce(w) /\ PutThere(w) /\ PutWhole(w) /\ Phases(w) /\ RolledBack(w)
      /\ KeptIntact(w) /\ Covered(w)
  BY DEF FoldersInv, WriterInv
<1>g. step[w] = "clean dest"
  BY <1>i, FoldersAssumption DEF Folders!CleanDest, SetsAside, StagedOnce, PutThere, Phases, Early, PutWhole,
       Folders!Free, Folders!TreesAssumption
<1>e. /\ step' = [step EXCEPT ![w] = "failed"]
      /\ dest' = dest /\ temp' = temp /\ backup' = backup /\ half' = half /\ saw' = saw
      /\ victim' = victim /\ stops' = stops /\ before' = before
  BY <1>g, FoldersAssumption DEF Folders!CleanDest, Folders!Go, Folders!Raise, Folders!Handler, Folders!Free,
       Folders!TreesAssumption
<1>v. OthersAreLeft(w) /\ step'[w] = "failed" /\ temp'[w] = temp[w] /\ backup'[w] = backup[w]
        /\ saw'[w] = saw[w] /\ victim'[w] = victim[w] /\ stops'[w] = stops[w] /\ before'[w] = before[w]
  BY <1>i, <1>e DEF FolderTypes, OthersAreLeft
<1>1. FolderTypes'
  BY <1>i, <1>g, <1>e, Assigned, FoldersAssumption DEF FolderTypes, Folders!Trees, Folders!Points,
       Folders!TreesAssumption, Folders!WritersAssumption
<1>2. StagedOnce(w)' /\ PutThere(w)' /\ PutWhole(w)' /\ Phases(w)' /\ RolledBack(w)'
  BY <1>i, <1>g, <1>e, <1>v, FoldersAssumption DEF StagedOnce, PutThere, PutWhole, Phases, RolledBack, SetsAside,
       Early, Cleaning, Folders!Over, Folders!Undoing, Folders!TreesAssumption
<1>3. SetsAside(w)'
  BY <1>i, <1>g, <1>e, <1>v, SetsAsideStays DEF SetsAside
<1>4. KeptIntact(w)'
  BY <1>i, <1>g, <1>e, <1>v, KeptIntactStays, FoldersAssumption DEF KeptIntact, Phases, Cleaning, Intact,
       Folders!TreesAssumption
<1>5. Covered(w)'
  BY <1>i, <1>g, <1>e, <1>v, SameBundles, FoldersAssumption
  DEF Covered, MayRemove, Cleaning, StagedOnce, PutThere, SetsAside, Phases, Resting, Folders!Over,
      Folders!TreesAssumption
<1> QED BY <1>g, <1>e, <1>v, <1>1, <1>2, <1>3, <1>4, <1>5, QuietStepKeeps DEF WriterInv, Resting

\* The removal begins of what the writer put there,
LEMMA RemoveUndoneKeepsFolders ==
    ASSUME FoldersInv, NEW w \in FolderWriters, Folders!RemoveBegins(w), step[w] = "undo remove"
    PROVE  FoldersInv'
<1>i. /\ FolderTypes /\ Kept
      /\ SetsAside(w) /\ StagedOnce(w) /\ PutThere(w) /\ PutWhole(w) /\ Phases(w) /\ RolledBack(w)
      /\ KeptIntact(w) /\ Covered(w)
  BY DEF FoldersInv, WriterInv
<1>g. w \in Overwriting /\ dest = w
  BY <1>i, FoldersAssumption DEF Folders!RemoveBegins, SetsAside, StagedOnce, PutThere, Phases, Early, PutWhole,
       Folders!Free, Folders!TreesAssumption
<1>e. /\ step' = [step EXCEPT ![w] = "undoing"]
      /\ half' = half \cup {w}
      /\ victim' = [victim EXCEPT ![w] = w]
      /\ dest' = dest /\ temp' = temp /\ backup' = backup /\ saw' = saw /\ stops' = stops /\ before' = before
  BY <1>g, FoldersAssumption DEF Folders!RemoveBegins, Folders!Go, Folders!Raise, Folders!Handler, Folders!Free,
       Folders!TreesAssumption
<1>v. OthersAreLeft(w) /\ step'[w] = "undoing" /\ victim'[w] = w /\ temp'[w] = temp[w] /\ backup'[w] = backup[w]
        /\ saw'[w] = saw[w] /\ stops'[w] = stops[w] /\ before'[w] = before[w]
  BY <1>i, <1>e DEF FolderTypes, OthersAreLeft
<1>1. FolderTypes'
  <2>1. w \in Folders!Trees /\ w \in Folders!Trees \cup {None} /\ backup[w] \in Folders!Trees \cup {None}
    BY <1>i DEF FolderTypes, Folders!Trees
  <2>2. half' \subseteq Folders!Trees /\ dest' \in Folders!Trees \cup {None}
    BY <1>i, <1>g, <1>e, <2>1 DEF FolderTypes
  <2>3. step' \in [FolderWriters -> Folders!Points]
    BY <1>i, <1>e, Assigned DEF FolderTypes, Folders!Points
  <2>4. /\ temp' \in [FolderWriters -> Folders!Trees \cup {None}]
        /\ victim' \in [FolderWriters -> Folders!Trees \cup {None}]
    BY <1>i, <1>e, <2>1, Assigned DEF FolderTypes
  <2> QED BY <1>i, <1>e, <2>2, <2>3, <2>4 DEF FolderTypes
<1>2. StagedOnce(w)' /\ PutThere(w)' /\ PutWhole(w)' /\ Phases(w)' /\ RolledBack(w)'
  BY <1>i, <1>g, <1>e, <1>v, FoldersAssumption DEF StagedOnce, PutThere, PutWhole, Phases, RolledBack, SetsAside,
       Early, Cleaning, Folders!Over, Folders!Undoing, Folders!TreesAssumption
<1>3. SetsAside(w)'
  BY <1>i, <1>g, <1>e, <1>v, SetsAsideStays DEF SetsAside
<1>4. KeptIntact(w)'
  BY <1>i, <1>g, <1>e, <1>v, KeptIntactStays, FoldersAssumption DEF KeptIntact, Phases, Cleaning, Intact,
       Folders!TreesAssumption
<1>5. Covered(w)'
  BY <1>i, <1>g, <1>e, <1>v, SameBundles, FoldersAssumption
  DEF Covered, MayRemove, Cleaning, StagedOnce, PutThere, SetsAside, Phases, Resting, Folders!Over,
      Folders!TreesAssumption
<1>6. Kept'
  <2>1. Intact(dest)'
    BY <1>i, <1>g, <1>e, <1>v, FoldersAssumption DEF Kept, Intact, KeptIntact, StagedOnce, OthersAreLeft,
         Folders!Over, Folders!TreesAssumption
  <2>2. Folders!NeverNothing'
    BY <1>i, <1>g, <1>e, <1>v, SameBundles, NeverNothingIs, FoldersAssumption
    DEF Kept, StagedOnce, PutWhole, PutThere, Covered, MayRemove, Cleaning, SetsAside, Folders!Whole,
        Folders!Over, Folders!TreesAssumption
  <2>3. Folders!PublishedStays'
    BY <1>i, <1>g, <1>e, <1>v, PublishedAreLeft DEF Folders!Over, Phases, Folders!Free
  <2> QED BY <2>1, <2>2, <2>3 DEF Kept
<1> QED BY <1>i, <1>g, <1>e, <1>v, <1>1, <1>2, <1>3, <1>4, <1>5, <1>6, OwnStepKeeps DEF WriterInv, SetsAside,
     Resting, Folders!Over, Folders!Free

\* or that its caller removes,
LEMMA RemoveOwnKeepsFolders ==
    ASSUME FoldersInv, NEW w \in FolderWriters, Folders!RemoveBegins(w), step[w] = "clean remove"
    PROVE  FoldersInv'
<1>i. /\ FolderTypes /\ Kept
      /\ SetsAside(w) /\ StagedOnce(w) /\ PutThere(w) /\ PutWhole(w) /\ Phases(w) /\ RolledBack(w)
      /\ KeptIntact(w) /\ Covered(w)
  BY DEF FoldersInv, WriterInv
<1>g. dest = w
  BY <1>i, FoldersAssumption DEF Folders!RemoveBegins, SetsAside, StagedOnce, PutThere, Phases, Early, PutWhole,
       Folders!Free, Folders!TreesAssumption
<1>e. /\ step' = [step EXCEPT ![w] = "cleaning dest"]
      /\ half' = half \cup {w}
      /\ victim' = [victim EXCEPT ![w] = w]
      /\ dest' = dest /\ temp' = temp /\ backup' = backup /\ saw' = saw /\ stops' = stops /\ before' = before
  BY <1>g, FoldersAssumption DEF Folders!RemoveBegins, Folders!Go, Folders!Raise, Folders!Handler, Folders!Free,
       Folders!TreesAssumption
<1>v. OthersAreLeft(w) /\ step'[w] = "cleaning dest" /\ victim'[w] = w /\ temp'[w] = temp[w]
        /\ backup'[w] = backup[w] /\ saw'[w] = saw[w] /\ stops'[w] = stops[w] /\ before'[w] = before[w]
  BY <1>i, <1>e DEF FolderTypes, OthersAreLeft
<1>1. FolderTypes'
  <2>1. w \in Folders!Trees /\ w \in Folders!Trees \cup {None} /\ backup[w] \in Folders!Trees \cup {None}
    BY <1>i DEF FolderTypes, Folders!Trees
  <2>2. half' \subseteq Folders!Trees /\ dest' \in Folders!Trees \cup {None}
    BY <1>i, <1>g, <1>e, <2>1 DEF FolderTypes
  <2>3. step' \in [FolderWriters -> Folders!Points]
    BY <1>i, <1>e, Assigned DEF FolderTypes, Folders!Points
  <2>4. /\ temp' \in [FolderWriters -> Folders!Trees \cup {None}]
        /\ victim' \in [FolderWriters -> Folders!Trees \cup {None}]
    BY <1>i, <1>e, <2>1, Assigned DEF FolderTypes
  <2> QED BY <1>i, <1>e, <2>2, <2>3, <2>4 DEF FolderTypes
<1>2. StagedOnce(w)' /\ PutThere(w)' /\ PutWhole(w)' /\ Phases(w)' /\ RolledBack(w)'
  BY <1>i, <1>g, <1>e, <1>v, FoldersAssumption DEF StagedOnce, PutThere, PutWhole, Phases, RolledBack, SetsAside,
       Early, Cleaning, Folders!Over, Folders!Undoing, Folders!TreesAssumption
<1>3. SetsAside(w)'
  BY <1>i, <1>g, <1>e, <1>v, SetsAsideStays DEF SetsAside
<1>4. KeptIntact(w)'
  BY <1>i, <1>g, <1>e, <1>v, KeptIntactStays, FoldersAssumption DEF KeptIntact, Phases, Cleaning, Intact,
       Folders!TreesAssumption
<1>5. Covered(w)'
  BY <1>i, <1>g, <1>e, <1>v, SameBundles, FoldersAssumption
  DEF Covered, MayRemove, Cleaning, StagedOnce, PutThere, SetsAside, Phases, Resting, Folders!Over,
      Folders!TreesAssumption
<1>6. Kept'
  <2>1. Intact(dest)'
    BY <1>i, <1>g, <1>e, <1>v, FoldersAssumption DEF Kept, Intact, KeptIntact, StagedOnce, OthersAreLeft,
         Folders!Over, Folders!TreesAssumption
  <2>2. Folders!NeverNothing'
    BY <1>i, <1>g, <1>e, <1>v, SameBundles, NeverNothingIs, FoldersAssumption
    DEF Kept, StagedOnce, PutWhole, PutThere, Covered, MayRemove, Cleaning, SetsAside, Folders!Whole,
        Folders!Over, Folders!TreesAssumption
  <2>3. Folders!PublishedStays'
    BY <1>i, <1>g, <1>e, <1>v, PublishedAreLeft DEF Folders!Over, Phases, Folders!Free
  <2> QED BY <2>1, <2>2, <2>3 DEF Kept
<1> QED BY <1>i, <1>g, <1>e, <1>v, <1>1, <1>2, <1>3, <1>4, <1>5, <1>6, OwnStepKeeps DEF WriterInv, SetsAside,
     Resting, Folders!Over, Folders!Free

\* or of what it replaced.
LEMMA RemoveOldKeepsFolders ==
    ASSUME FoldersInv, NEW w \in FolderWriters, Folders!RemoveBegins(w), step[w] = "purge"
    PROVE  FoldersInv'
<1>i. /\ FolderTypes /\ Kept
      /\ SetsAside(w) /\ StagedOnce(w) /\ PutThere(w) /\ PutWhole(w) /\ Phases(w) /\ RolledBack(w)
      /\ KeptIntact(w) /\ Covered(w)
  BY DEF FoldersInv, WriterInv
<1>g. w \in Overwriting /\ dest = w /\ backup[w] = before[w] /\ before[w] # None /\ w \notin half
  BY <1>i, FoldersAssumption DEF Folders!RemoveBegins, SetsAside, StagedOnce, PutThere, Phases, Early, PutWhole,
       Folders!Free, Folders!TreesAssumption
<1>e. /\ step' = [step EXCEPT ![w] = "purging"]
      /\ half' = half \cup {backup[w]}
      /\ victim' = [victim EXCEPT ![w] = backup[w]]
      /\ dest' = dest /\ temp' = temp /\ backup' = backup /\ saw' = saw /\ stops' = stops /\ before' = before
  BY <1>g, FoldersAssumption DEF Folders!RemoveBegins, Folders!Go, Folders!Raise, Folders!Handler, Folders!Free,
       Folders!TreesAssumption
<1>v. OthersAreLeft(w) /\ step'[w] = "purging" /\ victim'[w] = backup[w] /\ temp'[w] = temp[w]
        /\ backup'[w] = backup[w] /\ saw'[w] = saw[w] /\ stops'[w] = stops[w] /\ before'[w] = before[w]
  BY <1>i, <1>e DEF FolderTypes, OthersAreLeft
<1>1. FolderTypes'
  <2>1. w \in Folders!Trees /\ w \in Folders!Trees \cup {None} /\ backup[w] \in Folders!Trees \cup {None}
    BY <1>i DEF FolderTypes, Folders!Trees
  <2>2. half' \subseteq Folders!Trees /\ dest' \in Folders!Trees \cup {None}
    BY <1>i, <1>g, <1>e, <2>1 DEF FolderTypes
  <2>3. step' \in [FolderWriters -> Folders!Points]
    BY <1>i, <1>e, Assigned DEF FolderTypes, Folders!Points
  <2>4. /\ temp' \in [FolderWriters -> Folders!Trees \cup {None}]
        /\ victim' \in [FolderWriters -> Folders!Trees \cup {None}]
    BY <1>i, <1>e, <2>1, Assigned DEF FolderTypes
  <2> QED BY <1>i, <1>e, <2>2, <2>3, <2>4 DEF FolderTypes
<1>2. StagedOnce(w)' /\ PutThere(w)' /\ Phases(w)' /\ RolledBack(w)'
  BY <1>i, <1>g, <1>e, <1>v, FoldersAssumption DEF StagedOnce, PutThere, PutWhole, Phases, RolledBack, SetsAside,
       Early, Cleaning, Folders!Over, Folders!Undoing, Folders!TreesAssumption
<1>3. PutWhole(w)'
  BY <1>i, <1>g, <1>e DEF PutWhole, SetsAside
<1>4. SetsAside(w)'
  BY <1>i, <1>g, <1>e, <1>v, SetsAsideStays DEF SetsAside
<1>5. KeptIntact(w)'
  BY <1>i, <1>g, <1>e, <1>v, KeptIntactStays, FoldersAssumption DEF KeptIntact, Phases, Cleaning, Intact,
       Folders!TreesAssumption
<1>6. Covered(w)'
  BY <1>i, <1>g, <1>e, <1>v, SameBundles, FoldersAssumption
  DEF Covered, MayRemove, Cleaning, StagedOnce, PutThere, SetsAside, Phases, Resting, Folders!Over,
      Folders!TreesAssumption
<1>7. Kept'
  <2>1. Intact(dest)'
    BY <1>i, <1>g, <1>e, <1>v, FoldersAssumption DEF Kept, Intact, KeptIntact, StagedOnce, OthersAreLeft,
         Folders!Over, Folders!TreesAssumption
  <2>2. Folders!NeverNothing'
    BY <1>i, <1>g, <1>e, <1>v, SameBundles, NeverNothingIs, FoldersAssumption
    DEF Kept, StagedOnce, PutWhole, PutThere, Covered, MayRemove, Cleaning, SetsAside, Folders!Whole,
        Folders!Over, Folders!TreesAssumption
  <2>3. Folders!PublishedStays'
    BY <1>i, <1>g, <1>e, <1>v, PublishedAreLeft DEF Folders!Over, Phases, Folders!Free
  <2> QED BY <2>1, <2>2, <2>3 DEF Kept
<1> QED BY <1>i, <1>g, <1>e, <1>v, <1>1, <1>2, <1>3, <1>4, <1>5, <1>6, <1>7, OwnStepKeeps DEF WriterInv,
     SetsAside, Resting, Folders!Over, Folders!Free

\* The path is free again.
LEMMA UndoneSomeKeepsFolders ==
    ASSUME FoldersInv, NEW w \in FolderWriters, Folders!Undone(w), backup[w] # None
    PROVE  FoldersInv'
<1>i. /\ FolderTypes /\ Kept
      /\ SetsAside(w) /\ StagedOnce(w) /\ PutThere(w) /\ PutWhole(w) /\ Phases(w) /\ RolledBack(w)
      /\ KeptIntact(w) /\ Covered(w)
  BY DEF FoldersInv, WriterInv
<1>g. step[w] = "undoing" /\ dest = w /\ victim[w] = w /\ w \in Overwriting
  BY <1>i, FoldersAssumption DEF Folders!Undone, SetsAside, StagedOnce, PutThere, Phases, Early, PutWhole,
       Folders!Free, Folders!TreesAssumption
<1>e. /\ step' = [step EXCEPT ![w] = "restore"]
      /\ dest' = None
      /\ temp' = temp /\ backup' = backup /\ half' = half /\ saw' = saw /\ victim' = victim
      /\ stops' = stops /\ before' = before
  BY <1>g, FoldersAssumption DEF Folders!Undone, Folders!Go, Folders!Raise, Folders!Handler, Folders!Free,
       Folders!TreesAssumption
<1>v. OthersAreLeft(w) /\ step'[w] = "restore" /\ temp'[w] = temp[w] /\ backup'[w] = backup[w]
        /\ saw'[w] = saw[w] /\ victim'[w] = victim[w] /\ stops'[w] = stops[w] /\ before'[w] = before[w]
  BY <1>i, <1>e DEF FolderTypes, OthersAreLeft
<1>1. FolderTypes'
  BY <1>i, <1>g, <1>e, Assigned, FoldersAssumption DEF FolderTypes, Folders!Trees, Folders!Points,
       Folders!TreesAssumption, Folders!WritersAssumption
<1>2. StagedOnce(w)' /\ PutThere(w)' /\ PutWhole(w)' /\ Phases(w)' /\ RolledBack(w)'
  BY <1>i, <1>g, <1>e, <1>v, FoldersAssumption DEF StagedOnce, PutThere, PutWhole, Phases, RolledBack, SetsAside,
       Early, Cleaning, Folders!Over, Folders!Undoing, Folders!TreesAssumption
<1>3. SetsAside(w)'
  BY <1>i, <1>g, <1>e, <1>v, SetsAsideStays DEF SetsAside
<1>4. KeptIntact(w)'
  BY <1>i, <1>g, <1>e, <1>v, KeptIntactStays, FoldersAssumption DEF KeptIntact, Phases, Cleaning, Intact,
       Folders!TreesAssumption
<1>5. Covered(w)'
  BY <1>i, <1>g, <1>e, <1>v, SameBundles, FoldersAssumption
  DEF Covered, MayRemove, Cleaning, StagedOnce, PutThere, SetsAside, Phases, Resting, Folders!Over,
      Folders!TreesAssumption
<1>6. Kept'
  <2>1. Intact(dest)'
    BY <1>i, <1>g, <1>e, <1>v, FoldersAssumption DEF Kept, Intact, KeptIntact, StagedOnce, OthersAreLeft,
         Folders!Over, Folders!TreesAssumption
  <2>2. Folders!NeverNothing'
    BY <1>i, <1>g, <1>e, <1>v, SameBundles, NeverNothingIs, FoldersAssumption
    DEF Kept, StagedOnce, PutWhole, PutThere, Covered, MayRemove, Cleaning, SetsAside, Folders!Whole,
        Folders!Over, Folders!TreesAssumption
  <2>3. Folders!PublishedStays'
    BY <1>i, <1>g, <1>e, <1>v, PublishedAreLeft DEF Folders!Over, Phases, Folders!Free
  <2> QED BY <2>1, <2>2, <2>3 DEF Kept
<1> QED BY <1>i, <1>g, <1>e, <1>v, <1>1, <1>2, <1>3, <1>4, <1>5, <1>6, OwnStepKeeps DEF WriterInv, SetsAside,
     Resting, Folders!Over, Folders!Free

\* It was free before.
LEMMA UndoneNoneKeepsFolders ==
    ASSUME FoldersInv, NEW w \in FolderWriters, Folders!Undone(w), backup[w] = None
    PROVE  FoldersInv'
<1>i. /\ FolderTypes /\ Kept
      /\ SetsAside(w) /\ StagedOnce(w) /\ PutThere(w) /\ PutWhole(w) /\ Phases(w) /\ RolledBack(w)
      /\ KeptIntact(w) /\ Covered(w)
  BY DEF FoldersInv, WriterInv
<1>g. step[w] = "undoing" /\ dest = w /\ victim[w] = w /\ w \in Overwriting
  BY <1>i, FoldersAssumption DEF Folders!Undone, SetsAside, StagedOnce, PutThere, Phases, Early, PutWhole,
       Folders!Free, Folders!TreesAssumption
<1>e. /\ step' = [step EXCEPT ![w] = "clean temp"]
      /\ dest' = None
      /\ temp' = temp /\ backup' = backup /\ half' = half /\ saw' = saw /\ victim' = victim
      /\ stops' = stops /\ before' = before
  BY <1>g, FoldersAssumption DEF Folders!Undone, Folders!Go, Folders!Raise, Folders!Handler, Folders!Free,
       Folders!TreesAssumption
<1>v. OthersAreLeft(w) /\ step'[w] = "clean temp" /\ temp'[w] = temp[w] /\ backup'[w] = backup[w]
        /\ saw'[w] = saw[w] /\ victim'[w] = victim[w] /\ stops'[w] = stops[w] /\ before'[w] = before[w]
  BY <1>i, <1>e DEF FolderTypes, OthersAreLeft
<1>1. FolderTypes'
  BY <1>i, <1>g, <1>e, Assigned, FoldersAssumption DEF FolderTypes, Folders!Trees, Folders!Points,
       Folders!TreesAssumption, Folders!WritersAssumption
<1>2. StagedOnce(w)' /\ PutThere(w)' /\ PutWhole(w)' /\ Phases(w)' /\ RolledBack(w)'
  BY <1>i, <1>g, <1>e, <1>v, FoldersAssumption DEF StagedOnce, PutThere, PutWhole, Phases, RolledBack, SetsAside,
       Early, Cleaning, Folders!Over, Folders!Undoing, Folders!TreesAssumption
<1>3. SetsAside(w)'
  BY <1>i, <1>g, <1>e, <1>v, SetsAsideStays DEF SetsAside
<1>4. KeptIntact(w)'
  BY <1>i, <1>g, <1>e, <1>v, KeptIntactStays, FoldersAssumption DEF KeptIntact, Phases, Cleaning, Intact,
       Folders!TreesAssumption
<1>5. Covered(w)'
  BY <1>i, <1>g, <1>e, <1>v, SameBundles, FoldersAssumption
  DEF Covered, MayRemove, Cleaning, StagedOnce, PutThere, SetsAside, Phases, Resting, Folders!Over,
      Folders!TreesAssumption
<1>6. Kept'
  <2>1. Intact(dest)'
    BY <1>i, <1>g, <1>e, <1>v, FoldersAssumption DEF Kept, Intact, KeptIntact, StagedOnce, OthersAreLeft,
         Folders!Over, Folders!TreesAssumption
  <2>2. Folders!NeverNothing'
    BY <1>i, <1>g, <1>e, <1>v, SameBundles, NeverNothingIs, FoldersAssumption
    DEF Kept, StagedOnce, PutWhole, PutThere, Covered, MayRemove, Cleaning, SetsAside, Folders!Whole,
        Folders!Over, Folders!TreesAssumption
  <2>3. Folders!PublishedStays'
    BY <1>i, <1>g, <1>e, <1>v, PublishedAreLeft DEF Folders!Over, Phases, Folders!Free
  <2> QED BY <2>1, <2>2, <2>3 DEF Kept
<1> QED BY <1>i, <1>g, <1>e, <1>v, <1>1, <1>2, <1>3, <1>4, <1>5, <1>6, OwnStepKeeps DEF WriterInv, SetsAside,
     Resting, Folders!Over, Folders!Free

\* The replaced folder is gone.
LEMMA PurgedKeepsFolders ==
    ASSUME FoldersInv, NEW w \in FolderWriters, Folders!Purged(w)
    PROVE  FoldersInv'
<1>i. /\ FolderTypes /\ Kept
      /\ SetsAside(w) /\ StagedOnce(w) /\ PutThere(w) /\ PutWhole(w) /\ Phases(w) /\ RolledBack(w)
      /\ KeptIntact(w) /\ Covered(w)
  BY DEF FoldersInv, WriterInv
<1>g. step[w] = "purging" /\ w \in Overwriting /\ dest = w /\ w \notin half
  BY <1>i, FoldersAssumption DEF Folders!Purged, SetsAside, StagedOnce, PutThere, Phases, Early, PutWhole,
       Folders!Free, Folders!TreesAssumption
<1>e. /\ step' = [step EXCEPT ![w] = "return"]
      /\ backup' = [backup EXCEPT ![w] = None]
      /\ dest' = dest /\ temp' = temp /\ half' = half /\ saw' = saw /\ victim' = victim
      /\ stops' = stops /\ before' = before
  BY <1>g, FoldersAssumption DEF Folders!Purged, Folders!Go, Folders!Raise, Folders!Handler, Folders!Free,
       Folders!TreesAssumption
<1>v. OthersAreLeft(w) /\ step'[w] = "return" /\ backup'[w] = None /\ temp'[w] = temp[w] /\ saw'[w] = saw[w]
        /\ victim'[w] = victim[w] /\ stops'[w] = stops[w] /\ before'[w] = before[w]
  BY <1>i, <1>e DEF FolderTypes, OthersAreLeft
<1>1. FolderTypes'
  BY <1>i, <1>g, <1>e, Assigned, FoldersAssumption DEF FolderTypes, Folders!Trees, Folders!Points,
       Folders!TreesAssumption, Folders!WritersAssumption
<1>2. StagedOnce(w)' /\ PutThere(w)' /\ PutWhole(w)' /\ Phases(w)' /\ RolledBack(w)'
  BY <1>i, <1>g, <1>e, <1>v, FoldersAssumption DEF StagedOnce, PutThere, PutWhole, Phases, RolledBack, SetsAside,
       Early, Cleaning, Folders!Over, Folders!Undoing, Folders!TreesAssumption
<1>3. SetsAside(w)'
  BY <1>i, <1>g, <1>e, <1>v, SetsAsideStays DEF SetsAside
<1>4. KeptIntact(w)'
  BY <1>i, <1>g, <1>e, <1>v DEF KeptIntact
<1>5. Covered(w)'
  BY <1>i, <1>g, <1>e, <1>v, SameBundles, FoldersAssumption
  DEF Covered, MayRemove, Cleaning, StagedOnce, PutThere, SetsAside, Phases, Resting, Folders!Over,
      Folders!TreesAssumption
<1>6. Kept'
  <2>1. Intact(dest)'
    BY <1>i, <1>g, <1>e, <1>v, FoldersAssumption DEF Kept, Intact, KeptIntact, StagedOnce, OthersAreLeft,
         Folders!Over, Folders!TreesAssumption
  <2>2. Folders!NeverNothing'
    BY <1>i, <1>g, <1>e, <1>v, SameBundles, NeverNothingIs, FoldersAssumption
    DEF IsSetAside, OthersAreLeft, Kept, StagedOnce, PutWhole, PutThere, Covered, MayRemove, Cleaning, SetsAside,
        Folders!Whole, Folders!Over, Folders!TreesAssumption
  <2>3. Folders!PublishedStays'
    BY <1>i, <1>g, <1>e, <1>v, PublishedAreLeft DEF Folders!Over, Phases, Folders!Free
  <2> QED BY <2>1, <2>2, <2>3 DEF Kept
<1> QED BY <1>i, <1>g, <1>e, <1>v, <1>1, <1>2, <1>3, <1>4, <1>5, <1>6, OwnStepKeeps DEF WriterInv, SetsAside,
     Resting, Folders!Over, Folders!Free

\* The staged folder is gone.
LEMMA CleanedTempKeepsFolders ==
    ASSUME FoldersInv, NEW w \in FolderWriters, Folders!CleanedTemp(w)
    PROVE  FoldersInv'
<1>i. /\ FolderTypes /\ Kept
      /\ SetsAside(w) /\ StagedOnce(w) /\ PutThere(w) /\ PutWhole(w) /\ Phases(w) /\ RolledBack(w)
      /\ KeptIntact(w) /\ Covered(w)
  BY DEF FoldersInv, WriterInv
<1>g. step[w] = "cleaning temp"
  BY <1>i, FoldersAssumption DEF Folders!CleanedTemp, SetsAside, StagedOnce, PutThere, Phases, Early, PutWhole,
       Folders!Free, Folders!TreesAssumption
<1>e. /\ step' = [step EXCEPT ![w] = "clean dest"]
      /\ temp' = [temp EXCEPT ![w] = None]
      /\ dest' = dest /\ backup' = backup /\ half' = half /\ saw' = saw /\ victim' = victim
      /\ stops' = stops /\ before' = before
  BY <1>g, FoldersAssumption DEF Folders!CleanedTemp, Folders!Go, Folders!Raise, Folders!Handler, Folders!Free,
       Folders!TreesAssumption
<1>v. OthersAreLeft(w) /\ step'[w] = "clean dest" /\ temp'[w] = None /\ backup'[w] = backup[w]
        /\ saw'[w] = saw[w] /\ victim'[w] = victim[w] /\ stops'[w] = stops[w] /\ before'[w] = before[w]
  BY <1>i, <1>e DEF FolderTypes, OthersAreLeft
<1>1. FolderTypes'
  BY <1>i, <1>g, <1>e, Assigned, FoldersAssumption DEF FolderTypes, Folders!Trees, Folders!Points,
       Folders!TreesAssumption, Folders!WritersAssumption
<1>2. StagedOnce(w)' /\ PutThere(w)' /\ PutWhole(w)' /\ Phases(w)' /\ RolledBack(w)'
  BY <1>i, <1>g, <1>e, <1>v, FoldersAssumption DEF StagedOnce, PutThere, PutWhole, Phases, RolledBack, SetsAside,
       Early, Cleaning, Folders!Over, Folders!Undoing, Folders!TreesAssumption
<1>3. SetsAside(w)'
  BY <1>i, <1>g, <1>e, <1>v, SetsAsideStays DEF SetsAside
<1>4. KeptIntact(w)'
  BY <1>i, <1>g, <1>e, <1>v, KeptIntactStays, FoldersAssumption DEF KeptIntact, Phases, Cleaning, Intact,
       Folders!TreesAssumption
<1>5. Covered(w)'
  BY <1>i, <1>g, <1>e, <1>v, SameBundles, FoldersAssumption
  DEF Covered, MayRemove, Cleaning, StagedOnce, PutThere, SetsAside, Phases, Resting, Folders!Over,
      Folders!TreesAssumption
<1> QED BY <1>g, <1>e, <1>v, <1>1, <1>2, <1>3, <1>4, <1>5, QuietStepKeeps DEF WriterInv, Resting

\* The published one is gone.
LEMMA CleanedDestKeepsFolders ==
    ASSUME FoldersInv, NEW w \in FolderWriters, Folders!CleanedDest(w)
    PROVE  FoldersInv'
<1>i. /\ FolderTypes /\ Kept
      /\ SetsAside(w) /\ StagedOnce(w) /\ PutThere(w) /\ PutWhole(w) /\ Phases(w) /\ RolledBack(w)
      /\ KeptIntact(w) /\ Covered(w)
  BY DEF FoldersInv, WriterInv
<1>g. step[w] = "cleaning dest" /\ dest = w /\ victim[w] = w
  BY <1>i, FoldersAssumption DEF Folders!CleanedDest, SetsAside, StagedOnce, PutThere, Phases, Early, PutWhole,
       Folders!Free, Folders!TreesAssumption
<1>e. /\ step' = [step EXCEPT ![w] = "failed"]
      /\ dest' = None
      /\ temp' = temp /\ backup' = backup /\ half' = half /\ saw' = saw /\ victim' = victim
      /\ stops' = stops /\ before' = before
  BY <1>g, FoldersAssumption DEF Folders!CleanedDest, Folders!Go, Folders!Raise, Folders!Handler, Folders!Free,
       Folders!TreesAssumption
<1>v. OthersAreLeft(w) /\ step'[w] = "failed" /\ temp'[w] = temp[w] /\ backup'[w] = backup[w]
        /\ saw'[w] = saw[w] /\ victim'[w] = victim[w] /\ stops'[w] = stops[w] /\ before'[w] = before[w]
  BY <1>i, <1>e DEF FolderTypes, OthersAreLeft
<1>1. FolderTypes'
  BY <1>i, <1>g, <1>e, Assigned, FoldersAssumption DEF FolderTypes, Folders!Trees, Folders!Points,
       Folders!TreesAssumption, Folders!WritersAssumption
<1>2. StagedOnce(w)' /\ PutThere(w)' /\ PutWhole(w)' /\ Phases(w)' /\ RolledBack(w)'
  BY <1>i, <1>g, <1>e, <1>v, FoldersAssumption DEF StagedOnce, PutThere, PutWhole, Phases, RolledBack, SetsAside,
       Early, Cleaning, Folders!Over, Folders!Undoing, Folders!TreesAssumption
<1>3. SetsAside(w)'
  BY <1>i, <1>g, <1>e, <1>v, SetsAsideStays DEF SetsAside
<1>4. KeptIntact(w)'
  BY <1>i, <1>g, <1>e, <1>v, KeptIntactStays, FoldersAssumption DEF KeptIntact, Phases, Cleaning, Intact,
       Folders!TreesAssumption
<1>5. Covered(w)'
  BY <1>i, <1>g, <1>e, <1>v, SameBundles, FoldersAssumption
  DEF Covered, MayRemove, Cleaning, StagedOnce, PutThere, SetsAside, Phases, Resting, Folders!Over,
      Folders!TreesAssumption
<1>6. Kept'
  <2>1. Intact(dest)'
    BY <1>i, <1>g, <1>e, <1>v, FoldersAssumption DEF Kept, Intact, KeptIntact, StagedOnce, OthersAreLeft,
         Folders!Over, Folders!TreesAssumption
  <2>2. Folders!NeverNothing'
    BY <1>i, <1>g, <1>e, <1>v, SameBundles, NeverNothingIs, FoldersAssumption
    DEF Kept, StagedOnce, PutWhole, PutThere, Covered, MayRemove, Cleaning, SetsAside, Folders!Whole,
        Folders!Over, Folders!TreesAssumption
  <2>3. Folders!PublishedStays'
    BY <1>i, <1>g, <1>e, <1>v, PublishedAreLeft DEF Folders!Over, Phases, Folders!Free
  <2> QED BY <2>1, <2>2, <2>3 DEF Kept
<1> QED BY <1>i, <1>g, <1>e, <1>v, <1>1, <1>2, <1>3, <1>4, <1>5, <1>6, OwnStepKeeps DEF WriterInv, SetsAside,
     Resting, Folders!Over, Folders!Free


\* A writer is stopped; its exception handlers, if it has any, begin at a point.
StopsAt(w, point) ==
    /\ step' = [step EXCEPT ![w] = point]
    /\ stops' = [stops EXCEPT ![w] = stops[w] \cup {step[w]}]
    /\ dest' = dest /\ temp' = temp /\ backup' = backup /\ half' = half /\ saw' = saw /\ victim' = victim
    /\ before' = before

\* An error while nothing is published yet, or while it is cleaned up, ends the run;
LEMMA StopFailsKeepsFolders ==
    ASSUME FoldersInv, NEW w \in FolderWriters, StopsAt(w, "failed"),
           step[w] \in {"stage"} \cup Cleaning
    PROVE  FoldersInv'
<1>i. /\ FolderTypes /\ Kept
      /\ SetsAside(w) /\ StagedOnce(w) /\ PutThere(w) /\ PutWhole(w) /\ Phases(w) /\ RolledBack(w)
      /\ KeptIntact(w) /\ Covered(w)
  BY DEF FoldersInv, WriterInv
<1>g. step[w] \notin Resting /\ step[w] \in Folders!Points
  BY <1>i DEF FolderTypes, Resting, Cleaning
<1>e. /\ step' = [step EXCEPT ![w] = "failed"]
      /\ stops' = [stops EXCEPT ![w] = stops[w] \cup {step[w]}]
      /\ dest' = dest /\ temp' = temp /\ backup' = backup /\ half' = half
      /\ saw' = saw /\ victim' = victim /\ before' = before
  BY DEF StopsAt
<1>v. /\ OthersAreLeft(w) /\ step'[w] = "failed" /\ stops'[w] = stops[w] \cup {step[w]}
      /\ temp'[w] = temp[w] /\ backup'[w] = backup[w] /\ before'[w] = before[w]
  BY <1>i, <1>e DEF FolderTypes, OthersAreLeft
<1>1. FolderTypes'
  <2>1. stops[w] \cup {step[w]} \in SUBSET Folders!Points
    BY <1>i, <1>g DEF FolderTypes
  <2> QED BY <1>i, <1>e, <2>1, Assigned DEF FolderTypes, Folders!Points
<1>2. StagedOnce(w)' /\ PutThere(w)' /\ PutWhole(w)' /\ Phases(w)' /\ RolledBack(w)'
  BY <1>i, <1>e, <1>v, FoldersAssumption DEF StagedOnce, PutThere, PutWhole, Phases, RolledBack, SetsAside,
       Early, Cleaning, Folders!Over, Folders!Undoing, Folders!TreesAssumption
<1>3. SetsAside(w)'
  BY <1>i, <1>e, <1>v, SetsAsideStays DEF SetsAside
<1>4. KeptIntact(w)'
  BY <1>i, <1>e, <1>v, KeptIntactStays, FoldersAssumption DEF KeptIntact, Phases, Cleaning, Intact,
       Folders!TreesAssumption
<1>5. Covered(w)'
  BY <1>i, <1>e, <1>v, SameBundles, FoldersAssumption
  DEF Covered, MayRemove, Cleaning, StagedOnce, PutThere, SetsAside, Phases, Resting, Folders!Over,
      Folders!TreesAssumption
<1> QED BY <1>g, <1>e, <1>v, <1>1, <1>2, <1>3, <1>4, <1>5, QuietStepKeeps DEF WriterInv

\* others make its caller clean up,
LEMMA StopCleansKeepsFolders ==
    ASSUME FoldersInv, NEW w \in FolderWriters, StopsAt(w, "clean temp"),
           \/ step[w] \in {"fill", "look", "recheck", "set aside", "undo", "undo remove", "undoing", "restore"}
           \/ w \notin Overwriting /\ step[w] \in {"put", "sync", "return"}
    PROVE  FoldersInv'
<1>i. /\ FolderTypes /\ Kept
      /\ SetsAside(w) /\ StagedOnce(w) /\ PutThere(w) /\ PutWhole(w) /\ Phases(w) /\ RolledBack(w)
      /\ KeptIntact(w) /\ Covered(w)
  BY DEF FoldersInv, WriterInv
<1>g. step[w] \notin Resting /\ step[w] \in Folders!Points
  BY <1>i DEF FolderTypes, Resting
<1>e. /\ step' = [step EXCEPT ![w] = "clean temp"]
      /\ stops' = [stops EXCEPT ![w] = stops[w] \cup {step[w]}]
      /\ dest' = dest /\ temp' = temp /\ backup' = backup /\ half' = half
      /\ saw' = saw /\ victim' = victim /\ before' = before
  BY DEF StopsAt
<1>v. /\ OthersAreLeft(w) /\ step'[w] = "clean temp" /\ stops'[w] = stops[w] \cup {step[w]}
      /\ temp'[w] = temp[w] /\ backup'[w] = backup[w] /\ before'[w] = before[w]
  BY <1>i, <1>e DEF FolderTypes, OthersAreLeft
<1>1. FolderTypes'
  <2>1. stops[w] \cup {step[w]} \in SUBSET Folders!Points
    BY <1>i, <1>g DEF FolderTypes
  <2> QED BY <1>i, <1>e, <2>1, Assigned DEF FolderTypes, Folders!Points
<1>2. StagedOnce(w)' /\ PutThere(w)' /\ PutWhole(w)' /\ Phases(w)' /\ RolledBack(w)'
  BY <1>i, <1>e, <1>v, FoldersAssumption DEF StagedOnce, PutThere, PutWhole, Phases, RolledBack, SetsAside,
       Early, Cleaning, Folders!Over, Folders!Undoing, Folders!TreesAssumption
<1>3. SetsAside(w)'
  BY <1>i, <1>e, <1>v, SetsAsideStays DEF SetsAside
<1>4. KeptIntact(w)'
  BY <1>i, <1>e, <1>v, KeptIntactStays, FoldersAssumption DEF KeptIntact, Phases, Cleaning, Intact,
       Folders!TreesAssumption
<1>5. Covered(w)'
  BY <1>i, <1>e, <1>v, SameBundles, FoldersAssumption
  DEF Covered, MayRemove, Cleaning, StagedOnce, PutThere, SetsAside, Phases, Resting, Folders!Over,
      Folders!TreesAssumption
<1> QED BY <1>g, <1>e, <1>v, <1>1, <1>2, <1>3, <1>4, <1>5, QuietStepKeeps DEF WriterInv

\* or undo the replacement first;
LEMMA StopUndoesKeepsFolders ==
    ASSUME FoldersInv, NEW w \in FolderWriters, StopsAt(w, "undo"),
           w \in Overwriting /\ step[w] \in {"gone?", "put", "sync"}
    PROVE  FoldersInv'
<1>i. /\ FolderTypes /\ Kept
      /\ SetsAside(w) /\ StagedOnce(w) /\ PutThere(w) /\ PutWhole(w) /\ Phases(w) /\ RolledBack(w)
      /\ KeptIntact(w) /\ Covered(w)
  BY DEF FoldersInv, WriterInv
<1>g. step[w] \notin Resting /\ step[w] \in Folders!Points
  BY <1>i DEF FolderTypes, Resting
<1>e. /\ step' = [step EXCEPT ![w] = "undo"]
      /\ stops' = [stops EXCEPT ![w] = stops[w] \cup {step[w]}]
      /\ dest' = dest /\ temp' = temp /\ backup' = backup /\ half' = half
      /\ saw' = saw /\ victim' = victim /\ before' = before
  BY DEF StopsAt
<1>v. /\ OthersAreLeft(w) /\ step'[w] = "undo" /\ stops'[w] = stops[w] \cup {step[w]}
      /\ temp'[w] = temp[w] /\ backup'[w] = backup[w] /\ before'[w] = before[w]
  BY <1>i, <1>e DEF FolderTypes, OthersAreLeft
<1>1. FolderTypes'
  <2>1. stops[w] \cup {step[w]} \in SUBSET Folders!Points
    BY <1>i, <1>g DEF FolderTypes
  <2> QED BY <1>i, <1>e, <2>1, Assigned DEF FolderTypes, Folders!Points
<1>2. StagedOnce(w)' /\ PutThere(w)' /\ PutWhole(w)' /\ Phases(w)' /\ RolledBack(w)'
  BY <1>i, <1>e, <1>v, FoldersAssumption DEF StagedOnce, PutThere, PutWhole, Phases, RolledBack, SetsAside,
       Early, Cleaning, Folders!Over, Folders!Undoing, Folders!TreesAssumption
<1>3. SetsAside(w)'
  BY <1>i, <1>e, <1>v, SetsAsideStays DEF SetsAside
<1>4. KeptIntact(w)'
  BY <1>i, <1>e, <1>v, KeptIntactStays, FoldersAssumption DEF KeptIntact, Phases, Cleaning, Intact,
       Folders!TreesAssumption
<1>5. Covered(w)'
  BY <1>i, <1>e, <1>v, SameBundles, FoldersAssumption
  DEF Covered, MayRemove, Cleaning, StagedOnce, PutThere, SetsAside, Phases, Resting, Folders!Over,
      Folders!TreesAssumption
<1> QED BY <1>g, <1>e, <1>v, <1>1, <1>2, <1>3, <1>4, <1>5, QuietStepKeeps DEF WriterInv

\* while the replaced folder is removed they are ignored.
LEMMA StopKeepsKeepsFolders ==
    ASSUME FoldersInv, NEW w \in FolderWriters, StopsAt(w, "return"),
           step[w] \in {"purge", "purging"}
    PROVE  FoldersInv'
<1>i. /\ FolderTypes /\ Kept
      /\ SetsAside(w) /\ StagedOnce(w) /\ PutThere(w) /\ PutWhole(w) /\ Phases(w) /\ RolledBack(w)
      /\ KeptIntact(w) /\ Covered(w)
  BY DEF FoldersInv, WriterInv
<1>g. step[w] \notin Resting /\ step[w] \in Folders!Points
  BY <1>i DEF FolderTypes, Resting
<1>e. /\ step' = [step EXCEPT ![w] = "return"]
      /\ stops' = [stops EXCEPT ![w] = stops[w] \cup {step[w]}]
      /\ dest' = dest /\ temp' = temp /\ backup' = backup /\ half' = half
      /\ saw' = saw /\ victim' = victim /\ before' = before
  BY DEF StopsAt
<1>v. /\ OthersAreLeft(w) /\ step'[w] = "return" /\ stops'[w] = stops[w] \cup {step[w]}
      /\ temp'[w] = temp[w] /\ backup'[w] = backup[w] /\ before'[w] = before[w]
  BY <1>i, <1>e DEF FolderTypes, OthersAreLeft
<1>1. FolderTypes'
  <2>1. stops[w] \cup {step[w]} \in SUBSET Folders!Points
    BY <1>i, <1>g DEF FolderTypes
  <2> QED BY <1>i, <1>e, <2>1, Assigned DEF FolderTypes, Folders!Points
<1>2. StagedOnce(w)' /\ PutThere(w)' /\ PutWhole(w)' /\ Phases(w)' /\ RolledBack(w)'
  BY <1>i, <1>e, <1>v, FoldersAssumption DEF StagedOnce, PutThere, PutWhole, Phases, RolledBack, SetsAside,
       Early, Cleaning, Folders!Over, Folders!Undoing, Folders!TreesAssumption
<1>3. SetsAside(w)'
  BY <1>i, <1>e, <1>v, SetsAsideStays DEF SetsAside
<1>4. KeptIntact(w)'
  BY <1>i, <1>e, <1>v, KeptIntactStays, FoldersAssumption DEF KeptIntact, Phases, Cleaning, Intact,
       Folders!TreesAssumption
<1>5. Covered(w)'
  BY <1>i, <1>e, <1>v, SameBundles, FoldersAssumption
  DEF Covered, MayRemove, Cleaning, StagedOnce, PutThere, SetsAside, Phases, Resting, Folders!Over,
      Folders!TreesAssumption
<1> QED BY <1>g, <1>e, <1>v, <1>1, <1>2, <1>3, <1>4, <1>5, QuietStepKeeps DEF WriterInv

\* A kill leaves everything where it is.
LEMMA StopKillsKeepsFolders ==
    ASSUME FoldersInv, NEW w \in FolderWriters, StopsAt(w, "killed"),
           step[w] \notin Resting
    PROVE  FoldersInv'
<1>i. /\ FolderTypes /\ Kept
      /\ SetsAside(w) /\ StagedOnce(w) /\ PutThere(w) /\ PutWhole(w) /\ Phases(w) /\ RolledBack(w)
      /\ KeptIntact(w) /\ Covered(w)
  BY DEF FoldersInv, WriterInv
<1>g. step[w] \notin Resting /\ step[w] \in Folders!Points
  BY <1>i DEF FolderTypes, Resting
<1>e. /\ step' = [step EXCEPT ![w] = "killed"]
      /\ stops' = [stops EXCEPT ![w] = stops[w] \cup {step[w]}]
      /\ dest' = dest /\ temp' = temp /\ backup' = backup /\ half' = half
      /\ saw' = saw /\ victim' = victim /\ before' = before
  BY DEF StopsAt
<1>v. /\ OthersAreLeft(w) /\ step'[w] = "killed" /\ stops'[w] = stops[w] \cup {step[w]}
      /\ temp'[w] = temp[w] /\ backup'[w] = backup[w] /\ before'[w] = before[w]
  BY <1>i, <1>e DEF FolderTypes, OthersAreLeft
<1>1. FolderTypes'
  <2>1. stops[w] \cup {step[w]} \in SUBSET Folders!Points
    BY <1>i, <1>g DEF FolderTypes
  <2> QED BY <1>i, <1>e, <2>1, Assigned DEF FolderTypes, Folders!Points
<1>2. StagedOnce(w)' /\ PutThere(w)' /\ PutWhole(w)' /\ Phases(w)' /\ RolledBack(w)'
  BY <1>i, <1>e, <1>v, FoldersAssumption DEF StagedOnce, PutThere, PutWhole, Phases, RolledBack, SetsAside,
       Early, Cleaning, Folders!Over, Folders!Undoing, Folders!TreesAssumption
<1>3. SetsAside(w)'
  BY <1>i, <1>e, <1>v, SetsAsideStays DEF SetsAside
<1>4. KeptIntact(w)'
  BY <1>i, <1>e, <1>v, KeptIntactStays, FoldersAssumption DEF KeptIntact, Phases, Cleaning, Intact,
       Folders!TreesAssumption
<1>5. Covered(w)'
  BY <1>i, <1>e, <1>v, SameBundles, FoldersAssumption
  DEF Covered, MayRemove, Cleaning, StagedOnce, PutThere, SetsAside, Phases, Resting, Folders!Over,
      Folders!TreesAssumption
<1> QED BY <1>g, <1>e, <1>v, <1>1, <1>2, <1>3, <1>4, <1>5, QuietStepKeeps DEF WriterInv


\* An error,
LEMMA ErrorKeepsFolders ==
    ASSUME FoldersInv, NEW w \in FolderWriters, Folders!Error(w)
    PROVE  FoldersInv'
<1>t. FolderTypes /\ SetsAside(w)
  BY DEF FoldersInv, WriterInv
<1>1. step[w] \in Folders!Points /\ step[w] \notin Resting /\ step[w] \notin {"aside", "return"}
  BY <1>t DEF FolderTypes, Folders!Error, Folders!Stopped, Folders!Running, Folders!Over, Resting
<1>2. \A x : step' = [step EXCEPT ![w] = x] => StopsAt(w, x)
  BY DEF Folders!Error, Folders!Stopped, StopsAt
<1>3. CASE step[w] \in {"stage"} \cup Cleaning
  <2>1. StopsAt(w, "failed")
    BY <1>2, <1>3 DEF Folders!Error, Folders!Raise, Folders!Handler, Folders!Go, Cleaning
  <2> QED BY <2>1, <1>3, StopFailsKeepsFolders
<1>4. CASE \/ step[w] \in {"fill", "look", "recheck", "set aside", "undo", "undo remove", "undoing", "restore"}
           \/ w \notin Overwriting /\ step[w] \in {"put", "sync"}
  <2>1. StopsAt(w, "clean temp")
    BY <1>2, <1>4 DEF Folders!Error, Folders!Raise, Folders!Handler, Folders!Go
  <2> QED BY <2>1, <1>4, StopCleansKeepsFolders
<1>5. CASE w \in Overwriting /\ step[w] \in {"gone?", "put", "sync"}
  <2>1. StopsAt(w, "undo")
    BY <1>2, <1>5 DEF Folders!Error, Folders!Raise, Folders!Handler, Folders!Go
  <2> QED BY <2>1, <1>5, StopUndoesKeepsFolders
<1>6. CASE step[w] \in {"purge", "purging"}
  <2>1. StopsAt(w, "return")
    BY <1>2, <1>6 DEF Folders!Error, Folders!Go
  <2> QED BY <2>1, <1>6, StopKeepsKeepsFolders
<1>7. w \notin Overwriting => step[w] # "gone?"
  BY <1>t DEF SetsAside
<1> QED BY <1>1, <1>3, <1>4, <1>5, <1>6, <1>7 DEF Folders!Points, Resting, Cleaning

\* an interruption of one that does not overwrite,
LEMMA InterruptKeepsFolders ==
    ASSUME FoldersInv, NEW w \in FolderWriters, Folders!Interrupt(w)
    PROVE  FoldersInv'
<1>t. FolderTypes /\ SetsAside(w)
  BY DEF FoldersInv, WriterInv
<1>o. w \notin Overwriting
  BY FoldersAssumption DEF Folders!Interrupt
<1>1. /\ step[w] \in Folders!Points /\ step[w] \notin Resting
      /\ step[w] \notin {"set aside", "aside", "gone?", "purge", "purging",
                         "undo", "undo remove", "undoing", "restore"}
  BY <1>t, <1>o DEF FolderTypes, Folders!Interrupt, Folders!Stopped, Folders!Running, Folders!Over, Resting,
       SetsAside
<1>2. \A x : step' = [step EXCEPT ![w] = x] => StopsAt(w, x)
  BY DEF Folders!Interrupt, Folders!Stopped, StopsAt
<1>3. CASE step[w] \in {"stage"} \cup Cleaning
  <2>1. StopsAt(w, "failed")
    BY <1>2, <1>3 DEF Folders!Interrupt, Folders!Raise, Folders!Handler, Folders!Go, Cleaning
  <2> QED BY <2>1, <1>3, StopFailsKeepsFolders
<1>4. CASE step[w] \in {"fill", "look", "recheck", "put", "sync", "return"}
  <2>1. StopsAt(w, "clean temp")
    BY <1>2, <1>4, <1>o DEF Folders!Interrupt, Folders!Raise, Folders!Handler, Folders!Go
  <2> QED BY <2>1, <1>4, <1>o, StopCleansKeepsFolders
<1> QED BY <1>1, <1>3, <1>4 DEF Folders!Points, Resting, Cleaning

\* a kill.
LEMMA KillKeepsFolders ==
    ASSUME FoldersInv, NEW w \in FolderWriters, Folders!Kill(w)
    PROVE  FoldersInv'
<1>1. step[w] \notin Resting
  BY DEF Folders!Kill, Folders!Stopped, Folders!Running, Folders!Over, Resting
<1>2. StopsAt(w, "killed")
  BY DEF Folders!Kill, Folders!Stopped, Folders!Go, StopsAt
<1> QED BY <1>1, <1>2, StopKillsKeepsFolders

\* Any step of any writer.
LEMMA NextKeepsFolders ==
    ASSUME FoldersInv, Folders!Next
    PROVE  FoldersInv'
<1>1. PICK w \in FolderWriters : Folders!Step(w)
  BY DEF Folders!Next
<1>2. CASE Folders!Start(w)
  BY <1>2, StartKeepsFolders
<1>3. CASE Folders!Stage(w)
  BY <1>3, StageKeepsFolders
<1>4. CASE Folders!Fill(w)
  BY <1>4, FillKeepsFolders
<1>5. CASE Folders!Look(w)
  BY <1>5, LookFreeKeepsFolders, LookTakenKeepsFolders
<1>6. CASE Folders!Recheck(w)
  BY <1>6, RecheckOtherKeepsFolders, RecheckOldKeepsFolders, RecheckNoneKeepsFolders
<1>7. CASE Folders!SetAside(w)
  BY <1>7, SetAsideKeepsFolders
<1>8. CASE Folders!Aside(w)
  BY <1>8, AsideKeepsFolders
<1>9. CASE Folders!Gone(w)
  BY <1>9, GoneKeepsFolders
<1>10. CASE Folders!Put(w)
  BY <1>10, PutFreeKeepsFolders, PutTakenKeepsFolders
<1>11. CASE Folders!Sync(w)
  BY <1>11, SyncOldKeepsFolders, SyncNoneKeepsFolders
<1>12. CASE Folders!Return(w)
  BY <1>12, ReturnKeepsFolders
<1>13. CASE Folders!Undo(w)
  BY <1>13, UndoOwnKeepsFolders, UndoNoneKeepsFolders, UndoNothingKeepsFolders
<1>14. CASE Folders!Restore(w)
  BY <1>14, RestoreKeepsFolders
<1>15. CASE Folders!CleanTemp(w)
  BY <1>15, CleanTempSomeKeepsFolders, CleanTempNoneKeepsFolders
<1>16. CASE Folders!CleanDest(w)
  BY <1>16, CleanDestOwnKeepsFolders, CleanDestOtherKeepsFolders
<1>17. CASE Folders!RemoveBegins(w)
  <2>1. step[w] \in {"undo remove", "clean remove", "purge"}
    BY <1>17 DEF Folders!RemoveBegins
  <2> QED BY <1>17, <2>1, RemoveUndoneKeepsFolders, RemoveOwnKeepsFolders, RemoveOldKeepsFolders
<1>18. CASE Folders!Undone(w)
  BY <1>18, UndoneSomeKeepsFolders, UndoneNoneKeepsFolders
<1>19. CASE Folders!Purged(w)
  BY <1>19, PurgedKeepsFolders
<1>20. CASE Folders!CleanedTemp(w)
  BY <1>20, CleanedTempKeepsFolders
<1>21. CASE Folders!CleanedDest(w)
  BY <1>21, CleanedDestKeepsFolders
<1>22. CASE Folders!Error(w)
  BY <1>22, ErrorKeepsFolders
<1>23. CASE Folders!Interrupt(w)
  BY <1>23, InterruptKeepsFolders
<1>24. CASE Folders!Kill(w)
  BY <1>24, KillKeepsFolders
<1> QED BY <1>1, <1>2, <1>3, <1>4, <1>5, <1>6, <1>7, <1>8, <1>9, <1>10, <1>11, <1>12, <1>13, <1>14, <1>15, <1>16,
          <1>17, <1>18, <1>19, <1>20, <1>21, <1>22, <1>23, <1>24 DEF Folders!Step

\* A step of a writer moves no other.
LEMMA OnlyOneMoves ==
    ASSUME NEW v \in FolderWriters, NEW w \in FolderWriters, v # w, Folders!Step(v)
    PROVE  step'[w] = step[w]
<1>1. (\E x : step' = [step EXCEPT ![v] = x]) => step'[w] = step[w]
  OBVIOUS
<1>2. CASE Folders!Start(v) \/ Folders!Stage(v) \/ Folders!Fill(v) \/ Folders!Aside(v) \/ Folders!Return(v)
            \/ Folders!Restore(v) \/ Folders!Purged(v) \/ Folders!CleanedTemp(v) \/ Folders!CleanedDest(v)
  BY <1>1, <1>2 DEF Folders!Start, Folders!Stage, Folders!Fill, Folders!Aside, Folders!Return, Folders!Restore,
     Folders!Purged, Folders!CleanedTemp, Folders!CleanedDest, Folders!Go
<1>3. CASE Folders!Undo(v) \/ Folders!CleanDest(v) \/ Folders!CleanTemp(v)
  BY <1>1, <1>3 DEF Folders!Undo, Folders!CleanDest, Folders!CleanTemp, Folders!Go
<1>4. CASE Folders!Look(v) \/ Folders!Recheck(v) \/ Folders!SetAside(v) \/ Folders!Gone(v) \/ Folders!Put(v)
            \/ Folders!Sync(v)
  BY <1>1, <1>4 DEF Folders!Look, Folders!Recheck, Folders!SetAside, Folders!Gone, Folders!Put, Folders!Sync,
     Folders!Raise, Folders!Go
<1>5. CASE Folders!RemoveBegins(v) \/ Folders!Undone(v)
  BY <1>1, <1>5 DEF Folders!RemoveBegins, Folders!Undone, Folders!Raise, Folders!Go
<1>6. CASE Folders!Error(v) \/ Folders!Interrupt(v) \/ Folders!Kill(v)
  BY <1>1, <1>6 DEF Folders!Error, Folders!Interrupt, Folders!Kill, Folders!Raise, Folders!Go
<1> QED BY <1>2, <1>3, <1>4, <1>5, <1>6 DEF Folders!Step

\* A run fails when its destination has been cleaned up, or is stopped before
\* that is over; in the first case nothing of its own is left.
LEMMA FailsClean ==
    ASSUME FoldersInv, NEW w \in FolderWriters, Folders!Step(w), Folders!Running(w),
           step'[w] = "failed", stops'[w] \cap Folders!Undoing = {}
    PROVE  dest' # w /\ temp'[w] = None /\ (w \in Overwriting => dest' = before[w])
<1>t. FolderTypes /\ SetsAside(w) /\ StagedOnce(w) /\ PutThere(w) /\ Phases(w) /\ RolledBack(w)
  BY DEF FoldersInv, WriterInv
<1>n. None # w
  BY FoldersAssumption DEF Folders!TreesAssumption
<1>g. \A x : Folders!Go(w, x) => step'[w] = x
  BY <1>t DEF FolderTypes, Folders!Go
<1>1. CASE Folders!Error(w) \/ Folders!Interrupt(w) \/ Folders!Kill(w)
  <2>1. /\ stops' = [stops EXCEPT ![w] = stops[w] \cup {step[w]}]
        /\ dest' = dest /\ temp' = temp
    BY <1>1 DEF Folders!Error, Folders!Interrupt, Folders!Kill, Folders!Stopped
  <2>2. step[w] \in stops'[w]
    BY <1>t, <2>1 DEF FolderTypes
  <2>3. step[w] \in Folders!Points /\ step[w] \notin Folders!Undoing \cup Folders!Over \cup {"idle"}
    BY <1>t, <2>2 DEF FolderTypes, Folders!Running
  <2>4. Folders!Handler(w) = "failed"
    BY <1>1, <1>g DEF Folders!Error, Folders!Interrupt, Folders!Kill, Folders!Raise
  <2>5. step[w] = "stage"
    BY <2>3, <2>4 DEF Folders!Handler, Folders!Points, Folders!Undoing, Folders!Over
  <2> QED BY <1>t, <2>1, <2>5 DEF StagedOnce, Phases, Early
<1>2. CASE Folders!CleanDest(w)
  <2>1. step[w] = "clean dest" /\ dest' = dest /\ temp' = temp /\ stops' = stops /\ dest # w
    BY <1>2, <1>g DEF Folders!CleanDest
  <2> QED BY <1>t, <2>1 DEF StagedOnce, RolledBack, Cleaning
<1>3. CASE Folders!CleanedDest(w)
  <2>1. /\ step[w] = "cleaning dest" /\ dest = w /\ dest' = None /\ temp' = temp /\ stops' = stops
    BY <1>3, <1>t DEF Folders!CleanedDest, PutThere
  <2> QED BY <1>t, <1>n, <2>1 DEF StagedOnce, RolledBack, SetsAside, Cleaning
<1>4. CASE Folders!Start(w) \/ Folders!Stage(w) \/ Folders!Fill(w) \/ Folders!Aside(w) \/ Folders!Return(w)
            \/ Folders!Restore(w) \/ Folders!Purged(w) \/ Folders!CleanedTemp(w)
  BY <1>4, <1>g DEF Folders!Start, Folders!Stage, Folders!Fill, Folders!Aside, Folders!Return, Folders!Restore,
     Folders!Purged, Folders!CleanedTemp
<1>5. CASE Folders!Undo(w) \/ Folders!CleanTemp(w)
  BY <1>5, <1>g DEF Folders!Undo, Folders!CleanTemp
<1>6. CASE Folders!Look(w) \/ Folders!Recheck(w) \/ Folders!SetAside(w)
  BY <1>6, <1>g DEF Folders!Look, Folders!Recheck, Folders!SetAside, Folders!Raise, Folders!Handler
<1>7. CASE Folders!Gone(w) \/ Folders!Put(w) \/ Folders!Sync(w)
  BY <1>7, <1>g DEF Folders!Gone, Folders!Put, Folders!Sync, Folders!Raise, Folders!Handler
<1>8. CASE Folders!Undone(w)
  BY <1>8, <1>g DEF Folders!Undone, Folders!Raise, Folders!Handler
<1>9. CASE Folders!RemoveBegins(w)
  <2>1. step[w] \in {"undo remove", "clean remove"} => dest # None
    BY <1>t, <1>n DEF PutThere
  <2>2. step[w] \in {"undo remove", "clean remove", "purge"}
    BY <1>9 DEF Folders!RemoveBegins
  <2> QED BY <1>9, <1>g, <2>1, <2>2 DEF Folders!RemoveBegins, Folders!Raise, Folders!Handler
<1> QED BY <1>1, <1>2, <1>3, <1>4, <1>5, <1>6, <1>7, <1>8, <1>9 DEF Folders!Step

-----------------------------------------------------------------------------
(* The files of a single entity.                                           *)

Elements(s) == {s[i] : i \in DOMAIN s}
Distinct(s) == \A i, j \in DOMAIN s : s[i] = s[j] => i = j
EndsWithManifest(s) == s # <<>> => s[Len(s)] = manifest

Due == Elements(moves)

\* How far a file has been moved back.
Undone(n) == out[n] = before[n] /\ roll[n] = "none" /\ temp[n] = "new"
PutAside(n) == out[n] = "none" /\ roll[n] = before[n] /\ temp[n] = "new"
PutIn(n) == out[n] = "new" /\ roll[n] = before[n] /\ temp[n] = "none"

BundleTypes ==
    /\ out \in Files!Folder /\ temp \in Files!Folder /\ roll \in Files!Folder
    /\ before \in [Files!Names -> {"none", "old"}]
    /\ moves \in Seq(Files!Names) /\ Distinct(moves)
    /\ step \in Files!Points

\* Where the files are while the bundle is published,
MovingIn ==
    /\ step \in Files!Forward => stops = {}
    /\ step = "check" => out = before /\ temp = Files!Complete /\ roll = Files!Nothing
    /\ step = "aside" =>
        \A n \in Files!Names :
            IF n \in Due THEN before[n] = "old" /\ Undone(n) ELSE PutAside(n)
    /\ step = "place" =>
        /\ EndsWithManifest(moves)
        /\ \A n \in Files!Names : IF n \in Due THEN PutAside(n) ELSE PutIn(n)
    /\ step = "complete" => \A n \in Files!Names : PutIn(n)
    /\ step \in {"drop rollback", "drop temp", "published"} => out = Files!Complete

\* and while that is undone.
MovingBack ==
    /\ step \in {"undo", "drop undone"} => stops \subseteq {"aside", "place", "complete"}
    /\ step = "undo" =>
        \A n \in Files!Names :
            IF n \in Due THEN Undone(n) \/ PutAside(n) \/ PutIn(n) ELSE Undone(n)
    /\ step = "drop undone" => out = before
    /\ step \in {"clean", "failed"} /\ stops \cap {"undo", "drop undone"} = {} =>
        out = IF stops \cap {"drop rollback", "drop temp"} # {} THEN Files!Complete ELSE before

BundleInv == BundleTypes /\ MovingIn /\ MovingBack

\* A sequence without its head.
LEMMA TailOf ==
    ASSUME NEW S, NEW s \in Seq(S), s # <<>>, Distinct(s)
    PROVE  /\ Head(s) \in S /\ Head(s) \in Elements(s)
           /\ Tail(s) \in Seq(S) /\ Distinct(Tail(s))
           /\ Elements(Tail(s)) = Elements(s) \ {Head(s)}
           /\ EndsWithManifest(s) => EndsWithManifest(Tail(s))
<1>1. /\ Len(s) \in Nat \ {0} /\ DOMAIN s = 1..Len(s) /\ Head(s) = s[1]
      /\ Tail(s) \in Seq(S) /\ Len(Tail(s)) = Len(s) - 1
      /\ \A i \in 1..(Len(s) - 1) : Tail(s)[i] = s[i + 1]
  OBVIOUS
<1>2. Head(s) \in S /\ Head(s) \in Elements(s)
  BY <1>1 DEF Elements
<1>3. DOMAIN Tail(s) = 1..(Len(s) - 1)
  BY <1>1
<1> DEFINE t == Tail(s)
<1> HIDE DEF t
<1>4. Distinct(t)
  BY <1>1, <1>3 DEF Distinct, t
<1>5. Elements(t) \subseteq Elements(s) \ {Head(s)}
  BY <1>1, <1>3 DEF Elements, Distinct, t
<1>6. ASSUME NEW e \in Elements(s), e # Head(s) PROVE e \in Elements(t)
  <2>1. PICK i \in 1..Len(s) : e = s[i]
    BY <1>1 DEF Elements
  <2>2. i # 1
    BY <1>1, <1>6, <2>1
  <2>3. i - 1 \in 1..(Len(s) - 1) /\ t[i - 1] = s[i]
    BY <1>1, <2>1, <2>2 DEF t
  <2> QED BY <1>3, <2>1, <2>3 DEF Elements, t
<1>7. EndsWithManifest(s) => EndsWithManifest(t)
  <2> SUFFICES ASSUME s[Len(s)] = manifest, t # <<>> PROVE t[Len(t)] = manifest
    BY DEF EndsWithManifest
  <2>1. Len(t) = Len(s) - 1 /\ Len(t) # 0
    BY <1>1 DEF t
  <2> QED BY <1>1, <2>1 DEF t
<1> QED BY <1>1, <1>2, <1>4, <1>5, <1>6, <1>7 DEF t

\* A sequence without elements is empty.
LEMMA NoElements == ASSUME NEW S, NEW s \in Seq(S), Elements(s) = {} PROVE s = <<>>
<1>1. s # <<>> => s[1] \in Elements(s)
  BY DEF Elements
<1> QED BY <1>1

\* One sequence after another.
LEMMA OneAfterAnother ==
    ASSUME NEW S, NEW a \in Seq(S), NEW b \in Seq(S)
    PROVE  /\ a \o b \in Seq(S) /\ Len(a \o b) = Len(a) + Len(b)
           /\ \A i \in 1..(Len(a) + Len(b)) : (a \o b)[i] = IF i <= Len(a) THEN a[i] ELSE b[i - Len(a)]
OBVIOUS

\* The staged order has every file once, the manifest last,
LEMMA StagedFiles ==
    /\ Files!StagedOrder \in Seq(Files!Names) /\ Distinct(Files!StagedOrder)
    /\ Elements(Files!StagedOrder) = Files!Names /\ EndsWithManifest(Files!StagedOrder)
<1> DEFINE s == BundleFiles
           m == CHOOSE i \in DOMAIN s : s[i] = manifest
           r == Files!RemoveAt(s, m)
<1>1. s \in Seq(Files!Names) /\ Distinct(s) /\ manifest \in Files!Names /\ Files!Names = Elements(s)
  BY BundleAssumption DEF Files!NamesAssumption, Files!Names, Files!ToSet, Distinct, Elements
<1>2. m \in DOMAIN s /\ s[m] = manifest
  BY <1>1 DEF Elements
<1> HIDE DEF m, s
<1>3. DOMAIN s = 1..Len(s) /\ Len(s) \in Nat \ {0} /\ m \in 1..Len(s)
  BY <1>1, <1>2
<1>4. r = SubSeq(s, 1, m - 1) \o SubSeq(s, m + 1, Len(s))
  BY DEF Files!RemoveAt
<1> HIDE DEF r
<1> DEFINE u == SubSeq(s, 1, m - 1)
           v == SubSeq(s, m + 1, Len(s))
<1>5. u = [i \in 1..(m - 1) |-> s[i]] /\ v = [i \in 1..(Len(s) - m) |-> s[i + m]]
  BY <1>1, <1>3
<1> HIDE DEF u, v
<1>a. /\ \A i \in 1..(m - 1) : i \in DOMAIN s /\ s[i] \in Files!Names
      /\ \A i \in 1..(Len(s) - m) : i + m \in DOMAIN s /\ s[i + m] \in Files!Names
  BY <1>1, <1>3 DEF Elements
<1>b. u \in Seq(Files!Names) /\ Len(u) = m - 1 /\ \A i \in 1..(m - 1) : u[i] = s[i]
  BY <1>3, <1>5, <1>a
<1>c. v \in Seq(Files!Names) /\ Len(v) = Len(s) - m /\ \A i \in 1..(Len(s) - m) : v[i] = s[i + m]
  <2> DEFINE k == Len(s) - m
  <2>1. k \in Nat
    BY <1>3
  <2>2. v = [i \in 1..k |-> s[i + m]] /\ \A i \in 1..k : s[i + m] \in Files!Names
    BY <1>5, <1>a
  <2> HIDE DEF k
  <2>3. v \in Seq(Files!Names) /\ Len(v) = k /\ \A i \in 1..k : v[i] = s[i + m]
    BY <2>1, <2>2
  <2> QED BY <2>3 DEF k
<1>d. r = u \o v
  BY <1>4 DEF u, v
<1>e. /\ r \in Seq(Files!Names) /\ Len(r) = Len(s) - 1
      /\ \A i \in 1..(Len(s) - 1) : r[i] = IF i <= Len(u) THEN u[i] ELSE v[i - Len(u)]
  <2>1. /\ r \in Seq(Files!Names) /\ Len(r) = Len(u) + Len(v)
        /\ \A i \in 1..(Len(u) + Len(v)) : r[i] = IF i <= Len(u) THEN u[i] ELSE v[i - Len(u)]
    BY <1>b, <1>c, <1>d, OneAfterAnother
  <2>2. Len(u) + Len(v) = Len(s) - 1
    BY <1>3, <1>b, <1>c
  <2> QED BY <2>1, <2>2
<1>6. /\ r \in Seq(Files!Names) /\ Len(r) = Len(s) - 1
      /\ \A i \in 1..(Len(s) - 1) : r[i] = IF i < m THEN s[i] ELSE s[i + 1]
  <2>1. ASSUME NEW i \in 1..(Len(s) - 1), i < m PROVE r[i] = s[i]
    BY <1>3, <1>b, <1>e, <2>1
  <2>2. ASSUME NEW i \in 1..(Len(s) - 1), ~(i < m) PROVE r[i] = s[i + 1]
    <3>1. i - (m - 1) \in 1..(Len(s) - m) /\ (i - (m - 1)) + m = i + 1
      BY <1>3, <2>2
    <3>2. r[i] = v[i - (m - 1)]
      BY <1>3, <1>b, <1>e, <2>2
    <3> QED BY <1>c, <3>1, <3>2
  <2> QED BY <1>e, <2>1, <2>2
<1>7. Files!StagedOrder = r \o <<manifest>>
  BY DEF Files!StagedOrder, r, m, s
<1> DEFINE o == r \o <<manifest>>
<1>8. /\ o \in Seq(Files!Names) /\ Len(o) = Len(s) /\ DOMAIN o = 1..Len(s)
      /\ o[Len(s)] = manifest
      /\ \A i \in 1..(Len(s) - 1) : o[i] = IF i < m THEN s[i] ELSE s[i + 1]
  <2>1. o \in Seq(Files!Names) /\ Len(o) = Len(r) + 1 /\ o[Len(r) + 1] = manifest
    BY <1>1, <1>6
  <2>2. \A i \in 1..Len(r) : o[i] = r[i]
    BY <1>6
  <2> HIDE DEF o
  <2> QED BY <1>3, <1>6, <2>1, <2>2
<1> HIDE DEF o
<1> DEFINE from(i) == IF i = Len(s) THEN m ELSE IF i < m THEN i ELSE i + 1
<1>f. \A i \in 1..Len(s) : from(i) \in 1..Len(s) /\ o[i] = s[from(i)]
  BY <1>2, <1>3, <1>8
<1>g. \A i, j \in 1..Len(s) : from(i) = from(j) => i = j
  <2> SUFFICES ASSUME NEW i \in 1..Len(s), NEW j \in 1..Len(s), from(i) = from(j) PROVE i = j
    OBVIOUS
  <2> DEFINE k == Len(s)
  <2>1. k \in Nat /\ m \in 1..k /\ i \in 1..k /\ j \in 1..k
    BY <1>3
  <2>2. (IF i = k THEN m ELSE IF i < m THEN i ELSE i + 1) = (IF j = k THEN m ELSE IF j < m THEN j ELSE j + 1)
    OBVIOUS
  <2> HIDE DEF k, from
  <2> QED BY <2>1, <2>2
<1> HIDE DEF from
<1>9. Distinct(o)
  BY <1>1, <1>3, <1>8, <1>f, <1>g DEF Distinct
<1>10. ASSUME NEW n \in Files!Names PROVE n \in Elements(o)
  <2>1. PICK i \in 1..Len(s) : s[i] = n
    BY <1>1, <1>3 DEF Elements
  <2>2. CASE i < m
    <3>1. i \in 1..(Len(s) - 1) /\ o[i] = n
      BY <1>3, <1>8, <2>1, <2>2
    <3> QED BY <1>8, <2>1, <3>1 DEF Elements
  <2>3. CASE i = m
    BY <1>2, <1>3, <1>8, <2>1, <2>3 DEF Elements
  <2>4. CASE i > m
    <3>1. i - 1 \in 1..(Len(s) - 1) /\ o[i - 1] = n
      BY <1>3, <1>8, <2>1, <2>4
    <3>2. i - 1 \in DOMAIN o
      BY <1>3, <1>8, <3>1
    <3> QED BY <3>1, <3>2 DEF Elements
  <2> QED BY <1>3, <2>1, <2>2, <2>3, <2>4
<1>11. Elements(o) \subseteq Files!Names
  BY <1>8 DEF Elements
<1>12. EndsWithManifest(o)
  BY <1>8 DEF EndsWithManifest
<1> QED BY <1>7, <1>8, <1>9, <1>10, <1>11, <1>12 DEF o

\* also in reverse.
LEMMA ReversedFiles ==
    /\ Files!Reverse(Files!StagedOrder) \in Seq(Files!Names) /\ Distinct(Files!Reverse(Files!StagedOrder))
    /\ Elements(Files!Reverse(Files!StagedOrder)) = Files!Names
<1> DEFINE s == Files!StagedOrder
           r == Files!Reverse(s)
<1>1. s \in Seq(Files!Names) /\ Distinct(s) /\ Elements(s) = Files!Names
  BY StagedFiles
<1>2. r = [i \in 1..Len(s) |-> s[(Len(s) - i) + 1]]
  BY DEF Files!Reverse
<1> HIDE DEF s, r
<1>3. /\ Len(s) \in Nat /\ DOMAIN s = 1..Len(s) /\ DOMAIN r = 1..Len(s)
      /\ \A i \in 1..Len(s) : (Len(s) - i) + 1 \in 1..Len(s) /\ r[i] = s[(Len(s) - i) + 1]
  BY <1>1, <1>2
<1>4. r \in Seq(Files!Names)
  BY <1>1, <1>2, <1>3
<1>5. Distinct(r)
  BY <1>1, <1>3 DEF Distinct
<1>6. ASSUME NEW n \in Files!Names PROVE n \in Elements(r)
  <2>1. PICK i \in 1..Len(s) : s[i] = n
    BY <1>1, <1>3 DEF Elements
  <2>2. r[(Len(s) - i) + 1] = n /\ (Len(s) - i) + 1 \in 1..Len(s)
    BY <1>3, <2>1
  <2> QED BY <1>3, <2>2 DEF Elements
<1>7. Elements(r) \subseteq Files!Names
  BY <1>1, <1>3 DEF Elements
<1> QED BY <1>4, <1>5, <1>6, <1>7 DEF r, s
\* At first, and when the staging directory and the folder are looked at, the
\* invariant holds;
LEMMA InitHoldsFiles == Files!Init => BundleInv
<1> SUFFICES ASSUME Files!Init PROVE BundleInv
  OBVIOUS
<1>1. Distinct(moves) /\ moves \in Seq(Files!Names)
  BY DEF Files!Init, Distinct
<1> QED BY <1>1 DEF Files!Init, BundleInv, BundleTypes, MovingIn, MovingBack, Files!Folder, Files!Complete,
       Files!Nothing, Files!Points, Files!Forward, Files!RollingBack

\* It is known which files are to be set aside.
LEMMA AcceptKeepsFiles == ASSUME BundleInv, Files!Accept PROVE BundleInv'
<1>t. BundleTypes /\ step = "check" /\ stops = {} /\ out = before /\ temp = Files!Complete /\ roll = Files!Nothing
  BY DEF BundleInv, MovingIn, Files!Accept, Files!Forward
<1>g. /\ moves' = Files!Collisions /\ step' = "aside"
      /\ UNCHANGED <<before, stops, out, temp, roll>>
  BY DEF Files!Accept, Files!Goto, Files!input
<1>1. Files!Present(out) \in {{}, {data}, Files!Names}
  BY DEF Files!Accept, Files!Replaceable
<1>2. data \in Files!Names \ {manifest} /\ manifest \in Files!Names
  BY BundleAssumption DEF Files!NamesAssumption
<1> DEFINE c == Files!Collisions
<1>3. c \in Seq(Files!Names) /\ Distinct(c) /\ Elements(c) = Files!Present(out)
  <2>1. CASE Files!Present(out) = {}
    <3>1. c = <<>>
      BY <1>2, <2>1 DEF Files!Collisions
    <3> QED BY <2>1, <3>1 DEF Elements, Distinct
  <2>2. CASE Files!Present(out) = {data}
    <3>1. c = <<data>>
      BY <1>2, <2>2 DEF Files!Collisions
    <3>2. c \in Seq(Files!Names) /\ DOMAIN c = {1} /\ c[1] = data
      BY <1>2, <3>1
    <3> HIDE DEF c
    <3> QED BY <2>2, <3>2 DEF Elements, Distinct
  <2>3. CASE Files!Present(out) = Files!Names
    <3>1. c = Files!StagedOrder
      BY <1>2, <2>3 DEF Files!Collisions
    <3> QED BY <2>3, <3>1, StagedFiles
  <2> QED BY <1>1, <2>1, <2>2, <2>3
<1> HIDE DEF c
<1>4. moves' = c
  BY <1>g DEF c
<1>5. Elements(moves') = Files!Present(out)
  BY <1>3, <1>4
<1>6. BundleTypes'
  BY <1>t, <1>g, <1>3, <1>4 DEF BundleTypes, Files!Points, Files!Forward
<1>7. MovingIn'
  <2>1. ASSUME NEW n \in Files!Names
        PROVE  IF n \in Elements(moves') THEN before'[n] = "old" /\ Undone(n)' ELSE PutAside(n)'
    BY <1>t, <1>g, <1>5 DEF BundleTypes, Undone, PutAside, Files!Present, Files!Complete, Files!Nothing
  <2> QED BY <1>t, <1>g, <2>1 DEF MovingIn, Due
<1>8. MovingBack'
  BY <1>t, <1>g DEF MovingBack
<1> QED BY <1>6, <1>7, <1>8 DEF BundleInv

\* a refusal changes nothing.
LEMMA RefuseKeepsFiles == ASSUME BundleInv, Files!Refuse PROVE BundleInv'
<1>g. /\ step = "check" /\ step' = "clean" /\ stops = {} /\ out = before
      /\ UNCHANGED <<before, stops, out, temp, roll, moves>>
  BY DEF BundleInv, MovingIn, Files!Refuse, Files!Goto, Files!input, Files!Forward
<1>1. BundleTypes'
  BY <1>g DEF BundleInv, BundleTypes, Files!Points, Files!RollingBack
<1>2. MovingIn' /\ MovingBack'
  BY <1>g DEF MovingIn, MovingBack, Files!Forward
<1> QED BY <1>1, <1>2 DEF BundleInv

\* The next file is set aside, or moved in, and leaves what is due.
LEMMA AsideKeepsFiles == ASSUME BundleInv, Files!Aside PROVE BundleInv'
<1> DEFINE h == Head(moves)
<1>t. BundleTypes /\ step = "aside" /\ stops = {} /\ moves # <<>>
  BY DEF BundleInv, MovingIn, Files!Aside, Files!Forward
<1>g. /\ step' = "aside" /\ UNCHANGED <<before, stops, temp>>
      /\ moves' = Tail(moves)
      /\ roll' = [roll EXCEPT ![h] = out[h]] /\ out' = [out EXCEPT ![h] = "none"]
  BY <1>t DEF Files!Aside, Files!Stay, Files!input
<1>m. /\ h \in Files!Names /\ h \in Due
      /\ Tail(moves) \in Seq(Files!Names) /\ Distinct(Tail(moves)) /\ Elements(Tail(moves)) = Due \ {h}
  BY <1>t, TailOf DEF BundleTypes, Due
<1>d. Due' = Due \ {h}
  BY <1>g, <1>m DEF Due
<1> HIDE DEF h
<1>1. BundleTypes'
  BY <1>t, <1>g, <1>m DEF BundleTypes, Files!Folder
<1>2. ASSUME NEW n \in Files!Names
      PROVE  IF n \in Due' THEN before'[n] = "old" /\ Undone(n)' ELSE PutAside(n)'
  <2>1. IF n \in Due THEN before[n] = "old" /\ Undone(n) ELSE PutAside(n)
    BY <1>t DEF BundleInv, MovingIn
  <2>2. CASE n = h
    BY <1>t, <1>g, <1>m, <1>d, <2>1, <2>2 DEF BundleTypes, Files!Folder, Undone, PutAside
  <2>3. CASE n # h
    BY <1>t, <1>g, <1>d, <2>1, <2>3 DEF BundleTypes, Files!Folder, Undone, PutAside
  <2> QED BY <2>2, <2>3
<1>3. MovingIn' /\ MovingBack'
  BY <1>t, <1>g, <1>2 DEF MovingIn, MovingBack
<1> QED BY <1>1, <1>3 DEF BundleInv

\* When all are set aside, all are due to be moved in.
LEMMA AsideDoneKeepsFiles == ASSUME BundleInv, Files!AsideDone PROVE BundleInv'
<1>g. /\ step = "aside" /\ step' = "place" /\ moves = <<>> /\ moves' = Files!StagedOrder /\ stops = {}
      /\ UNCHANGED <<before, stops, out, temp, roll>>
  BY DEF BundleInv, MovingIn, Files!AsideDone, Files!Goto, Files!input, Files!Forward
<1>d. Due = {} /\ Due' = Files!Names /\ EndsWithManifest(moves')
  BY <1>g, StagedFiles DEF Due, Elements
<1>1. BundleTypes'
  BY <1>g, StagedFiles DEF BundleInv, BundleTypes, Files!Points, Files!Forward
<1>2. ASSUME NEW n \in Files!Names PROVE PutAside(n)'
  BY <1>g, <1>d DEF BundleInv, MovingIn, PutAside
<1>3. MovingIn' /\ MovingBack'
  BY <1>g, <1>d, <1>2 DEF MovingIn, MovingBack
<1> QED BY <1>1, <1>3 DEF BundleInv

\* and moved in; the manifest is last.
LEMMA PlaceKeepsFiles == ASSUME BundleInv, Files!Place PROVE BundleInv'
<1> DEFINE h == Head(moves)
<1>t. BundleTypes /\ step = "place" /\ stops = {} /\ moves # <<>> /\ EndsWithManifest(moves)
  BY DEF BundleInv, MovingIn, Files!Place, Files!Forward
<1>g. /\ step' = "place" /\ UNCHANGED <<before, stops, roll>>
      /\ moves' = Tail(moves)
      /\ out' = [out EXCEPT ![h] = temp[h]] /\ temp' = [temp EXCEPT ![h] = "none"]
  BY <1>t DEF Files!Place, Files!Stay, Files!input
<1>m. /\ h \in Files!Names /\ h \in Due
      /\ Tail(moves) \in Seq(Files!Names) /\ Distinct(Tail(moves)) /\ Elements(Tail(moves)) = Due \ {h}
      /\ EndsWithManifest(Tail(moves))
  BY <1>t, TailOf DEF BundleTypes, Due
<1>d. Due' = Due \ {h} /\ EndsWithManifest(moves')
  BY <1>g, <1>m DEF Due
<1> HIDE DEF h
<1>1. BundleTypes'
  BY <1>t, <1>g, <1>m DEF BundleTypes, Files!Folder
<1>2. ASSUME NEW n \in Files!Names PROVE IF n \in Due' THEN PutAside(n)' ELSE PutIn(n)'
  <2>1. IF n \in Due THEN PutAside(n) ELSE PutIn(n)
    BY <1>t DEF BundleInv, MovingIn
  <2>2. CASE n = h
    BY <1>t, <1>g, <1>m, <1>d, <2>1, <2>2 DEF BundleTypes, Files!Folder, PutIn, PutAside
  <2>3. CASE n # h
    BY <1>t, <1>g, <1>d, <2>1, <2>3 DEF BundleTypes, Files!Folder, PutIn, PutAside
  <2> QED BY <2>2, <2>3
<1>3. MovingIn' /\ MovingBack'
  BY <1>t, <1>g, <1>d, <1>2 DEF MovingIn, MovingBack
<1> QED BY <1>1, <1>3 DEF BundleInv

\* When none is due, the bundle is complete.
LEMMA PlaceDoneKeepsFiles == ASSUME BundleInv, Files!PlaceDone PROVE BundleInv'
<1>g. /\ step = "place" /\ step' = "complete" /\ moves = <<>> /\ stops = {}
      /\ UNCHANGED <<before, stops, out, temp, roll, moves>>
  BY DEF BundleInv, MovingIn, Files!PlaceDone, Files!Goto, Files!input, Files!Forward
<1>d. Due = {}
  BY <1>g DEF Due, Elements
<1>1. BundleTypes'
  BY <1>g DEF BundleInv, BundleTypes, Files!Points, Files!Forward
<1>2. ASSUME NEW n \in Files!Names PROVE PutIn(n)'
  BY <1>g, <1>d DEF BundleInv, MovingIn, PutIn
<1>3. MovingIn' /\ MovingBack'
  BY <1>g, <1>2 DEF MovingIn, MovingBack
<1> QED BY <1>1, <1>3 DEF BundleInv

\* The bundle is complete, and what is staged or was set aside is removed.
LEMMA CommitKeepsFiles ==
    ASSUME BundleInv, Files!Commit \/ Files!DropRollback \/ Files!DropTemp
    PROVE  BundleInv'
<1>g. /\ step \in {"complete", "drop rollback", "drop temp"} /\ stops = {}
      /\ step' \in {"drop rollback", "drop temp", "published"}
      /\ UNCHANGED <<before, stops, out, moves>>
      /\ temp' \in {temp, Files!Nothing} /\ roll' \in {roll, Files!Nothing}
  BY DEF BundleInv, MovingIn, Files!Commit, Files!DropRollback, Files!DropTemp, Files!Goto, Files!input, Files!Forward
<1>e. Files!Nothing \in Files!Folder
  BY DEF Files!Nothing, Files!Folder
<1>1. BundleTypes'
  BY <1>g, <1>e DEF BundleInv, BundleTypes, Files!Points, Files!Forward
<1>2. out = Files!Complete
  <2>1. CASE step = "complete"
    <3>1. \A n \in Files!Names : out[n] = "new"
      BY <2>1 DEF BundleInv, MovingIn, PutIn
    <3>2. out = [n \in Files!Names |-> out[n]]
      BY DEF BundleInv, BundleTypes, Files!Folder
    <3> QED BY <3>1, <3>2 DEF Files!Complete
  <2> QED BY <1>g, <2>1 DEF BundleInv, MovingIn
<1>3. Files!Complete' = Files!Complete
  BY DEF Files!Complete
<1>4. MovingIn' /\ MovingBack'
  BY <1>g, <1>2, <1>3 DEF MovingIn, MovingBack
<1> QED BY <1>1, <1>4 DEF BundleInv

\* The next file is moved back, in one step or in two.
LEMMA TakeOutKeepsFiles == ASSUME BundleInv, Files!TakeOut PROVE BundleInv'
<1> DEFINE h == Head(moves)
<1>t. BundleTypes /\ step = "undo" /\ stops \subseteq {"aside", "place", "complete"} /\ moves # <<>>
  BY DEF BundleInv, MovingBack, Files!TakeOut
<1>g. /\ step' = "undo" /\ UNCHANGED <<before, stops, roll, moves>> /\ Files!MovedIn(h)
      /\ temp' = [temp EXCEPT ![h] = out[h]] /\ out' = [out EXCEPT ![h] = "none"]
  BY <1>t DEF Files!TakeOut, Files!Stay, Files!input
<1>m. h \in Files!Names /\ h \in Due
  BY <1>t, TailOf DEF BundleTypes, Due
<1>d. Due' = Due
  BY <1>g DEF Due
<1> HIDE DEF h
<1>1. BundleTypes'
  BY <1>t, <1>g, <1>m DEF BundleTypes, Files!Folder
<1>2. ASSUME NEW n \in Files!Names
      PROVE  IF n \in Due' THEN (Undone(n) \/ PutAside(n) \/ PutIn(n))' ELSE Undone(n)'
  <2>1. IF n \in Due THEN Undone(n) \/ PutAside(n) \/ PutIn(n) ELSE Undone(n)
    BY <1>t DEF BundleInv, MovingBack
  <2>2. CASE n = h
    BY <1>t, <1>g, <1>m, <1>d, <2>1, <2>2 DEF BundleTypes, Files!Folder, Files!MovedIn, Undone, PutIn, PutAside
  <2>3. CASE n # h
    BY <1>t, <1>g, <1>d, <2>1, <2>3 DEF BundleTypes, Files!Folder, Undone, PutIn, PutAside
  <2> QED BY <2>2, <2>3
<1>3. MovingIn' /\ MovingBack'
  BY <1>t, <1>g, <1>2 DEF MovingIn, MovingBack, Files!Forward
<1> QED BY <1>1, <1>3 DEF BundleInv

\* What was set aside goes back, and leaves what is due.
LEMMA PutBackKeepsFiles == ASSUME BundleInv, Files!PutBack \/ Files!LeaveAlone PROVE BundleInv'
<1> DEFINE h == Head(moves)
<1>t. BundleTypes /\ step = "undo" /\ stops \subseteq {"aside", "place", "complete"} /\ moves # <<>>
  BY DEF BundleInv, MovingBack, Files!PutBack, Files!LeaveAlone
<1>g. /\ step' = "undo" /\ UNCHANGED <<before, stops, temp>> /\ ~Files!MovedIn(h)
      /\ moves' = Tail(moves)
      /\ \/ roll[h] # "none" /\ out' = [out EXCEPT ![h] = roll[h]] /\ roll' = [roll EXCEPT ![h] = "none"]
         \/ roll[h] = "none" /\ UNCHANGED <<out, roll>>
  BY <1>t DEF Files!PutBack, Files!LeaveAlone, Files!Stay, Files!input
<1>m. /\ h \in Files!Names /\ h \in Due
      /\ Tail(moves) \in Seq(Files!Names) /\ Distinct(Tail(moves)) /\ Elements(Tail(moves)) = Due \ {h}
  BY <1>t, TailOf DEF BundleTypes, Due
<1>d. Due' = Due \ {h}
  BY <1>g, <1>m DEF Due
<1> HIDE DEF h
<1>1. BundleTypes'
  BY <1>t, <1>g, <1>m DEF BundleTypes, Files!Folder
<1>2. ASSUME NEW n \in Files!Names
      PROVE  IF n \in Due' THEN (Undone(n) \/ PutAside(n) \/ PutIn(n))' ELSE Undone(n)'
  <2>1. IF n \in Due THEN Undone(n) \/ PutAside(n) \/ PutIn(n) ELSE Undone(n)
    BY <1>t DEF BundleInv, MovingBack
  <2>2. CASE n = h
    BY <1>t, <1>g, <1>m, <1>d, <2>1, <2>2 DEF BundleTypes, Files!Folder, Files!MovedIn, Undone, PutIn, PutAside
  <2>3. CASE n # h
    BY <1>t, <1>g, <1>d, <2>1, <2>3 DEF BundleTypes, Files!Folder, Undone, PutIn, PutAside
  <2> QED BY <2>2, <2>3
<1>3. MovingIn' /\ MovingBack'
  BY <1>t, <1>g, <1>2 DEF MovingIn, MovingBack, Files!Forward
<1> QED BY <1>1, <1>3 DEF BundleInv

\* When none is due, the folder is as it was.
LEMMA UndoneKeepsFiles ==
    ASSUME BundleInv, Files!UndoDone \/ Files!DropUndone \/ Files!Clean
    PROVE  BundleInv'
<1>g. /\ step \in {"undo", "drop undone", "clean"} /\ (step = "undo" => moves = <<>>)
      /\ step' = IF step = "undo" THEN "drop undone" ELSE IF step = "clean" THEN "failed" ELSE "clean"
      /\ UNCHANGED <<before, stops, out, moves>>
      /\ temp' \in {temp, Files!Nothing} /\ roll' \in {roll, Files!Nothing}
  BY DEF Files!UndoDone, Files!DropUndone, Files!Clean, Files!Goto, Files!input
<1>e. Files!Nothing \in Files!Folder
  BY DEF Files!Nothing, Files!Folder
<1>1. BundleTypes'
  BY <1>g, <1>e DEF BundleInv, BundleTypes, Files!Points, Files!RollingBack
<1>2. step = "undo" => out = before
  <2> SUFFICES ASSUME step = "undo" PROVE out = before
    OBVIOUS
  <2>e. moves = <<>>
    BY <1>g
  <2>1. Due = {}
    BY <2>e DEF Due, Elements
  <2>2. \A n \in Files!Names : out[n] = before[n]
    BY <2>1 DEF BundleInv, MovingBack, Undone
  <2>3. out = [n \in Files!Names |-> out[n]] /\ before = [n \in Files!Names |-> before[n]]
    BY DEF BundleInv, BundleTypes, Files!Folder
  <2> QED BY <2>2, <2>3
<1>3. Files!Complete' = Files!Complete
  BY DEF Files!Complete
<1>4. MovingIn'
  BY <1>g DEF MovingIn, Files!Forward
<1>5. MovingBack'
  BY <1>g, <1>2, <1>3 DEF MovingBack, BundleInv
<1> QED BY <1>1, <1>4, <1>5 DEF BundleInv

\* Where a stop hits the run, all is moved back, or left to be cleaned.
LEMMA StopKeepsFiles == ASSUME BundleInv, Files!Stop PROVE BundleInv'
<1>g. /\ step \notin {"published", "failed"} /\ stops' = stops \cup {step}
      /\ UNCHANGED <<before, out, temp, roll>>
  BY DEF Files!Stop, Files!input
<1>c. Files!Complete' = Files!Complete
  BY DEF Files!Complete
<1>1. CASE step \in {"aside", "place", "complete"}
  <2>1. step' = "undo" /\ moves' = Files!Reverse(Files!StagedOrder) /\ stops = {}
    BY <1>1 DEF Files!Stop, BundleInv, MovingIn, Files!Forward
  <2>2. BundleTypes'
    BY <1>g, <2>1, ReversedFiles DEF BundleInv, BundleTypes, Files!Points, Files!RollingBack
  <2>3. Due' = Files!Names
    BY <2>1, ReversedFiles DEF Due
  <2>4. ASSUME NEW n \in Files!Names PROVE (Undone(n) \/ PutAside(n) \/ PutIn(n))'
    <3>1. Undone(n) \/ PutAside(n) \/ PutIn(n)
      BY <1>1 DEF BundleInv, MovingIn
    <3> QED BY <1>g, <3>1 DEF Undone, PutAside, PutIn
  <2>5. MovingIn'
    BY <2>1 DEF MovingIn, Files!Forward
  <2>6. MovingBack'
    BY <1>1, <1>g, <2>1, <2>3, <2>4 DEF MovingBack
  <2> QED BY <2>2, <2>5, <2>6 DEF BundleInv
<1>2. CASE step \notin {"aside", "place", "complete"}
  <2>1. step' = (IF step = "clean" THEN "failed" ELSE "clean") /\ UNCHANGED moves
    BY <1>2 DEF Files!Stop
  <2>2. BundleTypes'
    BY <1>g, <2>1 DEF BundleInv, BundleTypes, Files!Points, Files!RollingBack
  <2>3. MovingIn'
    BY <2>1 DEF MovingIn, Files!Forward
  <2>4. step \in {"check", "drop rollback", "drop temp", "undo", "drop undone", "clean"}
    BY <1>2, <1>g DEF BundleInv, BundleTypes, Files!Points, Files!Forward, Files!RollingBack
  <2>5. stops' \cap {"undo", "drop undone"} = {} =>
          out = IF stops' \cap {"drop rollback", "drop temp"} # {} THEN Files!Complete ELSE before
    <3>1. CASE step = "check"
      BY <1>g, <3>1 DEF BundleInv, MovingIn, Files!Forward
    <3>2. CASE step \in {"drop rollback", "drop temp"}
      BY <1>g, <3>2 DEF BundleInv, MovingIn, Files!Forward
    <3>3. CASE step \in {"undo", "drop undone"}
      BY <1>g, <3>3
    <3>4. CASE step = "clean"
      BY <1>g, <3>4 DEF BundleInv, MovingBack
    <3> QED BY <2>4, <3>1, <3>2, <3>3, <3>4
  <2>6. MovingBack'
    BY <1>g, <1>c, <2>1, <2>5 DEF MovingBack
  <2> QED BY <2>2, <2>3, <2>6 DEF BundleInv
<1> QED BY <1>1, <1>2

\* The invariant speaks of nothing else,
LEMMA SameFiles ==
    ASSUME BundleInv, UNCHANGED <<out, temp, roll, before, moves, step, stops>>
    PROVE  BundleInv'
<1>1. BundleTypes' /\ Files!Complete' = Files!Complete /\ Due' = Due
  BY DEF BundleInv, BundleTypes, Files!Complete, Due
<1>2. MovingIn'
  BY <1>1 DEF BundleInv, MovingIn, Undone, PutAside, PutIn
<1>3. MovingBack'
  BY <1>1 DEF BundleInv, MovingBack, Undone, PutAside, PutIn
<1> QED BY <1>1, <1>2, <1>3 DEF BundleInv

\* and every step keeps it.
LEMMA NextKeepsFiles == ASSUME BundleInv, Files!Next PROVE BundleInv'
<1>1. CASE Files!Kill
  BY <1>1, SameFiles DEF Files!Kill, Files!input
<1> QED BY <1>1, AcceptKeepsFiles, RefuseKeepsFiles, AsideKeepsFiles, AsideDoneKeepsFiles, PlaceKeepsFiles,
       PlaceDoneKeepsFiles, CommitKeepsFiles, TakeOutKeepsFiles, PutBackKeepsFiles, UndoneKeepsFiles, StopKeepsFiles
       DEF Files!Next

\* What the invariant says of the files. The manifest is due until the others
\* are moved in, since it is the last one.
LEMMA FilesKept == BundleInv => Files!AllOrNothing /\ Files!ManifestLast /\ Files!NothingLost
<1> SUFFICES ASSUME BundleInv PROVE Files!AllOrNothing /\ Files!ManifestLast /\ Files!NothingLost
  OBVIOUS
<1>t. BundleTypes
  BY DEF BundleInv
<1>n. manifest \in Files!Names
  BY BundleAssumption DEF Files!NamesAssumption
<1>c. out = [n \in Files!Names |-> out[n]]
  BY <1>t DEF BundleTypes, Files!Folder
<1>1. Files!AllOrNothing
  BY DEF BundleInv, MovingIn, MovingBack, Files!AllOrNothing
<1>2. Files!ManifestLast
  <2> SUFFICES ASSUME step \in Files!Forward
               PROVE  /\ out[manifest] = "new" => out = Files!Complete
                      /\ out[manifest] = "old" => \A n \in Files!Names : out[n] # "new"
    BY DEF Files!ManifestLast
  <2>1. CASE step = "check"
    BY <1>t, <1>n, <2>1 DEF BundleInv, MovingIn, BundleTypes
  <2>2. CASE step = "aside"
    BY <1>t, <1>n, <2>2 DEF BundleInv, MovingIn, BundleTypes, Undone, PutAside
  <2>3. CASE step = "place"
    <3>1. EndsWithManifest(moves) /\ \A n \in Files!Names : IF n \in Due THEN PutAside(n) ELSE PutIn(n)
      BY <2>3 DEF BundleInv, MovingIn
    <3>2. CASE moves = <<>>
      <4>1. \A n \in Files!Names : out[n] = "new"
        BY <3>1, <3>2 DEF Due, Elements, PutIn
      <4> QED BY <1>c, <1>n, <4>1 DEF Files!Complete
    <3>3. CASE moves # <<>>
      <4>1. Len(moves) \in DOMAIN moves
        BY <1>t, <3>3 DEF BundleTypes
      <4>2. manifest \in Due
        BY <3>1, <3>3, <4>1 DEF EndsWithManifest, Due, Elements
      <4> QED BY <1>n, <3>1, <4>2 DEF PutAside
    <3> QED BY <3>2, <3>3
  <2>4. CASE step = "complete"
    <3>1. \A n \in Files!Names : out[n] = "new"
      BY <2>4 DEF BundleInv, MovingIn, PutIn
    <3> QED BY <1>c, <1>n, <3>1 DEF Files!Complete
  <2>5. CASE step \in {"drop rollback", "drop temp", "published"}
    BY <1>n, <2>5 DEF BundleInv, MovingIn, Files!Complete
  <2> QED BY <2>1, <2>2, <2>3, <2>4, <2>5 DEF Files!Forward
<1>3. Files!NothingLost
  <2> SUFFICES ASSUME stops \cap {"undo", "drop undone"} = {}, out # Files!Complete,
                      NEW n \in Files!Names, before[n] = "old"
               PROVE  "old" \in {out[n], roll[n]}
    BY DEF Files!NothingLost, Files!OldKept
  <2>1. CASE step \in {"check", "drop undone"}
    BY <2>1 DEF BundleInv, MovingIn, MovingBack
  <2>2. CASE step \in {"aside", "place", "complete", "undo"}
    <3>1. Undone(n) \/ PutAside(n) \/ PutIn(n)
      BY <2>2 DEF BundleInv, MovingIn, MovingBack
    <3> QED BY <3>1 DEF Undone, PutAside, PutIn
  <2>3. CASE step \in {"drop rollback", "drop temp", "published"}
    BY <2>3 DEF BundleInv, MovingIn
  <2>4. CASE step \in {"clean", "failed"}
    BY <2>4 DEF BundleInv, MovingBack
  <2> QED BY <1>t, <2>1, <2>2, <2>3, <2>4 DEF BundleTypes, Files!Points, Files!Forward, Files!RollingBack
<1> QED BY <1>1, <1>2, <1>3

-----------------------------------------------------------------------------
(* One file.                                                               *)

Looks == [file : File!Files, touched : Nat, changed : Nat]
Unreplaced == {"idle", "open", "writing", "linking", "linked", "verified", "ready"}
Leaving == {"removing", "cleanup", "ended"}

FileTypes ==
    /\ path \in File!Files \cup {None}
    /\ touched \in [File!Files -> Nat] /\ changed \in [File!Files -> Nat]
    /\ step \in [FileWriters ->
                    Unreplaced \cup {"replaced", "published", "rollback", "restoring"} \cup Leaving]
    /\ mode \in [FileWriters -> [overwrite : BOOLEAN, checked : BOOLEAN]]
    /\ original \in [FileWriters -> Looks \cup {None}] /\ replacement \in [FileWriters -> Looks \cup {None}]
    /\ kept \in [FileWriters -> File!Files \cup {None}]
    /\ told \in [FileWriters -> {None, "ok", "failed"}]
    /\ interrupted \in [FileWriters -> BOOLEAN] /\ unseen \in [FileWriters -> BOOLEAN]
    /\ taken \in [File!Files -> FileWriters \cup {None}]

\* The file that a writer looked at first is as it was then.
AsSeen(f, w) == original[w] # None /\ f = original[w].file /\ touched[f] = original[w].touched

\* What a writer took off the path, it had seen, and can put it back as long as
\* it may have to.
TookAsSeen(w) ==
    \A f \in File!Files : taken[f] = w =>
        /\ path # f
        /\ f = w \/ unseen[w] \/ (AsSeen(f, w) /\ (mode[w].checked => kept[w] = f \/ told[w] = "ok"))

\* Before its renaming its file is nowhere.
Unbegun(w) == step[w] \in Unreplaced => changed[w] = 0 /\ \A f \in File!Files : taken[f] # w

\* Each change of the content changes the ctime.
LookedEarlier(w) ==
    original[w] # None =>
        LET f == original[w].file
        IN  /\ original[w].touched <= touched[f]
            /\ touched[f] - original[w].touched <= changed[f] - original[w].changed

\* What a writer relies on at each step, unless it was changed unseen.
Relies(w) ==
    /\ step[w] \in {"idle", "open", "writing", "linking"} => kept[w] = None
    /\ step[w] = "linked" => kept[w] # None /\ original[w] # None
    /\ step[w] = "verified" => unseen[w] \/ kept[w] = None \/ AsSeen(kept[w], w)
    /\ step[w] = "ready" =>
        unseen[w] \/ path = None \/ (AsSeen(path, w) /\ (mode[w].checked => kept[w] = path))
    /\ step[w] \in {"replaced", "restoring"} => unseen[w] \/ path = w
    /\ step[w] \in {"published", "rollback"} => unseen[w] \/ replacement[w] = None \/ replacement[w].file = w
    /\ step[w] = "removing" => told[w] = "ok" \/ unseen[w] \/ \A f \in File!Files : taken[f] # w

\* A writer knows its own file as long as only it has changed it.
KnowsItsOwn(w) ==
    /\ kept[w] # w
    /\ told[w] = "ok" => step[w] \in Leaving
    /\ step[w] \in {"published", "rollback"} /\ path = w /\ changed[w] = 1 =>
        replacement[w] # None /\ replacement[w].file = w /\ replacement[w].changed = 1
    /\ told[w] = "failed" /\ mode[w].checked /\ ~interrupted[w] /\ step[w] \in Leaving /\ path = w =>
        changed[w] > 1

FileFacts(w) == TookAsSeen(w) /\ Unbegun(w) /\ LookedEarlier(w) /\ Relies(w) /\ KnowsItsOwn(w)

\* A file that is somewhere was put there.
Counted == \A w \in FileWriters : File!Linked(w) => changed[w] > 0

FileInv == FileTypes /\ Counted /\ \A w \in FileWriters : FileFacts(w)
\* What belongs to a writer alone, as far as others see it.
LocalsStay(w) ==
    /\ step'[w] = step[w] /\ mode'[w] = mode[w]
    /\ original'[w] = original[w] /\ replacement'[w] = replacement[w] /\ kept'[w] = kept[w]
    /\ told'[w] = told[w] /\ interrupted'[w] = interrupted[w]

\* What others may do to the file of a writer: it can put it back, which the
\* counts show; and what it does where the writer does not look is unseen.
Disturbs(w) ==
    /\ unseen[w] => unseen'[w]
    /\ step[w] \in {"ready", "replaced", "restoring"} /\ path' # path => unseen'[w]
    /\ step[w] \in {"ready", "verified"} /\ touched' # touched => unseen'[w]
    /\ \A f \in File!Files : taken'[f] = w => taken[f] = w /\ path' # f
    /\ path' = w => path = w \/ changed'[w] > 1
    /\ changed[w] = 0 => changed'[w] = 0

Aged ==
    \A f \in File!Files :
        /\ touched[f] <= touched'[f] /\ touched'[f] - touched[f] <= changed'[f] - changed[f]
        /\ f # path => touched'[f] = touched[f]

\* What a file is known to have been stays true of it.
LEMMA LookedEarlierStays ==
    ASSUME FileTypes, FileTypes', Aged, NEW w \in FileWriters, LookedEarlier(w), original'[w] = original[w]
    PROVE  LookedEarlier(w)'
<1> SUFFICES ASSUME original[w] # None
             PROVE  /\ original[w].touched <= touched'[original[w].file]
                    /\ touched'[original[w].file] - original[w].touched
                          <= changed'[original[w].file] - original[w].changed
  BY DEF LookedEarlier
<1> DEFINE f == original[w].file
           a == original[w].touched
           b == original[w].changed
<1>1. f \in File!Files /\ a \in Nat /\ b \in Nat
  BY DEF FileTypes, Looks
<1>2. a <= touched[f] /\ touched[f] - a <= changed[f] - b
  BY DEF LookedEarlier
<1> HIDE DEF f, a, b
<1>3. /\ touched[f] \in Nat /\ touched'[f] \in Nat /\ changed[f] \in Nat /\ changed'[f] \in Nat
      /\ touched[f] <= touched'[f] /\ touched'[f] - touched[f] <= changed'[f] - changed[f]
  BY <1>1 DEF FileTypes, Aged
<1>4. a <= touched'[f] /\ touched'[f] - a <= changed'[f] - b
  BY <1>1, <1>2, <1>3
<1> QED BY <1>4 DEF f, a, b

\* A step of one leaves the facts of another.
LEMMA OthersKeepFacts ==
    ASSUME FileInv, FileTypes', Aged, NEW w \in FileWriters, LocalsStay(w), Disturbs(w)
    PROVE  FileFacts(w)'
<1>t. FileTypes /\ FileFacts(w) /\ w \in File!Files
  BY DEF FileInv, File!Files
<1>a. ASSUME NEW f \in File!Files
      PROVE  /\ touched[f] \in Nat /\ touched'[f] \in Nat /\ changed[f] \in Nat /\ changed'[f] \in Nat
             /\ touched[f] <= touched'[f] /\ changed[f] <= changed'[f]
             /\ touched'[f] - touched[f] <= changed'[f] - changed[f]
             /\ f # path => touched'[f] = touched[f]
  <2>1. touched[f] \in Nat /\ touched'[f] \in Nat /\ changed[f] \in Nat /\ changed'[f] \in Nat
    BY <1>t DEF FileTypes
  <2>2. /\ touched[f] <= touched'[f] /\ touched'[f] - touched[f] <= changed'[f] - changed[f]
        /\ f # path => touched'[f] = touched[f]
    BY DEF Aged
  <2> QED BY <2>1, <2>2
<1>1. TookAsSeen(w)'
  <2> SUFFICES ASSUME NEW f \in File!Files, taken'[f] = w
               PROVE  /\ path' # f
                      /\ f = w \/ unseen'[w]
                         \/ (AsSeen(f, w)' /\ (mode'[w].checked => kept'[w] = f \/ told'[w] = "ok"))
    BY DEF TookAsSeen
  <2>1. taken[f] = w /\ path' # f
    BY DEF Disturbs
  <2>2. /\ path # f
        /\ f = w \/ unseen[w] \/ (AsSeen(f, w) /\ (mode[w].checked => kept[w] = f \/ told[w] = "ok"))
    BY <1>t, <2>1 DEF FileFacts, TookAsSeen
  <2>3. touched'[f] = touched[f]
    BY <1>a, <2>2
  <2> QED BY <2>1, <2>2, <2>3 DEF LocalsStay, Disturbs, AsSeen
<1>2. Unbegun(w)'
  BY <1>t DEF FileFacts, Unbegun, LocalsStay, Disturbs
<1>3. LookedEarlier(w)'
  BY <1>t, LookedEarlierStays DEF FileFacts, LocalsStay
<1>4. Relies(w)'
  <2> USE DEF LocalsStay
  <2>r. Relies(w)
    BY <1>t DEF FileFacts
  <2>1. step'[w] \in {"idle", "open", "writing", "linking"} => kept'[w] = None
    BY <2>r DEF Relies
  <2>2. step'[w] = "linked" => kept'[w] # None /\ original'[w] # None
    BY <2>r DEF Relies
  <2>3. step'[w] = "verified" => unseen'[w] \/ kept'[w] = None \/ AsSeen(kept[w], w)'
    BY <2>r DEF Relies, Disturbs, AsSeen
  <2>4. step'[w] = "ready" =>
          unseen'[w] \/ path' = None \/ (AsSeen(path, w)' /\ (mode'[w].checked => kept'[w] = path'))
    BY <2>r DEF Relies, Disturbs, AsSeen
  <2>5. step'[w] \in {"replaced", "restoring"} => unseen'[w] \/ path' = w
    BY <2>r DEF Relies, Disturbs
  <2>6. step'[w] \in {"published", "rollback"} =>
          unseen'[w] \/ replacement'[w] = None \/ replacement'[w].file = w
    BY <2>r DEF Relies, Disturbs
  <2>7. step'[w] = "removing" => told'[w] = "ok" \/ unseen'[w] \/ \A f \in File!Files : taken'[f] # w
    BY <2>r DEF Relies, Disturbs
  <2> QED BY <2>1, <2>2, <2>3, <2>4, <2>5, <2>6, <2>7 DEF Relies
<1>5. KnowsItsOwn(w)'
  <2>1. KnowsItsOwn(w) /\ (path = w => changed[w] > 0)
    BY <1>t DEF FileFacts, FileInv, Counted, File!Linked
  <2>2. /\ changed[w] \in Nat /\ changed'[w] \in Nat /\ changed[w] <= changed'[w]
        /\ path' = w => path = w \/ changed'[w] > 1
    BY <1>t, <1>a DEF Disturbs
  <2> QED BY <2>1, <2>2 DEF KnowsItsOwn, LocalsStay
<1> QED BY <1>1, <1>2, <1>3, <1>4, <1>5 DEF FileFacts

\* Most steps change nothing that others see.
Quiet(w) ==
    /\ UNCHANGED <<path, touched, changed, mode, kept, taken>>
    /\ \A v \in FileWriters \ {w} : LocalsStay(v) /\ unseen'[v] = unseen[v]

\* Then it is enough to look at the writer itself.
LEMMA QuietKeepsFile ==
    ASSUME FileInv, NEW w \in FileWriters, FileTypes', Quiet(w), FileFacts(w)'
    PROVE  FileInv'
<1>1. Counted'
  BY DEF FileInv, Counted, File!Linked, Quiet
<1>2. Aged
  <2> SUFFICES ASSUME NEW f \in File!Files
               PROVE  touched[f] <= touched[f] /\ touched[f] - touched[f] <= changed[f] - changed[f]
    BY DEF Aged, Quiet
  <2>1. touched[f] \in Nat /\ changed[f] \in Nat
    BY DEF FileInv, FileTypes
  <2> QED BY <2>1
<1>3. ASSUME NEW v \in FileWriters \ {w} PROVE FileFacts(v)'
  <2>0. FileTypes /\ v \in FileWriters /\ v \in File!Files /\ TookAsSeen(v)
    BY DEF FileInv, FileFacts, File!Files
  <2>1. \A f \in File!Files : taken'[f] = v => taken[f] = v /\ path' # f
    BY <2>0 DEF Quiet, TookAsSeen
  <2>2. Disturbs(v)
    BY <2>1 DEF Disturbs, Quiet
  <2> QED BY <1>2, <2>2, OthersKeepFacts DEF Quiet
<1> QED BY <1>1, <1>3 DEF FileInv

\* Until its renaming a writer has nothing on the path, so that it cannot be late.
LEMMA UnreplacedFacts ==
    ASSUME FileTypes, NEW w \in FileWriters, FileFacts(w), path = w => changed[w] > 0,
           step[w] \in Unreplaced, UNCHANGED <<path, mode, taken, unseen>>, changed'[w] = changed[w],
           kept'[w] # w, told'[w] # "ok", step'[w] \in Unreplaced \cup Leaving,
           LookedEarlier(w)', Relies(w)'
    PROVE  FileFacts(w)'
<1>1. changed[w] = 0 /\ \A f \in File!Files : taken[f] # w
  BY DEF FileFacts, Unbegun
<1>2. TookAsSeen(w)' /\ Unbegun(w)'
  BY <1>1 DEF TookAsSeen, Unbegun
<1>3. path # w
  BY <1>1
<1>4. KnowsItsOwn(w)'
  BY <1>3 DEF KnowsItsOwn, Unreplaced, Leaving
<1> QED BY <1>2, <1>4 DEF FileFacts

\* A writer may refuse to begin.
LEMMA StartKeepsFile ==
    ASSUME FileInv, NEW w \in FileWriters, File!Start(w), UNCHANGED <<mode, hands>>
    PROVE  FileInv'
<1>t. FileTypes /\ FileFacts(w) /\ (path = w => changed[w] > 0)
  BY DEF FileInv, Counted, File!Linked
<1>o. told[w] # "ok" /\ step[w] \in Unreplaced /\ kept[w] # w
  BY <1>t DEF FileFacts, KnowsItsOwn, File!Start, Unreplaced, Leaving
<1>n. None # "ok" /\ None # "failed"
  BY FileAssumption DEF File!FilesAssumption
<1>g. /\ step[w] = "idle"
      /\ UNCHANGED <<path, touched, changed, original, replacement, mode, kept, interrupted, unseen, taken>>
      /\ \/ step' = [step EXCEPT ![w] = "ended"] /\ told' = [told EXCEPT ![w] = "failed"]
         \/ step' = [step EXCEPT ![w] = "open"] /\ told' = told
  BY DEF File!Start, File!Goes, File!Fails, File!disk, File!seen, File!history
<1>types. FileTypes'
  BY <1>t, <1>g DEF FileTypes, Unreplaced, Leaving
<1>quiet. Quiet(w)
  BY <1>t, <1>g DEF Quiet, LocalsStay, FileTypes
<1>l. LookedEarlier(w)'
  BY <1>t, <1>g DEF FileFacts, LookedEarlier
<1>r. Relies(w)'
  BY <1>t, <1>g DEF FileTypes, FileFacts, Relies
<1>facts. FileFacts(w)'
  <2>1. kept'[w] # w /\ told'[w] # "ok" /\ step'[w] \in Unreplaced \cup Leaving
    BY <1>t, <1>o, <1>g DEF FileTypes, Unreplaced, Leaving
  <2> QED BY <1>t, <1>o, <1>g, <1>l, <1>r, <2>1, UnreplacedFacts
<1> QED BY <1>types, <1>quiet, <1>facts, QuietKeepsFile

\* It looks at the path for the first time,
LEMMA OpenKeepsFile ==
    ASSUME FileInv, NEW w \in FileWriters, File!Open(w), UNCHANGED <<mode, hands>>
    PROVE  FileInv'
<1>t. FileTypes /\ FileFacts(w) /\ (path = w => changed[w] > 0)
  BY DEF FileInv, Counted, File!Linked
<1>o. told[w] # "ok" /\ step[w] \in Unreplaced /\ kept[w] # w
  BY <1>t DEF FileFacts, KnowsItsOwn, File!Open, Unreplaced, Leaving
<1>n. None # "ok" /\ None # "failed"
  BY FileAssumption DEF File!FilesAssumption
<1>g. /\ step[w] = "open" /\ step' = [step EXCEPT ![w] = "writing"]
      /\ original' = [original EXCEPT ![w] = File!Stat(path)]
      /\ UNCHANGED <<path, touched, changed, replacement, mode, told, kept, interrupted, unseen, taken>>
  BY DEF File!Open, File!Goes, File!Fails, File!disk, File!seen, File!history
<1>s. File!Stat(path) =
        IF path = None THEN None ELSE [file |-> path, touched |-> touched[path], changed |-> changed[path]]
  BY DEF File!Stat
<1>e. File!Stat(path) \in Looks \cup {None}
  BY <1>t, <1>s DEF FileTypes, Looks
<1>types. FileTypes'
  BY <1>t, <1>g, <1>e DEF FileTypes, Unreplaced, Leaving
<1>quiet. Quiet(w)
  BY <1>t, <1>g DEF Quiet, LocalsStay, FileTypes
<1>l. LookedEarlier(w)'
  <2>1. CASE path = None
    BY <1>t, <1>g, <1>s, <2>1 DEF FileTypes, LookedEarlier
  <2>2. CASE path # None
    <3>1. /\ original'[w] = [file |-> path, touched |-> touched[path], changed |-> changed[path]]
          /\ touched[path] \in Nat /\ changed[path] \in Nat
      BY <1>t, <1>g, <1>s, <2>2 DEF FileTypes
    <3>2. /\ original'[w].file = path /\ original'[w].touched = touched[path]
          /\ original'[w].changed = changed[path]
      BY <3>1
    <3>3. touched[path] <= touched[path] /\ touched[path] - touched[path] <= changed[path] - changed[path]
      BY <3>1
    <3> QED BY <1>g, <3>2, <3>3 DEF LookedEarlier
  <2> QED BY <2>1, <2>2
<1>r. Relies(w)'
  BY <1>t, <1>g DEF FileTypes, FileFacts, Relies
<1>facts. FileFacts(w)'
  <2>1. kept'[w] # w /\ told'[w] # "ok" /\ step'[w] \in Unreplaced \cup Leaving
    BY <1>t, <1>o, <1>g DEF FileTypes, Unreplaced, Leaving
  <2> QED BY <1>t, <1>o, <1>g, <1>l, <1>r, <2>1, UnreplacedFacts
<1> QED BY <1>types, <1>quiet, <1>facts, QuietKeepsFile

\* What looks the same is the same file, with the same content.
LEMMA SameFile ==
    ASSUME FileTypes, NEW w \in FileWriters, LookedEarlier(w), File!Same(File!Stat(path), original[w])
    PROVE  path = None \/ AsSeen(path, w)
<1> SUFFICES ASSUME path # None PROVE AsSeen(path, w)
  OBVIOUS
<1>n. None \notin Looks /\ None \notin [file : File!Files, changed : Nat]
  BY FileAssumption DEF File!FilesAssumption, Looks
<1>p. path \in File!Files /\ touched[path] \in Nat /\ changed[path] \in Nat
  BY DEF FileTypes
<1> DEFINE s == [file |-> path, touched |-> touched[path], changed |-> changed[path]]
<1>1. File!Stat(path) = s /\ s \in Looks
  BY <1>p DEF File!Stat, Looks
<1>2. s # None /\ s.file = path /\ s.touched = touched[path] /\ s.changed = changed[path]
  BY <1>1, <1>n
<1> HIDE DEF s
<1>3. File!Version(s) = [file |-> path, changed |-> changed[path]] /\ File!Version(s) # None
  BY <1>2, <1>n, <1>p DEF File!Version
<1>4. original[w] # None
  BY <1>1, <1>3 DEF File!Same, File!Version
<1>5. File!Version(original[w]) = [file |-> original[w].file, changed |-> original[w].changed]
  BY <1>4 DEF File!Version
<1>6. original[w].file = path /\ original[w].changed = changed[path]
  BY <1>1, <1>3, <1>5 DEF File!Same
<1>7. original[w].touched \in Nat
  BY <1>4 DEF FileTypes, Looks
<1>8. original[w].touched <= touched[path] /\ touched[path] - original[w].touched <= changed[path] - changed[path]
  BY <1>4, <1>6 DEF LookedEarlier
<1>9. original[w].touched = touched[path]
  BY <1>p, <1>7, <1>8
<1> QED BY <1>4, <1>6, <1>9 DEF AsSeen

\* looks again when its content is written,
LEMMA CompareKeepsFile ==
    ASSUME FileInv, NEW w \in FileWriters, File!Compare(w), UNCHANGED <<mode, hands>>
    PROVE  FileInv'
<1>t. FileTypes /\ FileFacts(w) /\ (path = w => changed[w] > 0)
  BY DEF FileInv, Counted, File!Linked
<1>o. told[w] # "ok" /\ step[w] \in Unreplaced /\ kept[w] # w
  BY <1>t DEF FileFacts, KnowsItsOwn, File!Compare, Unreplaced, Leaving
<1>n. None # "ok" /\ None # "failed"
  BY FileAssumption DEF File!FilesAssumption
<1>g. /\ step[w] = "writing"
      /\ UNCHANGED <<path, touched, changed, original, replacement, mode, kept, interrupted, unseen, taken>>
      /\ \/ step' = [step EXCEPT ![w] = "cleanup"] /\ told' = [told EXCEPT ![w] = "failed"]
         \/ /\ step' = [step EXCEPT ![w] = IF mode[w].checked THEN "linking" ELSE "ready"] /\ told' = told
            /\ File!Same(File!Stat(path), original[w])
  BY DEF File!Compare, File!Goes, File!Fails, File!disk, File!seen, File!history
<1>types. FileTypes'
  BY <1>t, <1>g DEF FileTypes, Unreplaced, Leaving
<1>quiet. Quiet(w)
  BY <1>t, <1>g DEF Quiet, LocalsStay, FileTypes
<1>l. LookedEarlier(w)'
  BY <1>t, <1>g DEF FileFacts, LookedEarlier
<1>r. Relies(w)'
  <2>1. CASE step'[w] = "ready"
    <3>1. /\ step' = [step EXCEPT ![w] = IF mode[w].checked THEN "linking" ELSE "ready"]
          /\ File!Same(File!Stat(path), original[w])
      BY <1>t, <1>g, <2>1 DEF FileTypes
    <3>2. ~mode[w].checked
      BY <1>t, <2>1, <3>1 DEF FileTypes
    <3>3. path = None \/ AsSeen(path, w)
      BY <1>t, <3>1, SameFile DEF FileFacts
    <3> QED BY <1>g, <2>1, <3>2, <3>3 DEF Relies, AsSeen
  <2>2. CASE step'[w] # "ready"
    <3>1. step'[w] \in {"cleanup", "linking"}
      BY <1>t, <1>g, <2>2 DEF FileTypes
    <3> QED BY <1>t, <1>g, <3>1 DEF FileFacts, Relies
  <2> QED BY <2>1, <2>2
<1>facts. FileFacts(w)'
  <2>1. kept'[w] # w /\ told'[w] # "ok" /\ step'[w] \in Unreplaced \cup Leaving
    BY <1>t, <1>o, <1>g DEF FileTypes, Unreplaced, Leaving
  <2> QED BY <1>t, <1>o, <1>g, <1>l, <1>r, <2>1, UnreplacedFacts
<1> QED BY <1>types, <1>quiet, <1>facts, QuietKeepsFile

\* finds that its link is what it had seen,
LEMMA VerifyKeepsFile ==
    ASSUME FileInv, NEW w \in FileWriters, File!Verify(w), UNCHANGED <<mode, hands>>
    PROVE  FileInv'
<1>t. FileTypes /\ FileFacts(w) /\ (path = w => changed[w] > 0)
  BY DEF FileInv, Counted, File!Linked
<1>o. told[w] # "ok" /\ step[w] \in Unreplaced /\ kept[w] # w
  BY <1>t DEF FileFacts, KnowsItsOwn, File!Verify, Unreplaced, Leaving
<1>n. None # "ok" /\ None # "failed"
  BY FileAssumption DEF File!FilesAssumption
<1>g. /\ step[w] = "linked"
      /\ UNCHANGED <<path, touched, changed, original, replacement, mode, kept, interrupted, unseen, taken>>
      /\ \/ step' = [step EXCEPT ![w] = "removing"] /\ told' = [told EXCEPT ![w] = "failed"]
         \/ step' = [step EXCEPT ![w] = "verified"] /\ told' = told /\ File!LinkedTheOriginal(w)
  BY DEF File!Verify, File!Goes, File!Fails, File!disk, File!seen, File!history
<1>types. FileTypes'
  BY <1>t, <1>g DEF FileTypes, Unreplaced, Leaving
<1>quiet. Quiet(w)
  BY <1>t, <1>g DEF Quiet, LocalsStay, FileTypes
<1>l. LookedEarlier(w)'
  BY <1>t, <1>g DEF FileFacts, LookedEarlier
<1>r. Relies(w)'
  <2>1. CASE step'[w] = "verified"
    <3>1. File!LinkedTheOriginal(w) /\ original[w] # None
      BY <1>t, <1>g, <2>1 DEF FileTypes, FileFacts, Relies
    <3>2. AsSeen(kept[w], w)
      BY <3>1 DEF AsSeen, File!LinkedTheOriginal
    <3> QED BY <1>g, <2>1, <3>2 DEF Relies, AsSeen
  <2>2. CASE step'[w] # "verified"
    <3>1. step'[w] = "removing" /\ \A f \in File!Files : taken'[f] # w
      BY <1>t, <1>g, <2>2 DEF FileTypes, FileFacts, Unbegun, Unreplaced
    <3> QED BY <3>1 DEF Relies
  <2> QED BY <2>1, <2>2
<1>facts. FileFacts(w)'
  <2>1. kept'[w] # w /\ told'[w] # "ok" /\ step'[w] \in Unreplaced \cup Leaving
    BY <1>t, <1>o, <1>g DEF FileTypes, Unreplaced, Leaving
  <2> QED BY <1>t, <1>o, <1>g, <1>l, <1>r, <2>1, UnreplacedFacts
<1> QED BY <1>types, <1>quiet, <1>facts, QuietKeepsFile

\* Two names that look the same are links of one file.
LEMMA SameStat ==
    ASSUME FileTypes, NEW g \in File!Files \cup {None}, File!Same(File!Stat(path), File!Stat(g))
    PROVE  path = g
<1>n. None \notin Looks /\ None \notin [file : File!Files, changed : Nat]
  BY FileAssumption DEF File!FilesAssumption, Looks
<1>1. ASSUME NEW f \in File!Files, f # None
      PROVE  /\ File!Version(File!Stat(f)) = [file |-> f, changed |-> changed[f]]
             /\ File!Version(File!Stat(f)) # None
  <2> DEFINE s == [file |-> f, touched |-> touched[f], changed |-> changed[f]]
  <2>1. s \in Looks /\ changed[f] \in Nat
    BY DEF FileTypes, Looks
  <2>2. s # None /\ s.file = f /\ s.changed = changed[f] /\ File!Stat(f) = s
    BY <1>1, <1>n, <2>1 DEF File!Stat
  <2> HIDE DEF s
  <2>3. [file |-> f, changed |-> changed[f]] \in [file : File!Files, changed : Nat]
    BY <2>1
  <2> QED BY <1>n, <2>2, <2>3 DEF File!Version
<1>2. File!Version(File!Stat(None)) = None
  BY DEF File!Stat, File!Version
<1>3. File!Version(File!Stat(path)) = File!Version(File!Stat(g)) /\ path \in File!Files \cup {None}
  BY DEF File!Same, FileTypes
<1>4. CASE path # None /\ g # None
  <2>1. [file |-> path, changed |-> changed[path]] = [file |-> g, changed |-> changed[g]]
    BY <1>1, <1>3, <1>4
  <2> QED BY <2>1
<1> QED BY <1>1, <1>2, <1>3, <1>4

\* and still at the path.
LEMMA RecheckKeepsFile ==
    ASSUME FileInv, NEW w \in FileWriters, File!Recheck(w), UNCHANGED <<mode, hands>>
    PROVE  FileInv'
<1>t. FileTypes /\ FileFacts(w) /\ (path = w => changed[w] > 0)
  BY DEF FileInv, Counted, File!Linked
<1>o. told[w] # "ok" /\ step[w] \in Unreplaced /\ kept[w] # w
  BY <1>t DEF FileFacts, KnowsItsOwn, File!Recheck, Unreplaced, Leaving
<1>n. None # "ok" /\ None # "failed"
  BY FileAssumption DEF File!FilesAssumption
<1>g. /\ step[w] = "verified"
      /\ UNCHANGED <<path, touched, changed, original, replacement, mode, kept, interrupted, unseen, taken>>
      /\ \/ step' = [step EXCEPT ![w] = "removing"] /\ told' = [told EXCEPT ![w] = "failed"]
         \/ step' = [step EXCEPT ![w] = "ready"] /\ told' = told /\ File!Same(File!Stat(path), File!Stat(kept[w]))
  BY DEF File!Recheck, File!Goes, File!Fails, File!disk, File!seen, File!history
<1>types. FileTypes'
  BY <1>t, <1>g DEF FileTypes, Unreplaced, Leaving
<1>quiet. Quiet(w)
  BY <1>t, <1>g DEF Quiet, LocalsStay, FileTypes
<1>l. LookedEarlier(w)'
  BY <1>t, <1>g DEF FileFacts, LookedEarlier
<1>r. Relies(w)'
  <2>1. CASE step'[w] = "ready"
    <3>1. File!Same(File!Stat(path), File!Stat(kept[w]))
      BY <1>t, <1>g, <2>1 DEF FileTypes
    <3>2. path = kept[w]
      BY <1>t, <3>1, SameStat DEF FileTypes
    <3>3. unseen[w] \/ kept[w] = None \/ AsSeen(kept[w], w)
      BY <1>t, <1>g DEF FileFacts, Relies
    <3> QED BY <1>g, <2>1, <3>2, <3>3 DEF Relies, AsSeen
  <2>2. CASE step'[w] # "ready"
    <3>1. step'[w] = "removing" /\ \A f \in File!Files : taken'[f] # w
      BY <1>t, <1>g, <2>2 DEF FileTypes, FileFacts, Unbegun, Unreplaced
    <3> QED BY <3>1 DEF Relies
  <2> QED BY <2>1, <2>2
<1>facts. FileFacts(w)'
  <2>1. kept'[w] # w /\ told'[w] # "ok" /\ step'[w] \in Unreplaced \cup Leaving
    BY <1>t, <1>o, <1>g DEF FileTypes, Unreplaced, Leaving
  <2> QED BY <1>t, <1>o, <1>g, <1>l, <1>r, <2>1, UnreplacedFacts
<1> QED BY <1>types, <1>quiet, <1>facts, QuietKeepsFile

\* It remembers what is there after its renaming, and reports.
LEMMA ReplacedKeepsFile ==
    ASSUME FileInv, NEW w \in FileWriters, File!Replaced(w), UNCHANGED <<mode, hands>>
    PROVE  FileInv'
<1>t. FileTypes /\ FileFacts(w) /\ (path = w => changed[w] > 0)
  BY DEF FileInv, Counted, File!Linked
<1>n. None # "ok" /\ None # "failed"
  BY FileAssumption DEF File!FilesAssumption
<1>g. /\ step[w] = "replaced" /\ step' = [step EXCEPT ![w] = "published"]
      /\ replacement' = [replacement EXCEPT ![w] = File!Stat(path)]
      /\ UNCHANGED <<path, touched, changed, original, mode, told, kept, interrupted, unseen, taken>>
  BY DEF File!Replaced, File!Goes, File!Fails, File!disk, File!seen, File!history
<1>s. File!Stat(path) =
        IF path = None THEN None ELSE [file |-> path, touched |-> touched[path], changed |-> changed[path]]
  BY DEF File!Stat
<1>e. File!Stat(path) \in Looks \cup {None}
  BY <1>t, <1>s DEF FileTypes, Looks
<1>quiet. Quiet(w)
  BY <1>t, <1>g DEF Quiet, LocalsStay, FileTypes
<1>types. FileTypes'
  BY <1>t, <1>g, <1>e DEF FileTypes, Unreplaced, Leaving
<1>l. LookedEarlier(w)'
  BY <1>t, <1>g DEF FileFacts, LookedEarlier
<1>k. TookAsSeen(w)'
  BY <1>t, <1>g DEF FileTypes, FileFacts, TookAsSeen, AsSeen
<1>u. Unbegun(w)'
  BY <1>t, <1>g DEF FileTypes, Unbegun, Unreplaced, Leaving
<1>r. Relies(w)'
  <2>1. unseen[w] \/ path = w
    BY <1>t, <1>g DEF FileFacts, Relies
  <2>2. path = w => File!Stat(path) = None \/ File!Stat(path).file = w
    BY <1>s
  <2>3. unseen'[w] \/ replacement'[w] = None \/ replacement'[w].file = w
    BY <1>t, <1>g, <2>1, <2>2 DEF FileTypes
  <2> QED BY <1>t, <1>g, <2>3 DEF FileTypes, Relies
<1>o. KnowsItsOwn(w)'
  <2>1. kept[w] # w /\ told[w] # "ok"
    BY <1>t, <1>g DEF FileFacts, KnowsItsOwn, Leaving
  <2>2. path = w /\ changed[w] = 1 =>
          replacement'[w] # None /\ replacement'[w].file = w /\ replacement'[w].changed = 1
    <3> SUFFICES ASSUME path = w, changed[w] = 1
                 PROVE  replacement'[w] # None /\ replacement'[w].file = w /\ replacement'[w].changed = 1
      OBVIOUS
    <3>1. path \in File!Files /\ path # None
      BY FileAssumption DEF File!FilesAssumption, File!Files
    <3>2. replacement'[w] = [file |-> w, touched |-> touched[w], changed |-> changed[w]]
      BY <1>t, <1>g, <1>s, <3>1 DEF FileTypes
    <3>3. replacement'[w] \in Looks /\ None \notin Looks
      BY <1>t, <3>1, <3>2, FileAssumption DEF File!FilesAssumption, Looks, FileTypes
    <3> QED BY <3>2, <3>3
  <2> QED BY <1>t, <1>g, <2>1, <2>2 DEF FileTypes, KnowsItsOwn, Leaving
<1>facts. FileFacts(w)'
  BY <1>k, <1>u, <1>l, <1>r, <1>o DEF FileFacts
<1> QED BY <1>types, <1>quiet, <1>facts, QuietKeepsFile

\* It reports, or finds that the time is over.
LEMMA SyncKeepsFile ==
    ASSUME FileInv, NEW w \in FileWriters, File!Sync(w), UNCHANGED <<mode, hands>>
    PROVE  FileInv'
<1>t. FileTypes /\ FileFacts(w) /\ (path = w => changed[w] > 0)
  BY DEF FileInv, Counted, File!Linked
<1>n. None # "ok" /\ None # "failed"
  BY FileAssumption DEF File!FilesAssumption
<1>g. /\ step[w] = "published"
     
      /\ UNCHANGED <<path, touched, changed, original, replacement, mode, kept, interrupted, unseen, taken>>
      /\ \/ step' = [step EXCEPT ![w] = "removing"] /\ told' = [told EXCEPT ![w] = "ok"]
         \/ /\ step' = [step EXCEPT ![w] = IF mode[w].checked THEN "rollback" ELSE "cleanup"]
            /\ told' = [told EXCEPT ![w] = "failed"]
  BY DEF File!Sync, File!Goes, File!Fails, File!disk, File!seen, File!history
<1>p. told[w] # "ok"
  BY <1>t, <1>g DEF FileFacts, KnowsItsOwn, Leaving
<1>quiet. Quiet(w)
  BY <1>t, <1>g DEF Quiet, LocalsStay, FileTypes
<1>types. FileTypes'
  BY <1>t, <1>g DEF FileTypes, Unreplaced, Leaving
<1>l. LookedEarlier(w)'
  BY <1>t, <1>g DEF FileFacts, LookedEarlier
<1>k. TookAsSeen(w)'
  BY <1>t, <1>g, <1>p DEF FileTypes, FileFacts, TookAsSeen, AsSeen
<1>u. Unbegun(w)'
  BY <1>t, <1>g DEF FileTypes, Unbegun, Unreplaced, Leaving
<1>r. Relies(w)'
  BY <1>t, <1>g DEF FileTypes, FileFacts, Relies
<1>o. KnowsItsOwn(w)'
  BY <1>t, <1>g DEF FileTypes, FileFacts, KnowsItsOwn, Leaving
<1>facts. FileFacts(w)'
  BY <1>k, <1>u, <1>l, <1>r, <1>o DEF FileFacts
<1> QED BY <1>types, <1>quiet, <1>facts, QuietKeepsFile

\* What a writer takes for its own is the same as what is there, if nobody
\* changed it.
LEMMA SameAsReplacement ==
    ASSUME FileTypes, NEW w \in FileWriters, path \in File!Files, replacement[w] # None
    PROVE  File!Same(File!Stat(path), replacement[w]) <=>
             replacement[w].file = path /\ replacement[w].changed = changed[path]
<1>n. None \notin Looks /\ None \notin File!Files
  BY FileAssumption DEF File!FilesAssumption, Looks
<1> DEFINE s == [file |-> path, touched |-> touched[path], changed |-> changed[path]]
<1>1. s \in Looks
  BY DEF FileTypes, Looks
<1>2. s # None /\ s.file = path /\ s.changed = changed[path] /\ File!Stat(path) = s
  BY <1>1, <1>n DEF File!Stat
<1> HIDE DEF s
<1>3. File!Same(s, replacement[w]) <=>
        [file |-> path, changed |-> changed[path]]
            = [file |-> replacement[w].file, changed |-> replacement[w].changed]
  BY <1>2 DEF File!Same, File!Version
<1> QED BY <1>2, <1>3

\* It takes back what is its own.
LEMMA RollbackKeepsFile ==
    ASSUME FileInv, NEW w \in FileWriters, File!Rollback(w), UNCHANGED <<mode, hands>>
    PROVE  FileInv'
<1>t. FileTypes /\ FileFacts(w) /\ (path = w => changed[w] > 0)
  BY DEF FileInv, Counted, File!Linked
<1>n. None # "ok" /\ None # "failed"
  BY FileAssumption DEF File!FilesAssumption
<1>g. /\ step[w] = "rollback"
      /\ UNCHANGED <<path, touched, changed, original, replacement, mode, told, kept, interrupted, unseen, taken>>
      /\ step' = [step EXCEPT ![w] =
                    IF replacement[w] # None /\ path # None /\ File!Same(File!Stat(path), replacement[w])
                    THEN "restoring" ELSE "cleanup"]
  BY DEF File!Rollback, File!Goes, File!Fails, File!disk, File!seen, File!history
<1>p. told[w] # "ok"
  BY <1>t, <1>g DEF FileFacts, KnowsItsOwn, Leaving
<1>s. path # None /\ replacement[w] # None =>
        (File!Same(File!Stat(path), replacement[w]) <=>
            replacement[w].file = path /\ replacement[w].changed = changed[path])
  BY <1>t, SameAsReplacement DEF FileTypes
<1>quiet. Quiet(w)
  BY <1>t, <1>g DEF Quiet, LocalsStay, FileTypes
<1>types. FileTypes'
  BY <1>t, <1>g DEF FileTypes, Unreplaced, Leaving
<1>l. LookedEarlier(w)'
  BY <1>t, <1>g DEF FileFacts, LookedEarlier
<1>k. TookAsSeen(w)'
  BY <1>t, <1>g DEF FileTypes, FileFacts, TookAsSeen, AsSeen
<1>u. Unbegun(w)'
  BY <1>t, <1>g DEF FileTypes, Unbegun, Unreplaced, Leaving
<1>r. Relies(w)'
  <2>1. unseen[w] \/ replacement[w] = None \/ replacement[w].file = w
    BY <1>t, <1>g DEF FileFacts, Relies
  <2> QED BY <1>t, <1>g, <1>s, <2>1 DEF FileTypes, Relies
<1>o. KnowsItsOwn(w)'
  <2>1. step'[w] = "cleanup" /\ path = w => changed[w] > 1
    <3> SUFFICES ASSUME step'[w] = "cleanup", path = w, changed[w] = 1 PROVE FALSE
      BY <1>t DEF FileTypes, File!Files
    <3>1. replacement[w] # None /\ replacement[w].file = w /\ replacement[w].changed = 1
      BY <1>t, <1>g DEF FileFacts, KnowsItsOwn
    <3>2. path # None
      BY FileAssumption DEF File!FilesAssumption, File!Files
    <3> QED BY <1>t, <1>g, <1>s, <3>1, <3>2 DEF FileTypes
  <2> QED BY <1>t, <1>g, <1>p, <2>1 DEF FileTypes, FileFacts, KnowsItsOwn, Leaving
<1>facts. FileFacts(w)'
  BY <1>k, <1>u, <1>l, <1>r, <1>o DEF FileFacts
<1> QED BY <1>types, <1>quiet, <1>facts, QuietKeepsFile

\* It ends.
LEMMA CleanupKeepsFile ==
    ASSUME FileInv, NEW w \in FileWriters, File!Cleanup(w), UNCHANGED <<mode, hands>>
    PROVE  FileInv'
<1>t. FileTypes /\ FileFacts(w) /\ (path = w => changed[w] > 0)
  BY DEF FileInv, Counted, File!Linked
<1>n. None # "ok" /\ None # "failed"
  BY FileAssumption DEF File!FilesAssumption
<1>g. /\ step[w] = "cleanup" /\ step' = [step EXCEPT ![w] = "ended"]
      /\ UNCHANGED <<path, touched, changed, original, replacement, mode, told, kept, interrupted, unseen, taken>>
  BY DEF File!Cleanup, File!Goes, File!Fails, File!disk, File!seen, File!history
<1>quiet. Quiet(w)
  BY <1>t, <1>g DEF Quiet, LocalsStay, FileTypes
<1>types. FileTypes'
  BY <1>t, <1>g DEF FileTypes, Unreplaced, Leaving
<1>l. LookedEarlier(w)'
  BY <1>t, <1>g DEF FileFacts, LookedEarlier
<1>k. TookAsSeen(w)'
  BY <1>t, <1>g DEF FileTypes, FileFacts, TookAsSeen, AsSeen
<1>u. Unbegun(w)'
  BY <1>t, <1>g DEF FileTypes, Unbegun, Unreplaced, Leaving
<1>r. Relies(w)'
  BY <1>t, <1>g DEF FileTypes, FileFacts, Relies
<1>o. KnowsItsOwn(w)'
  BY <1>t, <1>g DEF FileTypes, FileFacts, KnowsItsOwn, Leaving
<1>facts. FileFacts(w)'
  BY <1>k, <1>u, <1>l, <1>r, <1>o DEF FileFacts
<1> QED BY <1>types, <1>quiet, <1>facts, QuietKeepsFile

\* It is interrupted.
LEMMA InterruptKeepsFile ==
    ASSUME FileInv, NEW w \in FileWriters, File!Interrupt(w), UNCHANGED <<mode, hands>>
    PROVE  FileInv'
<1>t. FileTypes /\ FileFacts(w) /\ (path = w => changed[w] > 0)
  BY DEF FileInv, Counted, File!Linked
<1>n. None # "ok" /\ None # "failed"
  BY FileAssumption DEF File!FilesAssumption
<1>g. /\ step[w] # "ended"
      /\ UNCHANGED <<path, touched, changed, original, replacement, mode, kept, taken>>
      /\ interrupted' = [interrupted EXCEPT ![w] = TRUE]
      /\ told' = [told EXCEPT ![w] = IF told[w] = None THEN "failed" ELSE told[w]]
      /\ \E to \in File!AfterInterrupt(w) :
            /\ step' = [step EXCEPT ![w] = to]
            /\ unseen' = [unseen EXCEPT ![w] = unseen[w] \/ (step[w] = "replaced" /\ to = "removing")]
  BY DEF File!Interrupt, File!Goes, File!Fails, File!disk, File!seen, File!history
<1>i. PICK to \in File!AfterInterrupt(w) :
        /\ step' = [step EXCEPT ![w] = to]
        /\ unseen' = [unseen EXCEPT ![w] = unseen[w] \/ (step[w] = "replaced" /\ to = "removing")]
  BY <1>g
<1>a. /\ step[w] \in {"idle", "open"} => to = "ended"
      /\ step[w] \in {"writing", "linking", "rollback", "restoring", "cleanup"} => to = "cleanup"
      /\ step[w] \in {"linked", "replaced", "removing"} => to \in {"removing", "cleanup"}
      /\ step[w] \in {"verified", "ready"} => to = "removing"
      /\ step[w] = "published" => to = IF mode[w].checked THEN "rollback" ELSE "cleanup"
  BY <1>i DEF File!AfterInterrupt
<1>b. /\ to \in Leaving \cup {"rollback"} /\ (to = "rollback" => step[w] = "published")
      /\ step[w] \in Leaving => to \in Leaving
  BY <1>t, <1>g, <1>a DEF FileTypes, Unreplaced, Leaving
<1>p. /\ step'[w] = to /\ interrupted'[w] /\ (told'[w] = "ok" <=> told[w] = "ok")
      /\ (unseen'[w] <=> unseen[w] \/ (step[w] = "replaced" /\ to = "removing"))
  BY <1>t, <1>n, <1>g, <1>i DEF FileTypes
<1>quiet. Quiet(w)
  BY <1>t, <1>g, <1>i DEF Quiet, LocalsStay, FileTypes
<1>types. FileTypes'
  <2>1. step' \in [FileWriters -> Unreplaced \cup {"replaced", "published", "rollback", "restoring"} \cup Leaving]
    BY <1>t, <1>b, <1>i DEF FileTypes
  <2>2. unseen' \in [FileWriters -> BOOLEAN]
    BY <1>t, <1>i DEF FileTypes
  <2> QED BY <1>t, <1>g, <2>1, <2>2 DEF FileTypes
<1>l. LookedEarlier(w)'
  BY <1>t, <1>g DEF FileFacts, LookedEarlier
<1>k. TookAsSeen(w)'
  BY <1>t, <1>g, <1>p DEF FileFacts, TookAsSeen, AsSeen
<1>u. Unbegun(w)'
  BY <1>b, <1>p DEF Unbegun, Unreplaced, Leaving
<1>r. Relies(w)'
  <2>1. CASE to = "rollback"
    BY <1>t, <1>g, <1>b, <1>p, <2>1 DEF FileFacts, Relies
  <2>2. CASE to = "removing"
    <3>1. told[w] = "ok" \/ unseen'[w] \/ \A f \in File!Files : taken[f] # w
      <4>1. step[w] \in {"linked", "replaced", "removing", "verified", "ready"}
        BY <1>t, <1>g, <1>a, <2>2 DEF FileTypes, Unreplaced, Leaving
      <4> QED BY <1>t, <1>p, <2>2, <4>1 DEF FileFacts, Relies, Unbegun, Unreplaced
    <3> QED BY <1>g, <1>p, <2>2, <3>1 DEF Relies
  <2>3. CASE to \in {"cleanup", "ended"}
    BY <1>p, <2>3 DEF Relies
  <2> QED BY <1>b, <2>1, <2>2, <2>3 DEF Leaving
<1>o. KnowsItsOwn(w)'
  <2>1. KnowsItsOwn(w)
    BY <1>t DEF FileFacts
  <2> QED BY <1>g, <1>b, <1>p, <2>1 DEF KnowsItsOwn, Leaving
<1>facts. FileFacts(w)'
  BY <1>k, <1>u, <1>l, <1>r, <1>o DEF FileFacts
<1> QED BY <1>types, <1>quiet, <1>facts, QuietKeepsFile

\* A change of the links of a file is counted.
LEMMA RelinkedCounts ==
    ASSUME FileTypes, NEW f \in File!Files \cup {None}, File!Relinked(f)
    PROVE  /\ changed' \in [File!Files -> Nat]
           /\ \A g \in File!Files : changed'[g] = IF g = f THEN changed[g] + 1 ELSE changed[g]
<1>n. None \notin File!Files
  BY FileAssumption DEF File!FilesAssumption
<1>t. changed \in [File!Files -> Nat]
  BY DEF FileTypes
<1>1. CASE f = None
  BY <1>n, <1>t, <1>1 DEF File!Relinked
<1>2. CASE f # None
  <2>1. f \in File!Files /\ changed' = [changed EXCEPT ![f] = changed[f] + 1] /\ changed[f] \in Nat
    BY <1>t, <1>2 DEF File!Relinked
  <2> QED BY <1>t, <2>1
<1> QED BY <1>1, <1>2

\* Such a change lets no content seem older.
LEMMA LinksAge ==
    ASSUME FileTypes, UNCHANGED touched, NEW h,
           \A g \in File!Files : changed'[g] = IF g = h THEN changed[g] + 1 ELSE changed[g]
    PROVE  Aged
<1> SUFFICES ASSUME NEW f \in File!Files
             PROVE  touched[f] <= touched[f] /\ touched[f] - touched[f] <= changed'[f] - changed[f]
  BY DEF Aged
<1>1. touched[f] \in Nat /\ changed[f] \in Nat /\ changed'[f] \in {changed[f], changed[f] + 1}
  BY DEF FileTypes
<1> QED BY <1>1

\* It is enough to look at the writer whose step it is.
LEMMA StepKeepsFile ==
    ASSUME FileInv, FileTypes', Counted', Aged, NEW w \in FileWriters, FileFacts(w)',
           \A v \in FileWriters \ {w} : LocalsStay(v) /\ Disturbs(v)
    PROVE  FileInv'
<1>1. ASSUME NEW v \in FileWriters \ {w} PROVE FileFacts(v)'
  BY OthersKeepFacts
<1> QED BY <1>1 DEF FileInv

\* A writer is not a person, and its file is not another's.
LEMMA Distinguished ==
    /\ None \notin File!Files /\ Mine \notin FileWriters /\ Mine \in File!Files
    /\ FileWriters \subseteq File!Files /\ None # "ok" /\ None # "failed"
BY FileAssumption DEF File!FilesAssumption, File!Files

\* A link is taken of what is at the path.
LEMMA LinkKeepsFile ==
    ASSUME FileInv, NEW w \in FileWriters, File!Link(w), UNCHANGED <<mode, hands>>
    PROVE  FileInv'
<1>t. FileTypes /\ FileFacts(w) /\ Counted
  BY DEF FileInv
<1>n. /\ None \notin File!Files /\ FileWriters \subseteq File!Files /\ None # "ok" /\ None # "failed"
  BY Distinguished
<1>g. /\ step[w] = "linking"
      /\ UNCHANGED <<path, touched, original, replacement, mode, interrupted, unseen, taken>>
      /\ \/ /\ step' = [step EXCEPT ![w] = "cleanup"] /\ told' = [told EXCEPT ![w] = "failed"]
            /\ UNCHANGED <<kept, changed>>
         \/ /\ step' = [step EXCEPT ![w] = "verified"] /\ UNCHANGED <<told, kept, changed>>
         \/ /\ step' = [step EXCEPT ![w] = "linked"] /\ told' = told /\ original[w] # None /\ path # None
            /\ kept' = [kept EXCEPT ![w] = path] /\ File!Relinked(path)
  BY DEF File!Link, File!Goes, File!Fails, File!disk, File!seen, File!history
<1>o. /\ told[w] # "ok" /\ kept[w] = None /\ changed[w] = 0 /\ path # w
  BY <1>t, <1>g DEF FileFacts, KnowsItsOwn, Relies, Unbegun, Unreplaced, Leaving, Counted, File!Linked
<1>c. /\ changed' \in [File!Files -> Nat]
      /\ \E h \in {path, None} : \A g \in File!Files : changed'[g] = IF g = h THEN changed[g] + 1 ELSE changed[g]
  <2>1. CASE UNCHANGED changed
    BY <1>t, <1>n, <2>1 DEF FileTypes
  <2>2. CASE File!Relinked(path)
    BY <1>t, <2>2, RelinkedCounts DEF FileTypes
  <2> QED BY <1>g, <2>1, <2>2
<1>types. FileTypes'
  <2>1. kept' \in [FileWriters -> File!Files \cup {None}]
    BY <1>t, <1>g DEF FileTypes
  <2>2. told' \in [FileWriters -> {None, "ok", "failed"}]
    BY <1>t, <1>g DEF FileTypes
  <2>3. step' \in [FileWriters -> Unreplaced \cup {"replaced", "published", "rollback", "restoring"} \cup Leaving]
    BY <1>t, <1>g DEF FileTypes, Unreplaced, Leaving
  <2> QED BY <1>t, <1>g, <1>c, <2>1, <2>2, <2>3 DEF FileTypes
<1>aged. Aged
  BY <1>t, <1>g, <1>c, LinksAge
<1>1. ASSUME NEW v \in FileWriters PROVE changed[v] \in Nat /\ changed'[v] \in Nat /\ changed[v] <= changed'[v]
  BY <1>n, <1>t, <1>c DEF FileTypes
<1>k. ASSUME NEW v \in FileWriters, NEW u \in FileWriters, kept'[u] = v PROVE kept[u] = v \/ path = v
  BY <1>t, <1>g, <1>k DEF FileTypes
<1>counted. Counted'
  <2> SUFFICES ASSUME NEW v \in FileWriters, path = v \/ \E u \in FileWriters : kept'[u] = v
               PROVE  changed'[v] > 0
    BY <1>g DEF Counted, File!Linked
  <2>1. File!Linked(v)
    BY <1>k DEF File!Linked
  <2> QED BY <1>1, <1>t, <2>1 DEF Counted
<1>others. ASSUME NEW v \in FileWriters \ {w} PROVE LocalsStay(v) /\ Disturbs(v)
  <2>1. LocalsStay(v)
    BY <1>t, <1>g DEF FileTypes, LocalsStay
  <2>2. TookAsSeen(v) /\ (path = v => changed[v] > 0) /\ v \in File!Files
    BY <1>t, <1>n DEF FileInv, FileFacts, Counted, File!Linked
  <2>3. changed[v] = 0 => changed'[v] = 0
    BY <1>c, <1>n, <2>2
  <2> QED BY <1>g, <2>1, <2>2, <2>3 DEF Disturbs, TookAsSeen
<1>l. LookedEarlier(w)'
  BY <1>t, <1>g, <1>types, <1>aged, LookedEarlierStays DEF FileFacts
<1>r. Relies(w)'
  BY <1>t, <1>g, <1>o DEF FileTypes, Relies
<1>facts. FileFacts(w)'
  <2>1. kept'[w] # w /\ told'[w] # "ok" /\ step'[w] \in Unreplaced \cup Leaving
    BY <1>t, <1>n, <1>g, <1>o DEF FileTypes, Unreplaced, Leaving
  <2>2. changed'[w] = changed[w] /\ step[w] \in Unreplaced
    BY <1>c, <1>n, <1>o, <1>g DEF Unreplaced
  <2> QED BY <1>t, <1>o, <1>g, <1>l, <1>r, <2>1, <2>2, UnreplacedFacts
<1> QED BY <1>types, <1>counted, <1>aged, <1>others, <1>facts, StepKeepsFile

\* What a step that moves files hides from the writers.
LEMMA MovesHides ==
    ASSUME FileInv, NEW a \in FileWriters \cup {None}, File!Moves(a), path' \in File!Files \cup {None}
    PROVE  /\ unseen' \in [FileWriters -> BOOLEAN] /\ taken' \in [File!Files -> FileWriters \cup {None}]
           /\ \A f \in File!Files :
                taken'[f] = IF path' = f THEN None ELSE IF path = f THEN a ELSE taken[f]
           /\ \A v \in FileWriters :
                /\ unseen[v] => unseen'[v]
                /\ v = a => unseen'[v] = unseen[v]
                /\ v # a =>
                    /\ step[v] \in {"ready", "replaced", "restoring"} /\ path' # path => unseen'[v]
                    /\ step[v] \in {"ready", "verified"} /\ touched' # touched => unseen'[v]
                    /\ \A f \in File!Files : taken'[f] = v => taken[f] = v /\ path' # f
<1>t. FileTypes
  BY DEF FileInv
<1>n. None \notin FileWriters
  BY Distinguished
<1>1. unseen' = [v \in FileWriters |->
                    \/ unseen[v]
                    \/ v # a /\ path' # path /\ step[v] \in File!Unwatched(v)
                    \/ v # a /\ touched' # touched /\ step[v] \in File!Unread(v)]
  BY DEF File!Moves, File!Observed
<1>2. taken' = [f \in File!Files |-> IF path' = f THEN None ELSE IF path = f THEN a ELSE taken[f]]
  BY DEF File!Moves
<1>3. taken' \in [File!Files -> FileWriters \cup {None}]
  BY <1>t, <1>2 DEF FileTypes
<1>4. unseen' \in [FileWriters -> BOOLEAN]
  <2>1. \A v \in FileWriters : unseen[v] \in BOOLEAN
    BY <1>t DEF FileTypes
  <2> QED BY <1>1, <2>1
<1>5. ASSUME NEW v \in FileWriters
      PROVE  /\ unseen[v] => unseen'[v]
             /\ v = a => unseen'[v] = unseen[v]
             /\ v # a =>
                 /\ step[v] \in {"ready", "replaced", "restoring"} /\ path' # path => unseen'[v]
                 /\ step[v] \in {"ready", "verified"} /\ touched' # touched => unseen'[v]
  <2>1. unseen[v] \in BOOLEAN
    BY <1>t DEF FileTypes
  <2>2. unseen'[v] = \/ unseen[v]
                     \/ v # a /\ path' # path /\ step[v] \in File!Unwatched(v)
                     \/ v # a /\ touched' # touched /\ step[v] \in File!Unread(v)
    BY <1>1
  <2>3. /\ {"ready", "replaced", "restoring"} \subseteq File!Unwatched(v)
        /\ {"ready", "verified"} \subseteq File!Unread(v)
    BY DEF File!Unwatched, File!Unread
  <2> QED BY <2>1, <2>2, <2>3
<1>6. ASSUME NEW v \in FileWriters, v # a, NEW f \in File!Files, taken'[f] = v
      PROVE  taken[f] = v /\ path' # f
  BY <1>2, <1>6, <1>n
<1> QED BY <1>2, <1>3, <1>4, <1>5, <1>6

\* The renaming takes off the path what the writer compared, or what nobody looks at.
LEMMA ReplaceKeepsFile ==
    ASSUME FileInv, NEW w \in FileWriters, File!Replace(w), UNCHANGED <<mode, hands>>
    PROVE  FileInv'
<1>t. FileTypes /\ FileFacts(w) /\ Counted
  BY DEF FileInv
<1>n. /\ None \notin File!Files /\ FileWriters \subseteq File!Files /\ None # "ok" /\ None # "failed"
  BY Distinguished
<1>g. /\ step[w] = "ready" /\ step' = [step EXCEPT ![w] = "replaced"] /\ path' = w
      /\ UNCHANGED <<touched, original, replacement, mode, kept, told, interrupted>>
      /\ File!Relinked(w) /\ File!Moves(w)
  BY DEF File!Replace, File!Goes, File!seen
<1>c. /\ changed' \in [File!Files -> Nat]
      /\ \A g \in File!Files : changed'[g] = IF g = w THEN changed[g] + 1 ELSE changed[g]
  BY <1>t, <1>g, <1>n, RelinkedCounts
<1>m. /\ unseen' \in [FileWriters -> BOOLEAN] /\ taken' \in [File!Files -> FileWriters \cup {None}]
      /\ \A f \in File!Files :
            taken'[f] = IF path' = f THEN None ELSE IF path = f THEN w ELSE taken[f]
      /\ unseen'[w] = unseen[w]
  BY <1>g, <1>n, MovesHides
<1>types. FileTypes'
  BY <1>t, <1>g, <1>c, <1>m, <1>n DEF FileTypes, Unreplaced, Leaving
<1>aged. Aged
  BY <1>t, <1>g, <1>c, LinksAge
<1>1. ASSUME NEW v \in FileWriters PROVE changed[v] \in Nat
  BY <1>n, <1>t DEF FileTypes
<1>counted. Counted'
  <2> SUFFICES ASSUME NEW v \in FileWriters, w = v \/ \E u \in FileWriters : kept[u] = v
               PROVE  changed'[v] > 0
    BY <1>g DEF Counted, File!Linked
  <2>1. w = v \/ File!Linked(v)
    BY DEF File!Linked
  <2>2. changed'[v] = (IF v = w THEN changed[v] + 1 ELSE changed[v]) /\ changed[v] \in Nat
    BY <1>1, <1>c, <1>n
  <2> QED BY <1>t, <2>1, <2>2 DEF Counted
<1>others. ASSUME NEW v \in FileWriters \ {w} PROVE LocalsStay(v) /\ Disturbs(v)
  <2>1. LocalsStay(v)
    BY <1>t, <1>g DEF FileTypes, LocalsStay
  <2>2. path' # v /\ changed'[v] = changed[v]
    BY <1>g, <1>c, <1>n
  <2> QED BY <1>g, <1>n, <2>1, <2>2, MovesHides DEF Disturbs
<1>l. LookedEarlier(w)'
  BY <1>t, <1>g, <1>types, <1>aged, LookedEarlierStays DEF FileFacts
<1>r. Relies(w)'
  BY <1>t, <1>g DEF FileTypes, Relies
<1>k. TookAsSeen(w)'
  <2> SUFFICES ASSUME NEW f \in File!Files, taken'[f] = w
               PROVE  /\ path' # f
                      /\ unseen[w] \/ (AsSeen(f, w) /\ (mode[w].checked => kept[w] = f))
    BY <1>g, <1>m DEF TookAsSeen, AsSeen
  <2>1. path' # f /\ path = f
    BY <1>t, <1>g, <1>m, <1>n DEF FileFacts, Unbegun, Unreplaced
  <2> QED BY <1>t, <1>g, <1>n, <2>1 DEF FileFacts, Relies
<1>o. KnowsItsOwn(w)'
  BY <1>t, <1>g DEF FileTypes, FileFacts, KnowsItsOwn, Leaving
<1>u. Unbegun(w)'
  BY <1>t, <1>g DEF FileTypes, Unbegun, Unreplaced
<1>facts. FileFacts(w)'
  BY <1>k, <1>u, <1>l, <1>r, <1>o DEF FileFacts
<1> QED BY <1>types, <1>counted, <1>aged, <1>others, <1>facts, StepKeepsFile

\* Putting the old file back takes off the path the writer's own.
LEMMA RestoreKeepsFile ==
    ASSUME FileInv, NEW w \in FileWriters, File!Restore(w), UNCHANGED <<mode, hands>>
    PROVE  FileInv'
<1>t. FileTypes /\ FileFacts(w) /\ Counted
  BY DEF FileInv
<1>n. /\ None \notin File!Files /\ FileWriters \subseteq File!Files /\ None # "ok" /\ None # "failed"
  BY Distinguished
<1> DEFINE b == kept[w]
<1>g. /\ step[w] = "restoring" /\ step' = [step EXCEPT ![w] = "cleanup"] /\ path' = b
      /\ kept' = [kept EXCEPT ![w] = None]
      /\ UNCHANGED <<touched, original, replacement, mode, told, interrupted>>
      /\ File!Relinked(b) /\ File!Moves(w)
  BY DEF File!Restore, File!Goes, File!seen
<1>b. b \in File!Files \cup {None} /\ b # w
  BY <1>t DEF FileTypes, FileFacts, KnowsItsOwn
<1>f. \A f \in File!Files : kept[w] = f => b = f
  OBVIOUS
<1>h. ASSUME NEW v \in FileWriters, b = v PROVE changed[v] > 0
  BY <1>h, <1>t DEF Counted, File!Linked
<1> HIDE DEF b
<1>c. /\ changed' \in [File!Files -> Nat]
      /\ \A g \in File!Files : changed'[g] = IF g = b THEN changed[g] + 1 ELSE changed[g]
  BY <1>t, <1>g, <1>b, RelinkedCounts
<1>m. /\ unseen' \in [FileWriters -> BOOLEAN] /\ taken' \in [File!Files -> FileWriters \cup {None}]
      /\ \A f \in File!Files :
            taken'[f] = IF path' = f THEN None ELSE IF path = f THEN w ELSE taken[f]
      /\ unseen'[w] = unseen[w]
  BY <1>g, <1>b, MovesHides
<1>types. FileTypes'
  BY <1>t, <1>g, <1>c, <1>m, <1>b DEF FileTypes, Unreplaced, Leaving
<1>aged. Aged
  BY <1>t, <1>g, <1>c, LinksAge
<1>1. ASSUME NEW v \in FileWriters
      PROVE  /\ changed[v] \in Nat /\ changed'[v] = IF v = b THEN changed[v] + 1 ELSE changed[v]
  BY <1>n, <1>t, <1>c DEF FileTypes
<1>counted. Counted'
  <2> SUFFICES ASSUME NEW v \in FileWriters, b = v \/ \E u \in FileWriters : kept'[u] = v
               PROVE  changed'[v] > 0
    BY <1>g DEF Counted, File!Linked
  <2>1. b = v \/ File!Linked(v)
    BY <1>t, <1>g, <1>n DEF File!Linked, FileTypes
  <2> QED BY <1>t, <1>1, <2>1 DEF Counted
<1>others. ASSUME NEW v \in FileWriters \ {w} PROVE LocalsStay(v) /\ Disturbs(v)
  <2>1. LocalsStay(v)
    BY <1>t, <1>g DEF FileTypes, LocalsStay
  <2>2. path' = v => changed'[v] > 1
    BY <1>g, <1>h, <1>1
  <2>3. changed[v] = 0 => changed'[v] = 0
    BY <1>h, <1>1
  <2>4. /\ unseen[v] => unseen'[v]
        /\ step[v] \in {"ready", "replaced", "restoring"} /\ path' # path => unseen'[v]
        /\ step[v] \in {"ready", "verified"} /\ touched' # touched => unseen'[v]
        /\ \A f \in File!Files : taken'[f] = v => taken[f] = v /\ path' # f
    BY <1>g, <1>b, MovesHides
  <2> QED BY <2>1, <2>2, <2>3, <2>4 DEF Disturbs
<1>l. LookedEarlier(w)'
  BY <1>t, <1>g, <1>types, <1>aged, LookedEarlierStays DEF FileFacts
<1>r. Relies(w)'
  BY <1>t, <1>g DEF FileTypes, Relies
<1>k. TookAsSeen(w)'
  <2> SUFFICES ASSUME NEW f \in File!Files, taken'[f] = w, f # w, ~unseen[w]
               PROVE  path' # f /\ AsSeen(f, w) /\ (mode[w].checked => told[w] = "ok")
    <3>1. ASSUME NEW f \in File!Files, taken'[f] = w PROVE path' # f
      BY <1>m, <1>n, <3>1
    <3> QED BY <1>g, <1>m, <3>1 DEF TookAsSeen, AsSeen
  <2>1. path' # f /\ (path = f \/ taken[f] = w)
    BY <1>m, <1>n
  <2>2. path # f
    BY <1>t, <1>g DEF FileFacts, Relies
  <2>3. AsSeen(f, w) /\ (mode[w].checked => kept[w] = f \/ told[w] = "ok")
    BY <1>t, <2>1, <2>2 DEF FileFacts, TookAsSeen
  <2> QED BY <1>f, <1>g, <2>1, <2>3
<1>o. KnowsItsOwn(w)'
  BY <1>t, <1>g, <1>b, <1>n DEF FileTypes, KnowsItsOwn, Leaving
<1>u. Unbegun(w)'
  BY <1>t, <1>g DEF FileTypes, Unbegun, Unreplaced
<1>facts. FileFacts(w)'
  BY <1>k, <1>u, <1>l, <1>r, <1>o DEF FileFacts
<1> QED BY <1>types, <1>counted, <1>aged, <1>others, <1>facts, StepKeepsFile

\* The link is removed when the new file stays, or before anything was replaced.
LEMMA RemoveKeepsFile ==
    ASSUME FileInv, NEW w \in FileWriters, File!Remove(w), UNCHANGED <<mode, hands>>
    PROVE  FileInv'
<1>t. FileTypes /\ FileFacts(w) /\ Counted
  BY DEF FileInv
<1>n. /\ None \notin File!Files /\ FileWriters \subseteq File!Files /\ None # "ok" /\ None # "failed"
  BY Distinguished
<1> DEFINE b == kept[w]
<1>g. /\ step[w] = "removing" /\ step' = [step EXCEPT ![w] = "cleanup"]
      /\ kept' = [kept EXCEPT ![w] = None]
      /\ UNCHANGED <<path, touched, original, replacement, mode, told, interrupted, unseen, taken>>
      /\ File!Relinked(b)
  BY DEF File!Remove, File!Goes, File!seen, File!history
<1>b. b \in File!Files \cup {None} /\ b # w
  BY <1>t DEF FileTypes, FileFacts, KnowsItsOwn
<1>h. ASSUME NEW v \in FileWriters, b = v PROVE changed[v] > 0
  BY <1>h, <1>t DEF Counted, File!Linked
<1> HIDE DEF b
<1>c. /\ changed' \in [File!Files -> Nat]
      /\ \A g \in File!Files : changed'[g] = IF g = b THEN changed[g] + 1 ELSE changed[g]
  BY <1>t, <1>g, <1>b, RelinkedCounts
<1>types. FileTypes'
  BY <1>t, <1>g, <1>c DEF FileTypes, Unreplaced, Leaving
<1>aged. Aged
  BY <1>t, <1>g, <1>c, LinksAge
<1>1. ASSUME NEW v \in FileWriters
      PROVE  /\ changed[v] \in Nat /\ changed'[v] = IF v = b THEN changed[v] + 1 ELSE changed[v]
  BY <1>n, <1>t, <1>c DEF FileTypes
<1>counted. Counted'
  <2> SUFFICES ASSUME NEW v \in FileWriters, path = v \/ \E u \in FileWriters : kept'[u] = v
               PROVE  changed'[v] > 0
    BY <1>g DEF Counted, File!Linked
  <2>1. File!Linked(v)
    BY <1>t, <1>g, <1>n DEF File!Linked, FileTypes
  <2> QED BY <1>t, <1>1, <2>1 DEF Counted
<1>others. ASSUME NEW v \in FileWriters \ {w} PROVE LocalsStay(v) /\ Disturbs(v)
  <2>1. LocalsStay(v)
    BY <1>t, <1>g DEF FileTypes, LocalsStay
  <2>2. TookAsSeen(v)
    BY DEF FileInv, FileFacts
  <2>3. changed[v] = 0 => changed'[v] = 0
    BY <1>h, <1>1
  <2> QED BY <1>g, <2>1, <2>2, <2>3 DEF Disturbs, TookAsSeen
<1>l. LookedEarlier(w)'
  BY <1>t, <1>g, <1>types, <1>aged, LookedEarlierStays DEF FileFacts
<1>r. Relies(w)'
  BY <1>t, <1>g DEF FileTypes, Relies
<1>k. TookAsSeen(w)'
  <2> SUFFICES ASSUME NEW f \in File!Files, taken[f] = w
               PROVE  path # f /\ (f = w \/ unseen[w] \/ (AsSeen(f, w) /\ told[w] = "ok"))
    BY <1>g DEF TookAsSeen, AsSeen
  <2>1. told[w] = "ok" \/ unseen[w]
    BY <1>t, <1>g DEF FileFacts, Relies
  <2> QED BY <1>t, <2>1 DEF FileFacts, TookAsSeen
<1>o. KnowsItsOwn(w)'
  <2>1. changed[w] \in Nat /\ changed'[w] = changed[w]
    BY <1>b, <1>1
  <2> QED BY <1>t, <1>g, <1>n, <2>1 DEF FileTypes, FileFacts, KnowsItsOwn, Leaving
<1>u. Unbegun(w)'
  BY <1>t, <1>g DEF FileTypes, Unbegun, Unreplaced
<1>facts. FileFacts(w)'
  BY <1>k, <1>u, <1>l, <1>r, <1>o DEF FileFacts
<1> QED BY <1>types, <1>counted, <1>aged, <1>others, <1>facts, StepKeepsFile

\* People edit the file or put another in its place.
LEMMA HandKeepsFile == ASSUME FileInv, File!Hand PROVE FileInv'
<1>t. FileTypes /\ Counted
  BY DEF FileInv
<1>n. /\ None \notin File!Files /\ Mine \notin FileWriters /\ Mine \in File!Files
      /\ FileWriters \subseteq File!Files
  BY Distinguished
<1>g. /\ UNCHANGED <<step, mode, original, replacement, kept, told, interrupted>> /\ File!Moves(None)
      /\ \/ /\ path # None /\ path' = path /\ touched' = [touched EXCEPT ![path] = touched[path] + 1]
            /\ File!Relinked(path)
         \/ path' = Mine /\ touched' = touched /\ File!Relinked(Mine)
  BY DEF File!Hand, File!Edit, File!Put, File!seen
<1>b. path' \in File!Files /\ path \in File!Files \cup {None}
  BY <1>t, <1>g, <1>n DEF FileTypes
<1> DEFINE h == path'
<1>c. /\ changed' \in [File!Files -> Nat]
      /\ \A g \in File!Files : changed'[g] = IF g = h THEN changed[g] + 1 ELSE changed[g]
  BY <1>t, <1>g, <1>b, RelinkedCounts
<1>m. unseen' \in [FileWriters -> BOOLEAN] /\ taken' \in [File!Files -> FileWriters \cup {None}]
  BY <1>g, <1>b, MovesHides
<1>d. /\ touched' \in [File!Files -> Nat]
      /\ \A f \in File!Files :
            touched'[f] = touched[f] \/ (f = h /\ f = path /\ touched'[f] = touched[f] + 1)
  BY <1>t, <1>g, <1>b DEF FileTypes
<1>types. FileTypes'
  BY <1>t, <1>g, <1>c, <1>d, <1>m, <1>b DEF FileTypes
<1>aged. Aged
  <2> SUFFICES ASSUME NEW f \in File!Files
               PROVE  /\ touched[f] <= touched'[f] /\ touched'[f] - touched[f] <= changed'[f] - changed[f]
                      /\ f # path => touched'[f] = touched[f]
    BY DEF Aged
  <2>1. touched[f] \in Nat /\ changed[f] \in Nat
    BY <1>t DEF FileTypes
  <2>2. /\ changed'[f] = IF f = h THEN changed[f] + 1 ELSE changed[f]
        /\ touched'[f] = touched[f] \/ (f = h /\ f = path /\ touched'[f] = touched[f] + 1)
    BY <1>c, <1>d
  <2> HIDE DEF h
  <2> QED BY <2>1, <2>2
<1>p. ASSUME NEW v \in FileWriters, path' = v PROVE path = v
  BY <1>g, <1>n, <1>p
<1>1. ASSUME NEW v \in FileWriters
      PROVE  /\ changed[v] \in Nat /\ changed'[v] = IF v = h THEN changed[v] + 1 ELSE changed[v]
  BY <1>n, <1>t, <1>c DEF FileTypes
<1>counted. Counted'
  <2> SUFFICES ASSUME NEW v \in FileWriters, path' = v \/ \E u \in FileWriters : kept[u] = v
               PROVE  changed'[v] > 0
    BY <1>g DEF Counted, File!Linked
  <2>1. File!Linked(v)
    BY <1>p DEF File!Linked
  <2> QED BY <1>t, <1>1, <2>1 DEF Counted
<1>2. ASSUME NEW v \in FileWriters PROVE FileFacts(v)'
  <2>1. LocalsStay(v)
    BY <1>g DEF LocalsStay
  <2>2. changed[v] = 0 => changed'[v] = 0
    <3>1. path = v => changed[v] > 0
      BY <1>t DEF Counted, File!Linked
    <3> QED BY <1>1, <1>p, <3>1
  <2>3. v # None
    BY <1>n
  <2>4. Disturbs(v)
    BY <1>g, <1>b, <1>p, <2>2, <2>3, MovesHides DEF Disturbs
  <2> QED BY <1>types, <1>aged, <2>1, <2>4, OthersKeepFacts
<1> QED BY <1>types, <1>counted, <1>2 DEF FileInv

\* Every step keeps the invariant,
LEMMA NextKeepsFile == ASSUME FileInv, File!Next PROVE FileInv'
<1>1. ASSUME NEW w \in FileWriters, File!WriterStep(w) PROVE FileInv'
  BY <1>1, StartKeepsFile, OpenKeepsFile, CompareKeepsFile, LinkKeepsFile, VerifyKeepsFile, RecheckKeepsFile,
     ReplaceKeepsFile, ReplacedKeepsFile, SyncKeepsFile, RollbackKeepsFile, RestoreKeepsFile, RemoveKeepsFile,
     CleanupKeepsFile, InterruptKeepsFile DEF File!WriterStep
<1> QED BY <1>1, HandKeepsFile DEF File!Next

\* which holds at first
LEMMA InitHoldsFile == File!Init => FileInv
<1> SUFFICES ASSUME File!Init PROVE FileInv
  OBVIOUS
<1>n. /\ None \notin File!Files /\ Mine \notin FileWriters /\ Mine \in File!Files
      /\ FileWriters \subseteq File!Files /\ None # "ok" /\ None # "failed"
  BY Distinguished
<1>o. Old \notin FileWriters /\ Old \in File!Files
  BY FileAssumption DEF File!FilesAssumption, File!Files
<1>1. FileTypes
  BY <1>o DEF File!Init, FileTypes, Unreplaced
<1>2. Counted
  BY <1>n, <1>o DEF File!Init, Counted, File!Linked
<1>3. ASSUME NEW w \in FileWriters PROVE FileFacts(w)
  <2>1. /\ step[w] = "idle" /\ told[w] = None /\ kept[w] = None /\ original[w] = None /\ changed[w] = 0
        /\ \A f \in File!Files : taken[f] = None
    BY <1>n DEF File!Init
  <2>2. TookAsSeen(w) /\ Unbegun(w) /\ LookedEarlier(w)
    BY <1>n, <2>1 DEF TookAsSeen, Unbegun, LookedEarlier
  <2>3. Relies(w)
    BY <2>1 DEF Relies
  <2>4. KnowsItsOwn(w)
    BY <1>n, <2>1 DEF KnowsItsOwn, Leaving
  <2> QED BY <2>2, <2>3, <2>4 DEF FileFacts
<1> QED BY <1>1, <1>2, <1>3 DEF FileInv

\* and speaks of nothing else.
LEMMA SameFileInv ==
    ASSUME FileInv,
           UNCHANGED <<path, touched, changed, step, mode, original, replacement, kept, told, interrupted,
                       unseen, taken>>
    PROVE  FileInv'
<1>1. FileTypes' /\ Counted'
  BY DEF FileInv, FileTypes, Counted, File!Linked
<1>2. ASSUME NEW w \in FileWriters PROVE FileFacts(w)'
  <2>1. TookAsSeen(w)' /\ Unbegun(w)' /\ LookedEarlier(w)'
    BY DEF FileInv, FileFacts, TookAsSeen, AsSeen, Unbegun, LookedEarlier
  <2>2. Relies(w)' /\ KnowsItsOwn(w)'
    BY DEF FileInv, FileFacts, Relies, AsSeen, KnowsItsOwn
  <2> QED BY <2>1, <2>2 DEF FileFacts
<1> QED BY <1>1, <1>2 DEF FileInv

\* What the invariant says of one file.
LEMMA FileKept == FileInv => File!NothingUnseenIsLost /\ File!LateFilesAreWithdrawn
<1> SUFFICES ASSUME FileInv PROVE File!NothingUnseenIsLost /\ File!LateFilesAreWithdrawn
  OBVIOUS
<1>1. File!NothingUnseenIsLost
  <2> SUFFICES ASSUME NEW f \in File!Files, NEW w \in FileWriters, taken[f] = w, ~File!Linked(f)
               PROVE  \/ f = w \/ unseen[w]
                      \/ /\ original[w] # None
                         /\ f = original[w].file /\ touched[f] = original[w].touched
                         /\ told[w] = "failed" => ~mode[w].checked
    BY DEF File!NothingUnseenIsLost, FileInv, FileTypes
  <2>1. kept[w] # f
    BY DEF File!Linked
  <2>2. f = w \/ unseen[w] \/ (AsSeen(f, w) /\ (mode[w].checked => told[w] = "ok"))
    BY <2>1 DEF FileInv, FileFacts, TookAsSeen
  <2> QED BY <2>2 DEF AsSeen
<1>2. File!LateFilesAreWithdrawn
  BY DEF File!LateFilesAreWithdrawn, FileInv, FileFacts, KnowsItsOwn, Leaving
<1> QED BY <1>1, <1>2

-----------------------------------------------------------------------------
(* The theorems.                                                           *)

FoldersHold == which = "folders" => FoldersInv

\* The invariant holds at first,
LEMMA InitHoldsFolders == StorageInit => FoldersHold
<1> SUFFICES ASSUME StorageInit, which = "folders" PROVE FoldersInv
  BY DEF FoldersHold
<1>i. Folders!Init
  BY DEF StorageInit
<1>a. /\ None \notin FolderWriters /\ Old \notin FolderWriters /\ Vacant \notin FolderWriters
      /\ None # Old /\ None # Vacant
  BY FoldersAssumption DEF Folders!TreesAssumption
<1>1. FolderTypes
  BY <1>i DEF Folders!Init, FolderTypes, Folders!Trees, Folders!Points
<1>2. RunsAlone
  BY <1>i DEF Folders!Init, RunsAlone, Resting
<1>3. ASSUME NEW w \in FolderWriters PROVE WriterInv(w)
  <2>1. /\ step[w] = "idle" /\ temp[w] = None /\ backup[w] = None /\ before[w] = None /\ half = {}
        /\ dest \in {None, Old, Vacant}
    BY <1>i DEF Folders!Init
  <2> QED BY <2>1, <1>a DEF WriterInv, SetsAside, StagedOnce, PutThere, PutWhole, Phases, RolledBack, KeptIntact,
            Covered, MayRemove, Early, Cleaning
<1>4. Kept
  <2>1. ~Need
    BY <1>i, <1>a, FoldersAssumption DEF Folders!Init, Need, Folders!WritersAssumption
  <2>2. Folders!PublishedStays
    BY <1>i DEF Folders!Init, Folders!PublishedStays
  <2>3. Intact(dest)
    BY <1>i DEF Folders!Init, Intact
  <2> QED BY <2>1, <2>2, <2>3, NeverNothingIs DEF Kept
<1> QED BY <1>1, <1>2, <1>3, <1>4 DEF FoldersInv

\* and every step keeps it: those of the other components leave folders alone.
LEMMA StepHoldsFolders == FoldersHold /\ [StorageNext]_all => FoldersHold'
<1> SUFFICES ASSUME FoldersHold, [StorageNext]_all, which' = "folders" PROVE FoldersInv'
  BY DEF FoldersHold
<1>1. which = "folders"
  BY DEF StorageNext, all
<1>2. FoldersInv
  BY <1>1 DEF FoldersHold
<1>3. CASE Folders!Next
  BY <1>2, <1>3, NextKeepsFolders
<1>4. CASE UNCHANGED all
  <2>1. UNCHANGED <<dest, temp, backup, half, step, saw, victim, stops, before>>
    BY <1>4 DEF all, shared, ofFolders
  <2>2. FolderTypes' /\ RunsAlone'
    BY <1>2, <2>1 DEF FoldersInv, FolderTypes, RunsAlone
  <2>3. ASSUME NEW w \in FolderWriters PROVE WriterInv(w)'
    <3>1. WriterInv(w)
      BY <1>2 DEF FoldersInv
    <3>2. SetsAside(w)' /\ StagedOnce(w)' /\ PutThere(w)'
      BY <3>1, <2>1 DEF WriterInv, SetsAside, StagedOnce, PutThere
    <3>4. PutWhole(w)' /\ Phases(w)' /\ RolledBack(w)'
      BY <3>1, <2>1 DEF WriterInv, PutWhole, Phases, RolledBack
    <3>3. KeptIntact(w)' /\ Covered(w)'
      BY <3>1, <2>1 DEF WriterInv, KeptIntact, Covered, MayRemove, Need, IsSetAside, Intact
    <3> QED BY <3>2, <3>3, <3>4 DEF WriterInv
  <2>4. Kept'
    BY <1>2, <2>1 DEF FoldersInv, Kept, Intact, Folders!NeverNothing, Folders!PublishedStays, Folders!Bundle,
       Folders!Whole
  <2> QED BY <2>2, <2>3, <2>4 DEF FoldersInv
<1> QED BY <1>1, <1>3, <1>4 DEF StorageNext

\* Publication of a folder by any number of writers (generate_dataset_bundle,
\* publish_directory): once a bundle is to be replaced, whatever fails and
\* wherever the overwriting writer dies, a complete bundle remains at the output
\* path or under a .rollback name; and what a writer reported as published
\* stays there, complete, until a writer that may overwrite it begins.
THEOREM FoldersStayKept == StorageSpec => []FoldersAreKept
<1>1. FoldersHold => FoldersAreKept
  BY DEF FoldersHold, FoldersAreKept, FoldersInv, Kept
<1> QED BY <1>1, InitHoldsFolders, StepHoldsFolders, PTL DEF StorageSpec

\* Publication of a folder (the handlers of publish_directory and of
\* generate_dataset_bundle): a writer that ends with a failure has left nothing
\* of its own at the output path or staged, and a folder that it was to
\* overwrite is where it was, unless its rollback was stopped too.
THEOREM FailuresRollBack == StorageSpec => FailureRollsBack
<1>1. ASSUME FoldersHold, StorageNext, which = "folders", NEW w \in FolderWriters,
             Folders!Running(w), step'[w] = "failed", stops'[w] \cap Folders!Undoing = {}
      PROVE  dest' # w /\ temp'[w] = None /\ (w \in Overwriting => dest' = before[w])
  <2>1. FoldersInv
    BY <1>1 DEF FoldersHold
  <2>2. step[w] # "failed"
    BY <1>1 DEF Folders!Running, Folders!Over
  <2>3. step' # step
    BY <1>1, <2>2
  <2>4. Folders!Next
    BY <1>1, <2>3 DEF StorageNext, all, shared
  <2>5. PICK v \in FolderWriters : Folders!Step(v)
    BY <2>4 DEF Folders!Next
  <2>6. v = w
    BY <1>1, <2>2, <2>5, OnlyOneMoves
  <2> QED BY <1>1, <2>1, <2>5, <2>6, FailsClean
<1>2. FoldersHold /\ [StorageNext]_all =>
        [which = "folders" =>
            \A w \in FolderWriters :
                Folders!Running(w) /\ step'[w] = "failed" /\ stops'[w] \cap Folders!Undoing = {} =>
                    /\ dest' # w /\ temp'[w] = None
                    /\ w \in Overwriting => dest' = before[w]]_all
  BY <1>1
<1> QED BY <1>2, InitHoldsFolders, StepHoldsFolders, PTL DEF StorageSpec, FailureRollsBack

\* So do those of the files of a bundle and of one file.
FilesHold ==
    /\ which = "files" => BundleInv
    /\ which = "file" => FileInv

LEMMA InitHoldsBoth == StorageInit => FilesHold
BY InitHoldsFiles, InitHoldsFile DEF StorageInit, FilesHold

LEMMA StepHoldsBoth == FilesHold /\ [StorageNext]_all => FilesHold'
<1> SUFFICES ASSUME FilesHold, [StorageNext]_all PROVE FilesHold'
  OBVIOUS
<1>1. UNCHANGED which
  BY DEF StorageNext, all
<1>2. CASE which = "files"
  <2>1. BundleInv /\ which' = "files"
    BY <1>1, <1>2 DEF FilesHold
  <2>2. CASE Files!Next
    BY <2>1, <2>2, NextKeepsFiles DEF FilesHold
  <2>3. CASE UNCHANGED all
    <3>1. UNCHANGED <<out, temp, roll, before, moves, step, stops>>
      BY <2>3 DEF all, shared, ofFiles
    <3> QED BY <2>1, <3>1, SameFiles DEF FilesHold
  <2> QED BY <1>2, <2>2, <2>3 DEF StorageNext
<1>3. CASE which = "file"
  <2>1. FileInv /\ which' = "file"
    BY <1>1, <1>3 DEF FilesHold
  <2>2. CASE File!Next
    BY <2>1, <2>2, NextKeepsFile DEF FilesHold
  <2>3. CASE UNCHANGED all
    <3>1. UNCHANGED <<path, touched, changed, step, mode, original, replacement, kept, told, interrupted,
                      unseen, taken>>
      BY <2>3 DEF all, shared, ofFile
    <3> QED BY <2>1, <3>1, SameFileInv DEF FilesHold
  <2> QED BY <1>3, <2>2, <2>3 DEF StorageNext
<1>4. CASE which \notin {"files", "file"}
  BY <1>1, <1>4 DEF FilesHold
<1> QED BY <1>2, <1>3, <1>4

\* Publication of the files of a single entity (commit_single_entity_bundle) and
\* of one file (publish_file and its callers): a run ends with the whole new
\* bundle or with the folder as it found it, unless its rollback was cut short;
\* the manifest comes last; every old file is in the folder or in .rollback
\* until the new bundle is complete, also after a kill; and any number of
\* writers of one file, any number of which are interrupted while people edit
\* it, destroy only what they were to replace, as they saw it, and take back
\* what they published too late.
THEOREM FilesStayKept == StorageSpec => []FilesAreKept
<1>1. FilesHold => FilesAreKept
  BY FilesKept, FileKept DEF FilesHold, FilesAreKept
<1> QED BY <1>1, InitHoldsBoth, StepHoldsBoth, PTL DEF StorageSpec
==============================================================================

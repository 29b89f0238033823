--------------------------- MODULE FilePublication ---------------------------
(***************************************************************************)
(* One file is published by a writer that prepares it beside the output    *)
(* path, compares what is there with what it saw at first, and renames its *)
(* file over it.  A checked writer looks at its deadline before and after: *)
(* it keeps a hard link to what it displaces, and puts that back when the  *)
(* time is over.  Other writers, and people, change the file meanwhile; a  *)
(* writer that is killed takes no more steps.                              *)
(*                                                                         *)
(* Files are told apart by their inodes; the file a writer prepares has    *)
(* the writer's name.                                                      *)
(***************************************************************************)
EXTENDS Naturals, FiniteSets

CONSTANTS
    Writer,
    Old,            \* the file that is there at first, if any
    Mine,           \* the file a person puts there
    MaxHands,       \* changes that people make in all
    MaxStops,       \* writers that are interrupted
    None

Files == Writer \cup {Old, Mine}

FilesAssumption ==
    /\ Old # Mine /\ {Old, Mine} \cap Writer = {}
    /\ None \notin Files \cup {"ok", "failed"}
    /\ None \notin [file : Files, touched : Nat, changed : Nat] \cup [file : Files, changed : Nat]
BoundsAssumption == MaxHands \in Nat /\ MaxStops \in Nat

VARIABLES
    path,           \* the file at the output path
    touched,        \* how often the content of a file changed: its mtime
    changed,        \* how often its content or its links did: its ctime
    at,             \* where a writer is
    mode,           \* how it was called: [overwrite, checked]
    original,       \* what it saw at the path at first
    backup,         \* the file its .rollback name links
    replacement,    \* what it saw there after its renaming
    told,           \* how its publication ended
    interrupted,
    hands,
    unseen,         \* the file changed where the writer does not look again
    taken           \* whose step took a file off the path, if a writer's

disk == <<path, touched, changed>>
seen == <<original, replacement>>
history == <<unseen, taken>>
vars == <<disk, at, mode, seen, backup, told, interrupted, hands, history>>

Stat(f) == IF f = None THEN None ELSE [file |-> f, touched |-> touched[f], changed |-> changed[f]]

\* What two looks at a path compare: the inode and its ctime.
Version(s) == IF s = None THEN None ELSE [file |-> s.file, changed |-> s.changed]

Same(s, t) == Version(s) = Version(t)

Init ==
    /\ path \in {None, Old}
    /\ touched = [f \in Files |-> 0] /\ changed = [f \in Files |-> 0]
    /\ at = [w \in Writer |-> "idle"]
    /\ mode \in [Writer -> [overwrite : BOOLEAN, checked : BOOLEAN]]
    /\ original = [w \in Writer |-> None] /\ replacement = [w \in Writer |-> None]
    /\ backup = [w \in Writer |-> None]
    /\ told = [w \in Writer |-> None]
    /\ interrupted = [w \in Writer |-> FALSE]
    /\ hands = 0
    /\ unseen = [w \in Writer |-> FALSE] /\ taken = [f \in Files |-> None]

-----------------------------------------------------------------------------
(* History: what a change of the file by "actor" hides from the writers.   *)

\* A writer that may not overwrite looks for a file, and again when it begins;
\* the last look before a renaming, and before a rollback, is another step; and
\* what is there after a renaming is taken for the writer's own.
Unwatched(w) == {"ready", "replaced", "restoring"} \cup IF mode[w].overwrite THEN {} ELSE {"open"}

\* The hard link of a backup is the same inode, so that its content changes too.
Unread(w) == Unwatched(w) \cup {"verified"}

Observed(actor) ==
    unseen' = [w \in Writer |->
        \/ unseen[w]
        \/ w # actor /\ path' # path /\ at[w] \in Unwatched(w)
        \/ w # actor /\ touched' # touched /\ at[w] \in Unread(w)]

Linked(f) == path = f \/ \E w \in Writer : backup[w] = f

Moves(actor) ==
    /\ Observed(actor)
    /\ taken' = [f \in Files |-> IF path' = f THEN None ELSE IF path = f THEN actor ELSE taken[f]]

-----------------------------------------------------------------------------
(* A writer.                                                               *)

Goes(w, to) == at' = [at EXCEPT ![w] = to]

Relinked(f) == changed' = IF f = None THEN changed ELSE [changed EXCEPT ![f] = @ + 1]

Fails(w, to) == Goes(w, to) /\ told' = [told EXCEPT ![w] = "failed"]

Start(w) ==
    /\ at[w] = "idle"
    /\ IF path # None /\ ~mode[w].overwrite THEN Fails(w, "ended") ELSE Goes(w, "open") /\ UNCHANGED told
    /\ UNCHANGED <<disk, seen, backup, interrupted, history>>

\* The path is looked at, and a temporary file created.
Open(w) ==
    /\ at[w] = "open"
    /\ original' = [original EXCEPT ![w] = Stat(path)]
    /\ Goes(w, "writing")
    /\ UNCHANGED <<disk, backup, told, replacement, interrupted, history>>

\* The content is written, which may fail, and the path is compared.
Compare(w) ==
    /\ at[w] = "writing"
    /\ \/ Fails(w, "cleanup")
       \/ /\ Same(Stat(path), original[w])
          /\ Goes(w, IF mode[w].checked THEN "linking" ELSE "ready")
          /\ UNCHANGED told
    /\ UNCHANGED <<disk, seen, backup, interrupted, history>>

\* The deadline may be over.  What is at the path is linked by a second name.
Link(w) ==
    /\ at[w] = "linking"
    /\ \/ Fails(w, "cleanup") /\ UNCHANGED <<backup, changed>>
       \/ /\ original[w] = None
          /\ Goes(w, "verified") /\ UNCHANGED <<told, backup, changed>>
       \/ /\ original[w] # None /\ path # None
          /\ backup' = [backup EXCEPT ![w] = path]
          /\ Relinked(path)
          /\ Goes(w, "linked") /\ UNCHANGED told
    /\ UNCHANGED <<path, touched, seen, interrupted, history>>

\* Mutant: the ctime, which the link changes, is not replaced by anything.
LinkedAnything(w) == backup[w] # None

\* The link must be what was there at first: its ctime may have changed.
LinkedTheOriginal(w) == backup[w] = original[w].file /\ touched[backup[w]] = original[w].touched

Verify(w) ==
    /\ at[w] = "linked"
    /\ IF LinkedTheOriginal(w) THEN Goes(w, "verified") /\ UNCHANGED told ELSE Fails(w, "removing")
    /\ UNCHANGED <<disk, seen, backup, interrupted, history>>

Recheck(w) ==
    /\ at[w] = "verified"
    /\ IF Same(Stat(path), Stat(backup[w])) THEN Goes(w, "ready") /\ UNCHANGED told
       ELSE Fails(w, "removing")
    /\ UNCHANGED <<disk, seen, backup, interrupted, history>>

\* The renaming; only after it the writer remembers that it was done.
Replace(w) ==
    /\ at[w] = "ready"
    /\ path' = w
    /\ Relinked(w)
    /\ Goes(w, "replaced")
    /\ UNCHANGED <<touched, seen, backup, told, interrupted>>
    /\ Moves(w)

Replaced(w) ==
    /\ at[w] = "replaced"
    /\ replacement' = [replacement EXCEPT ![w] = Stat(path)]
    /\ Goes(w, "published")
    /\ UNCHANGED <<disk, original, backup, told, interrupted, history>>

\* The folder is synchronised, and a checked writer looks at its deadline.
Sync(w) ==
    /\ at[w] = "published"
    /\ \/ Goes(w, "removing") /\ told' = [told EXCEPT ![w] = "ok"]
       \/ Fails(w, IF mode[w].checked THEN "rollback" ELSE "cleanup")
    /\ UNCHANGED <<disk, seen, backup, interrupted, history>>

\* The rollback is given up, and the backup stays, if the path has changed.
Rollback(w) ==
    /\ at[w] = "rollback"
    /\ Goes(w, IF replacement[w] # None /\ path # None /\ Same(Stat(path), replacement[w])
               THEN "restoring" ELSE "cleanup")
    /\ UNCHANGED <<disk, seen, backup, told, interrupted, history>>

Restore(w) ==
    /\ at[w] = "restoring"
    /\ path' = backup[w]
    /\ backup' = [backup EXCEPT ![w] = None]
    /\ Relinked(backup[w])
    /\ Goes(w, "cleanup")
    /\ UNCHANGED <<touched, seen, told, interrupted>>
    /\ Moves(w)

Remove(w) ==
    /\ at[w] = "removing"
    /\ backup' = [backup EXCEPT ![w] = None]
    /\ Relinked(backup[w])
    /\ Goes(w, "cleanup")
    /\ UNCHANGED <<path, touched, seen, told, interrupted, history>>

\* The temporary name is removed, if it is still there.
Cleanup(w) ==
    /\ at[w] = "cleanup"
    /\ Goes(w, "ended")
    /\ UNCHANGED <<disk, seen, backup, told, interrupted, history>>

\* Where a cancellation leads.  After the renaming it depends on what the
\* writer had remembered of it by then; a second name that it did not remember
\* stays, and so does one that a rollback was about to use.
AfterInterrupt(w) ==
    CASE at[w] \in {"idle", "open"} -> {"ended"}
      [] at[w] \in {"writing", "linking", "rollback", "restoring", "cleanup"} -> {"cleanup"}
      [] at[w] \in {"linked", "replaced", "removing"} -> {"removing", "cleanup"}
      [] at[w] \in {"verified", "ready"} -> {"removing"}
      [] at[w] = "published" -> {IF mode[w].checked THEN "rollback" ELSE "cleanup"}

Interrupt(w) ==
    /\ at[w] # "ended"
    /\ Cardinality({v \in Writer : interrupted[v]}) < MaxStops
    /\ ~interrupted[w]
    /\ interrupted' = [interrupted EXCEPT ![w] = TRUE]
    /\ \E to \in AfterInterrupt(w) :
        /\ Goes(w, to)
        /\ unseen' = [unseen EXCEPT ![w] = @ \/ (at[w] = "replaced" /\ to = "removing")]
    /\ told' = [told EXCEPT ![w] = IF @ = None THEN "failed" ELSE @]
    /\ UNCHANGED <<disk, seen, backup, taken>>

WriterStep(w) ==
    /\ \/ Start(w) \/ Open(w) \/ Compare(w) \/ Link(w) \/ Verify(w) \/ Recheck(w) \/ Replace(w) \/ Replaced(w)
       \/ Sync(w) \/ Rollback(w) \/ Restore(w) \/ Remove(w) \/ Cleanup(w) \/ Interrupt(w)
    /\ UNCHANGED <<mode, hands>>

-----------------------------------------------------------------------------
(* People.                                                                 *)

\* The file is changed where it is,
Edit ==
    /\ path # None
    /\ touched' = [touched EXCEPT ![path] = @ + 1]
    /\ Relinked(path)
    /\ UNCHANGED path

\* or put there, or replaced by another.
Put ==
    /\ path # Mine /\ ~Linked(Mine) /\ touched[Mine] = 0
    /\ path' = Mine
    /\ Relinked(Mine)
    /\ UNCHANGED touched

Hand ==
    /\ hands < MaxHands /\ hands' = hands + 1
    /\ Edit \/ Put
    /\ Moves(None)
    /\ UNCHANGED <<at, mode, seen, backup, told, interrupted>>

Next == (\E w \in Writer : WriterStep(w)) \/ Hand

Spec == Init /\ [][Next]_vars

-----------------------------------------------------------------------------

\* A file that a writer took off the path has another name still, unless it is
\* its own, or the one it was to replace with the content that it saw, or was
\* changed where the writer does not look again; and what a checked writer that
\* fails takes off the path is never gone.
NothingUnseenIsLost ==
    \A f \in Files : LET w == taken[f] IN
        w # None /\ ~Linked(f) =>
            \/ f = w \/ unseen[w]
            \/ /\ original[w] # None
               /\ f = original[w].file /\ touched[f] = original[w].touched
               /\ told[w] = "failed" => ~mode[w].checked

\* What a checked writer published too late is not left at the path, unless
\* someone has worked on it since or the writer was interrupted.
LateFilesAreWithdrawn ==
    \A w \in Writer :
        at[w] = "ended" /\ told[w] = "failed" /\ mode[w].checked /\ ~interrupted[w] /\ path = w => changed[w] > 1
=============================================================================

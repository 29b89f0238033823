------------------------ MODULE DirectoryPublication ------------------------
(***************************************************************************)
(* Publishing a generated bundle as one folder: generate_dataset_bundle    *)
(* stages it beside the destination, publish_directory renames it there,   *)
(* with --overwrite over the folder that stands there, and both undo what  *)
(* they did when an error or a cancellation stops them.  Writers share the *)
(* destination and nothing else; every file system call is a step.  As     *)
(* docs/reference/generation-modes.md asks ("Do not modify the destination *)
(* concurrently"), an overwriting writer runs alone.                       *)
(*                                                                         *)
(* A directory tree is named by who made it, which is its identity (device *)
(* and inode).  A tree is "half" while it is being written or removed.     *)
(***************************************************************************)
EXTENDS Naturals, FiniteSets

CONSTANTS
    Writer,     \* one generation each, all of them for the same destination
    Overwrite,  \* those run with --overwrite
    Cancelled,  \* those a person may cancel
    MaxStops,   \* bound: how often they are stopped
    Old,        \* the folder that was there before
    Vacant,     \* an empty folder that was there before
    None

WritersAssumption == Overwrite \cup Cancelled \subseteq Writer /\ MaxStops \in Nat
TreesAssumption ==
    /\ Old # Vacant /\ None \notin Writer \cup {Old, Vacant}
    /\ Old \notin Writer /\ Vacant \notin Writer

Trees == Writer \cup {Old, Vacant}

VARIABLES
    dest,    \* the tree at the output path
    temp,    \* per writer: the tree at its staging name
    backup,  \* per writer: the tree at its .rollback name
    half,    \* trees not completely written, or partly removed
    at,      \* per writer: the step it takes next
    saw,     \* per writer: the tree it found at the output path
    victim,  \* per writer: the tree it is removing
    stops,   \* per writer: the steps at which it was stopped
    before   \* per writer: the tree at the output path when it began

vars == <<dest, temp, backup, half, at, saw, victim, stops, before>>

Points == {"idle", "stage", "fill", "look", "recheck", "set aside", "aside", "gone?",
           "put", "sync", "purge", "purging", "return",
           "undo", "undo remove", "undoing", "restore",
           "clean temp", "cleaning temp", "clean dest", "clean remove",
           "cleaning dest", "published", "failed", "killed"}
Over == {"published", "failed", "killed"}
Undoing == {"undo", "undo remove", "undoing", "restore", "clean temp", "cleaning temp",
            "clean dest", "clean remove", "cleaning dest"}

TypeOK ==
    /\ dest \in Trees \cup {None}
    /\ temp \in [Writer -> Trees \cup {None}]
    /\ backup \in [Writer -> Trees \cup {None}]
    /\ half \subseteq Trees
    /\ at \in [Writer -> Points]
    /\ saw \in [Writer -> Trees \cup {None}]
    /\ victim \in [Writer -> Trees \cup {None}]
    /\ stops \in [Writer -> SUBSET Points]
    /\ before \in [Writer -> Trees \cup {None}]

Init ==
    /\ dest \in {None, Old, Vacant}
    /\ temp = [w \in Writer |-> None]
    /\ backup = [w \in Writer |-> None]
    /\ half = {}
    /\ at = [w \in Writer |-> "idle"]
    /\ saw = [w \in Writer |-> None]
    /\ victim = [w \in Writer |-> None]
    /\ stops = [w \in Writer |-> {}]
    /\ before = [w \in Writer |-> None]

-----------------------------------------------------------------------------
(* Operators.                                                              *)

Go(w, point) == at' = [at EXCEPT ![w] = point]

\* rename(2) puts a directory only where there is none, or an empty one.
Free == dest \in {None, Vacant}

\* Where an exception raised at w's current step takes it.
Handler(w) ==
    CASE at[w] = "stage" -> "failed"
      [] at[w] \in {"fill", "look", "recheck", "set aside", "aside",
                    "undo", "undo remove", "undoing", "restore"} -> "clean temp"
      [] at[w] \in {"gone?", "put", "sync"} /\ w \in Overwrite -> "undo"
      [] at[w] \in {"gone?", "put", "sync"} /\ w \notin Overwrite -> "clean temp"
      [] at[w] \in {"purge", "purging", "return"} -> "clean temp"
      [] OTHER -> "failed"

Raise(w) == Go(w, Handler(w))

-----------------------------------------------------------------------------
(* generate_dataset_bundle up to publication.                              *)

Running(w) == at[w] \notin Over \cup {"idle"}

Start(w) ==
    /\ at[w] = "idle"
    /\ \A v \in Writer : Running(v) => {v, w} \cap Overwrite = {}
    /\ before' = [before EXCEPT ![w] = dest]
    /\ Go(w, "stage")
    /\ UNCHANGED <<dest, temp, backup, half, saw, victim, stops>>

Stage(w) ==
    /\ at[w] = "stage"
    /\ temp' = [temp EXCEPT ![w] = w]
    /\ half' = half \cup {w}
    /\ Go(w, "fill")
    /\ UNCHANGED <<dest, backup, saw, victim, stops, before>>

\* All artifacts are written and validated, the manifest last.
Fill(w) ==
    /\ at[w] = "fill"
    /\ half' = half \ {w}
    /\ Go(w, "look")
    /\ UNCHANGED <<dest, temp, backup, saw, victim, stops, before>>

-----------------------------------------------------------------------------
(* publish_directory.                                                      *)

\* Mutant: it keeps whether there is a destination, not which.
LookPresence(w) ==
    /\ at[w] = "look"
    /\ saw' = [saw EXCEPT ![w] = dest # None]
    /\ IF Free \/ w \in Overwrite THEN Go(w, "recheck") ELSE Raise(w)
    /\ UNCHANGED <<dest, temp, backup, half, victim, stops, before>>

Look(w) ==
    /\ at[w] = "look"
    /\ saw' = [saw EXCEPT ![w] = dest]
    /\ IF Free \/ w \in Overwrite THEN Go(w, "recheck") ELSE Raise(w)
    /\ UNCHANGED <<dest, temp, backup, half, victim, stops, before>>

Recheck(w) ==
    /\ at[w] = "recheck"
    /\ IF dest # saw[w] THEN Raise(w)
       ELSE Go(w, IF w \in Overwrite /\ saw[w] # None THEN "set aside" ELSE "put")
    /\ UNCHANGED <<dest, temp, backup, half, saw, victim, stops, before>>

\* Mutant: the old folder is removed first instead of being set aside.
SetAsideGone(w) ==
    /\ at[w] = "set aside"
    /\ dest' = None
    /\ Go(w, "aside")
    /\ UNCHANGED <<temp, backup, half, saw, victim, stops, before>>

SetAside(w) ==
    /\ at[w] = "set aside"
    /\ IF dest = None
       THEN Raise(w) /\ UNCHANGED <<dest, backup>>
       ELSE /\ backup' = [backup EXCEPT ![w] = dest]
            /\ dest' = None
            /\ Go(w, "aside")
    /\ UNCHANGED <<temp, half, saw, victim, stops, before>>

\* The rename has returned and the try statement has not been entered.
Aside(w) ==
    /\ at[w] = "aside"
    /\ Go(w, "gone?")
    /\ UNCHANGED <<dest, temp, backup, half, saw, victim, stops, before>>

Gone(w) ==
    /\ at[w] = "gone?"
    /\ IF dest # None THEN Raise(w) ELSE Go(w, "put")
    /\ UNCHANGED <<dest, temp, backup, half, saw, victim, stops, before>>

\* Mutant: a replacing move that does not mind what stands there.
PutAnyway(w) ==
    /\ at[w] = "put"
    /\ dest' = w /\ temp' = [temp EXCEPT ![w] = None] /\ Go(w, "sync")
    /\ UNCHANGED <<backup, half, saw, victim, stops, before>>

Put(w) ==
    /\ at[w] = "put"
    /\ IF Free
       THEN dest' = w /\ temp' = [temp EXCEPT ![w] = None] /\ Go(w, "sync")
       ELSE Raise(w) /\ UNCHANGED <<dest, temp>>
    /\ UNCHANGED <<backup, half, saw, victim, stops, before>>

Sync(w) ==
    /\ at[w] = "sync"
    /\ IF dest = None THEN Raise(w)
       ELSE Go(w, IF w \in Overwrite /\ saw[w] # None THEN "purge" ELSE "return")
    /\ UNCHANGED <<dest, temp, backup, half, saw, victim, stops, before>>

Return(w) ==
    /\ at[w] = "return"
    /\ Go(w, "published")
    /\ UNCHANGED <<dest, temp, backup, half, saw, victim, stops, before>>

-----------------------------------------------------------------------------
(* Undoing: the exception handlers of publish_directory and of its caller. *)

\* The destination is removed only if it is the tree that was just put there.
Undo(w) ==
    /\ at[w] = "undo"
    /\ Go(w, IF dest = w THEN "undo remove"
             ELSE IF dest = None /\ backup[w] # None THEN "restore"
             ELSE "clean temp")
    /\ UNCHANGED <<dest, temp, backup, half, saw, victim, stops, before>>

Restore(w) ==
    /\ at[w] = "restore"
    /\ Go(w, "clean temp")
    /\ IF Free /\ backup[w] # None
       THEN dest' = backup[w] /\ backup' = [backup EXCEPT ![w] = None]
       ELSE UNCHANGED <<dest, backup>>
    /\ UNCHANGED <<temp, half, saw, victim, stops, before>>

CleanTemp(w) ==
    /\ at[w] = "clean temp"
    /\ IF temp[w] = w
       THEN /\ Go(w, "cleaning temp")
            /\ half' = half \cup {w} /\ victim' = [victim EXCEPT ![w] = w]
       ELSE Go(w, "clean dest") /\ UNCHANGED <<half, victim>>
    /\ UNCHANGED <<dest, temp, backup, saw, stops, before>>

CleanDest(w) ==
    /\ at[w] = "clean dest"
    /\ Go(w, IF dest = w THEN "clean remove" ELSE "failed")
    /\ UNCHANGED <<dest, temp, backup, half, saw, victim, stops, before>>

-----------------------------------------------------------------------------
(* shutil.rmtree: it opens the directory a name leads to, empties it and   *)
(* removes the name.  Meanwhile the name may come to lead elsewhere, and   *)
(* rmdir does not remove a directory that is not empty.                    *)

RemoveBegins(w) ==
    /\ at[w] \in {"undo remove", "clean remove", "purge"}
    /\ LET tree == IF at[w] = "purge" THEN backup[w] ELSE dest
       IN IF tree = None
          THEN Raise(w) /\ UNCHANGED <<half, victim>>
          ELSE /\ half' = half \cup {tree} /\ victim' = [victim EXCEPT ![w] = tree]
               /\ Go(w, CASE at[w] = "undo remove" -> "undoing"
                          [] at[w] = "clean remove" -> "cleaning dest"
                          [] at[w] = "purge" -> "purging")
    /\ UNCHANGED <<dest, temp, backup, saw, stops, before>>

\* Mutant: the handler goes on as if the old folder were back.
UndoneForgetful(w) ==
    /\ at[w] = "undoing"
    /\ dest' = IF dest = victim[w] THEN None ELSE dest
    /\ Go(w, "clean temp")
    /\ UNCHANGED <<temp, backup, half, saw, victim, stops, before>>

Undone(w) ==
    /\ at[w] = "undoing"
    /\ IF dest = victim[w]
       THEN /\ dest' = None
            /\ Go(w, IF backup[w] # None THEN "restore" ELSE "clean temp")
       ELSE Raise(w) /\ UNCHANGED dest
    /\ UNCHANGED <<temp, backup, half, saw, victim, stops, before>>

Purged(w) ==
    /\ at[w] = "purging"
    /\ backup' = [backup EXCEPT ![w] = None]
    /\ Go(w, "return")
    /\ UNCHANGED <<dest, temp, half, saw, victim, stops, before>>

CleanedTemp(w) ==
    /\ at[w] = "cleaning temp"
    /\ temp' = [temp EXCEPT ![w] = None]
    /\ Go(w, "clean dest")
    /\ UNCHANGED <<dest, backup, half, saw, victim, stops, before>>

CleanedDest(w) ==
    /\ at[w] = "cleaning dest"
    /\ dest' = IF dest = victim[w] THEN None ELSE dest
    /\ Go(w, "failed")
    /\ UNCHANGED <<temp, backup, half, saw, victim, stops, before>>

-----------------------------------------------------------------------------
(* Stops.                                                                  *)

Stopped(w) ==
    /\ Running(w)
    /\ Cardinality(UNION {{v} \X stops[v] : v \in Writer}) < MaxStops
    /\ stops' = [stops EXCEPT ![w] = @ \cup {at[w]}]
    /\ UNCHANGED <<dest, temp, backup, half, saw, victim, before>>

\* An OSError, a deadline or a size limit.  One while the folder set aside is
\* removed is ignored; nothing that only computes can fail.
Error(w) ==
    /\ Stopped(w)
    /\ at[w] \notin {"aside", "return"}
    /\ IF at[w] \in {"purge", "purging"} THEN Go(w, "return") ELSE Raise(w)

\* KeyboardInterrupt, between any two calls.
Interrupt(w) == w \in Cancelled /\ Stopped(w) /\ Raise(w)

Kill(w) == Stopped(w) /\ Go(w, "killed")

Step(w) ==
    \/ Start(w) \/ Stage(w) \/ Fill(w)
    \/ Look(w) \/ Recheck(w) \/ SetAside(w) \/ Aside(w) \/ Gone(w)
    \/ Put(w) \/ Sync(w) \/ Return(w)
    \/ Undo(w) \/ Restore(w) \/ CleanTemp(w) \/ CleanDest(w)
    \/ RemoveBegins(w) \/ Undone(w) \/ Purged(w) \/ CleanedTemp(w) \/ CleanedDest(w)
    \/ Error(w) \/ Interrupt(w) \/ Kill(w)

Next == \E w \in Writer : Step(w)
Spec == Init /\ [][Next]_vars

-----------------------------------------------------------------------------
(* Properties.                                                             *)

Whole(tree) == tree \notin half \cup {None, Vacant}

\* A bundle that someone relies on.
Bundle(tree) == tree = Old \/ (tree \in Writer /\ at[tree] = "published")

\* Once a bundle is to be replaced, whatever fails and wherever the overwriting
\* writer dies, a complete bundle remains at the output path or under a
\* .rollback name.
NeverNothing ==
    (\E w \in Overwrite : Bundle(before[w])) =>
        Whole(dest) \/ \E w \in Overwrite : Whole(backup[w])

\* A publication that an error or a cancellation stopped is rolled back, unless
\* the rollback was stopped too: its bundle is gone, its staging directory as
\* well, and a folder it was to overwrite is where it was.
FailureRollsBack ==
    [][\A w \in Writer :
         Running(w) /\ at'[w] = "failed" /\ stops'[w] \cap Undoing = {} =>
            /\ dest' # w /\ temp'[w] = None
            /\ w \in Overwrite => dest' = before[w]]_vars

\* What a writer reported as published stays there, complete, whatever other
\* writers for the same destination attempt, undo or clean up, until one that
\* may overwrite it begins.
PublishedStays ==
    \A w \in Writer : at[w] = "published" =>
        \/ dest = w /\ Whole(w)
        \/ \E v \in Overwrite : before[v] = w

\* Publication succeeded when the removal of the folder that was set aside
\* begins: stopping it must not remove the new output.
PurgeKeepsOutput == \A w \in Overwrite : backup[w] \in half => dest = w /\ Whole(w)
=============================================================================

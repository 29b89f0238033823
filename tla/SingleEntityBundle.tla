------------------------- MODULE SingleEntityBundle -------------------------
(***************************************************************************)
(* Publishing a single-entity bundle into a folder that may hold an older  *)
(* one: commit_single_entity_bundle moves the colliding files aside, one   *)
(* rename each, moves the staged files in, the manifest last, and moves    *)
(* everything back when it is stopped.  It is not one transaction: the     *)
(* process can die between any two renames.                                *)
(***************************************************************************)
EXTENDS Naturals, Sequences, FiniteSets, SequencesExt

CONSTANTS
    ByName,     \* names of a bundle's files, in alphabetical order
    Manifest,   \* generation_manifest.json
    Primary,    \* the generated rows
    MaxStops    \* bound: errors and cancellations in one run

Names == ToSet(ByName)

NamesAssumption ==
    /\ ByName \in Seq(Names) /\ \A i, j \in DOMAIN ByName : ByName[i] = ByName[j] => i = j
    /\ Manifest \in Names /\ Primary \in Names \ {Manifest}
StopsAssumption == MaxStops \in Nat

VARIABLES
    out,        \* the output folder: a file is "old", "new" or "none"
    temp,       \* the staging directory, which lies in the output folder
    roll,       \* the staging directory's .rollback
    before,     \* the output folder at the start
    overwrite,  \* --overwrite is given
    moves,      \* names whose move is due, first first
    at,         \* where the run stands
    stops,      \* where an error or a cancellation hit it
    alive       \* FALSE once the process was killed

vars == <<out, temp, roll, before, overwrite, moves, at, stops, alive>>
input == <<before, overwrite>>

Folder == [Names -> {"none", "old", "new"}]
Present(folder) == {n \in Names : folder[n] # "none"}
Nothing == [n \in Names |-> "none"]
Complete == [n \in Names |-> "new"]

Forward == {"check", "aside", "place", "complete", "drop rollback", "drop temp", "published"}
RollingBack == {"undo", "drop undone", "clean"}
Points == Forward \cup RollingBack \cup {"failed"}

TypeOK ==
    /\ out \in Folder /\ temp \in Folder /\ roll \in Folder
    /\ before \in [Names -> {"none", "old"}] /\ overwrite \in BOOLEAN
    /\ moves \in Seq(Names)
    /\ at \in Points
    /\ stops \subseteq Points
    /\ alive \in BOOLEAN

\* The staging directory is complete: generation fails before it is published.
Init ==
    /\ before \in [Names -> {"none", "old"}] /\ overwrite \in BOOLEAN
    /\ out = before /\ temp = Complete /\ roll = Nothing
    /\ moves = <<>> /\ at = "check" /\ stops = {} /\ alive = TRUE

Goto(point) == at' = point /\ UNCHANGED <<input, stops, alive>>
Stay == UNCHANGED <<input, at, stops, alive>>

-----------------------------------------------------------------------------
(* Publication.                                                            *)

\* Mutant: plain alphabetical order.
StagedByName == ByName

StagedOrder ==
    LET m == CHOOSE i \in DOMAIN ByName : ByName[i] = Manifest
    IN  RemoveAt(ByName, m) \o <<Manifest>>

\* _validate_existing_single_entity_bundle: only the rows of an earlier run,
\* or the same complete bundle, may be replaced.
Replaceable == Present(out) \in {{Primary}, Names}

\* The staged files that are in the folder already, in the same order: the
\* filter of the code, for each folder that is let pass.
Collisions ==
    CASE Present(out) = {} -> <<>>
      [] Present(out) = {Primary} -> <<Primary>>
      [] Present(out) = Names -> StagedOrder

Accept ==
    /\ alive /\ at = "check"
    /\ Present(out) = {} \/ (overwrite /\ Replaceable)
    /\ moves' = Collisions
    /\ Goto("aside") /\ UNCHANGED <<out, temp, roll>>

\* A complete bundle is refused too when a file does not match its manifest.
Refuse ==
    /\ alive /\ at = "check"
    /\ Present(out) # {}
    /\ overwrite => Present(out) # {Primary}
    /\ Goto("clean") /\ UNCHANGED <<out, temp, roll, moves>>

\* Mutant: the colliding file is removed instead of being moved aside.
AsideDropped ==
    /\ alive /\ at = "aside" /\ moves # <<>>
    /\ out' = [out EXCEPT ![Head(moves)] = "none"]
    /\ moves' = Tail(moves)
    /\ Stay /\ UNCHANGED <<temp, roll>>

\* Mutant: it is noted that there is a backup, not which file it is.
AsideNoted ==
    /\ alive /\ at = "aside" /\ moves # <<>>
    /\ roll' = [roll EXCEPT ![Head(moves)] = "moved"]
    /\ out' = [out EXCEPT ![Head(moves)] = "none"]
    /\ moves' = Tail(moves)
    /\ Stay /\ UNCHANGED temp

Aside ==
    /\ alive /\ at = "aside" /\ moves # <<>>
    /\ roll' = [roll EXCEPT ![Head(moves)] = out[Head(moves)]]
    /\ out' = [out EXCEPT ![Head(moves)] = "none"]
    /\ moves' = Tail(moves)
    /\ Stay /\ UNCHANGED temp

AsideDone ==
    /\ alive /\ at = "aside" /\ moves = <<>>
    /\ moves' = StagedOrder
    /\ Goto("place") /\ UNCHANGED <<out, temp, roll>>

Place ==
    /\ alive /\ at = "place" /\ moves # <<>>
    /\ out' = [out EXCEPT ![Head(moves)] = temp[Head(moves)]]
    /\ temp' = [temp EXCEPT ![Head(moves)] = "none"]
    /\ moves' = Tail(moves)
    /\ Stay /\ UNCHANGED roll

PlaceDone ==
    /\ alive /\ at = "place" /\ moves = <<>>
    /\ Goto("complete") /\ UNCHANGED <<out, temp, roll, moves>>

\* The last deadline check, and the end of the try statement.
Commit ==
    /\ alive /\ at = "complete"
    /\ Goto("drop rollback") /\ UNCHANGED <<out, temp, roll, moves>>

DropRollback ==
    /\ alive /\ at = "drop rollback"
    /\ roll' = Nothing
    /\ Goto("drop temp") /\ UNCHANGED <<out, temp, moves>>

DropTemp ==
    /\ alive /\ at = "drop temp"
    /\ temp' = Nothing
    /\ Goto("published") /\ UNCHANGED <<out, roll, moves>>

-----------------------------------------------------------------------------
(* The exception handlers: for each name in reversed staged order, a file  *)
(* moved in goes back to the staging directory, then the one moved aside   *)
(* goes back to the folder.                                                *)

\* Mutant: a file that was moved in is recognised by its backup.
MovedInBacked(n) == temp[n] = "none" /\ roll[n] # "none" /\ out[n] # "none"

MovedIn(n) == temp[n] = "none" /\ out[n] # "none"

TakeOut ==
    /\ alive /\ at = "undo" /\ moves # <<>>
    /\ LET n == Head(moves)
       IN /\ MovedIn(n)
          /\ temp' = [temp EXCEPT ![n] = out[n]]
          /\ out' = [out EXCEPT ![n] = "none"]
    /\ Stay /\ UNCHANGED <<roll, moves>>

PutBack ==
    /\ alive /\ at = "undo" /\ moves # <<>>
    /\ LET n == Head(moves)
       IN /\ ~MovedIn(n) /\ roll[n] # "none"
          /\ out' = [out EXCEPT ![n] = roll[n]]
          /\ roll' = [roll EXCEPT ![n] = "none"]
    /\ moves' = Tail(moves)
    /\ Stay /\ UNCHANGED temp

LeaveAlone ==
    /\ alive /\ at = "undo" /\ moves # <<>>
    /\ ~MovedIn(Head(moves)) /\ roll[Head(moves)] = "none"
    /\ moves' = Tail(moves)
    /\ Stay /\ UNCHANGED <<out, temp, roll>>

UndoDone ==
    /\ alive /\ at = "undo" /\ moves = <<>>
    /\ Goto("drop undone") /\ UNCHANGED <<out, temp, roll, moves>>

DropUndone ==
    /\ alive /\ at = "drop undone"
    /\ roll' = Nothing
    /\ Goto("clean") /\ UNCHANGED <<out, temp, moves>>

\* The caller removes the staging directory with whatever .rollback holds.
Clean ==
    /\ alive /\ at = "clean"
    /\ temp' = Nothing /\ roll' = Nothing
    /\ Goto("failed") /\ UNCHANGED <<out, moves>>

-----------------------------------------------------------------------------
(* Stops.                                                                  *)

\* An OSError, the deadline or KeyboardInterrupt between two renames.
Stop ==
    /\ alive /\ at \notin {"published", "failed"}
    /\ Cardinality(stops) < MaxStops
    /\ stops' = stops \cup {at}
    /\ IF at \in {"aside", "place", "complete"}
       THEN at' = "undo" /\ moves' = Reverse(StagedOrder)
       ELSE at' = (IF at = "clean" THEN "failed" ELSE "clean") /\ UNCHANGED moves
    /\ UNCHANGED <<out, temp, roll, input, alive>>

Kill ==
    /\ alive /\ at \notin {"published", "failed"}
    /\ alive' = FALSE
    /\ UNCHANGED <<out, temp, roll, input, moves, at, stops>>

Next ==
    \/ Accept \/ Refuse
    \/ Aside \/ AsideDone \/ Place \/ PlaceDone
    \/ Commit \/ DropRollback \/ DropTemp
    \/ TakeOut \/ PutBack \/ LeaveAlone \/ UndoDone \/ DropUndone \/ Clean
    \/ Stop \/ Kill

Spec == Init /\ [][Next]_vars

-----------------------------------------------------------------------------
(* Properties.                                                             *)

OldKept ==
    \/ out = Complete
    \/ \A n \in Names : before[n] = "old" => "old" \in {out[n], roll[n]}

\* A run ends with the whole new bundle or with the folder as it found it,
\* unless a second error or cancellation cut its rollback short; the new
\* bundle stays after a failure only if what failed was removing the backups.
AllOrNothing ==
    /\ at = "published" => out = Complete
    /\ at = "failed" /\ stops \cap {"undo", "drop undone"} = {} =>
         out = IF stops \cap {"drop rollback", "drop temp"} # {} THEN Complete ELSE before

\* The manifest is published last: up to a rollback, also after a kill, a new
\* manifest means the whole new bundle and an old one that nothing new is there.
ManifestLast ==
    at \in Forward =>
        /\ out[Manifest] = "new" => out = Complete
        /\ out[Manifest] = "old" => \A n \in Names : out[n] # "new"

\* Every file of the old bundle is in the folder or in .rollback until the new
\* bundle is complete, wherever the run is killed and wherever it is stopped
\* once, or a second time while it only removes staging data.
NothingLost == stops \cap {"undo", "drop undone"} = {} => OldKept

\* The same when the rollback itself is stopped: then files that have not been
\* moved back are the only copy.
RollbackLosesNothing == OldKept
=============================================================================

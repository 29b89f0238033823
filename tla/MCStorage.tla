------------------------------ MODULE MCStorage ------------------------------
(***************************************************************************)
(* Small instances, for TLC, of what the program keeps on disk: the audit  *)
(* log, folders, single files and the files of a single entity that are    *)
(* published; and of the invocations of Trino's tools, which the log tells *)
(* of.  They share no state, so one of them is followed in each behaviour, "which".  *)
(* Meanwhile the variables of the others stay as they are: those of the    *)
(* log as at first, the rest at None.  A variable that several of the rest *)
(* have is declared once.                                                  *)
(***************************************************************************)
EXTENDS AuditLog, TLC

CONSTANTS
    w1, w2, w3, f1, f2, f3, Old, Mine, Vacant, data, spec, manifest, report,
    FolderWriters,  \* writers of one folder
    Overwriting,    \* those run with --overwrite
    Interruptible,  \* those a person may interrupt
    FolderStops,    \* bound: how often they are stopped
    BundleFiles,    \* files of a single entity
    BundleStops,    \* bound: how often their publication is stopped
    FileWriters,    \* writers of one file
    FileHands, FileStops,   \* bounds: what people do to it, writers that are interrupted
    TrinoCalls, TrinoTools, TrinoSlots, TrinoLimits, TrinoRows, TrinoScan, TrinoConfigs, TrinoTables, TopCategories

VARIABLES
    which, step, temp, stops, before,
    dest, backup, half, saw, victim,
    out, roll, overwrite, moves, alive,
    path, touched, changed, mode, original, replacement, kept, told, interrupted, hands, unseen, taken,
    config, free, todo, spent, asked, late, overtime, rows, open, facts, result

shared == <<step, temp, stops, before>>
ofFolders == <<dest, backup, half, saw, victim>>
ofFiles == <<out, roll, overwrite, moves, alive>>
ofFile == <<path, touched, changed, mode, original, replacement, kept, told, interrupted, hands, unseen, taken>>
ofTrino == <<config, free, todo, spent, asked, late, overtime, rows, open, facts, result>>
all == <<which, vars, shared, ofFolders, ofFiles, ofFile, ofTrino>>

Folders == INSTANCE DirectoryPublication WITH
    at <- step, Writer <- FolderWriters, Overwrite <- Overwriting, Cancelled <- Interruptible, MaxStops <- FolderStops

\* data.csv, dataset_spec.yaml, generation_manifest.json, validation_report.json
SomeFiles == <<data, spec, manifest, report>>

Files == INSTANCE SingleEntityBundle WITH
    at <- step, ByName <- BundleFiles, Manifest <- manifest, Primary <- data, MaxStops <- BundleStops

File == INSTANCE FilePublication WITH
    at <- step, backup <- kept, Writer <- FileWriters, MaxHands <- FileHands, MaxStops <- FileStops

SomeTools == "c1" :> {"table_safe", "formula", "select"} @@ "c2" :> {"list"}

Col(name, type, secret, distinct, sensitive) ==
    [name |-> name, type |-> type, secret |-> secret, distinct |-> distinct, sensitive |-> sensitive]

City == Col("city", "text", FALSE, 2, FALSE)
Contact == Col("contact", "text", FALSE, 1, TRUE)
Salary == Col("salary", "number", TRUE, 0, FALSE)

SomeTables == {{}, {City, Salary}, {City, Contact, Salary}}

Config(columns, wildcard, scan) ==
    [restricted |-> columns # None, unrestricted |-> columns = None, columns |-> columns,
     wildcard |-> wildcard, shared |-> scan # None, scan |-> scan, oauth |-> columns # None]

SomeConfigs ==
    {Config(None, FALSE, None),
     Config({"contact"}, FALSE, 4), Config({}, TRUE, None),
     [Config({}, FALSE, None) EXCEPT !.unrestricted = TRUE],
     [Config({}, TRUE, None) EXCEPT !.unrestricted = TRUE],
     [Config({}, TRUE, None) EXCEPT !.shared = TRUE]}

SomeLimits == [argument |-> 2, text |-> 1, statements |-> 5, projected |-> 18, profiled |-> 3, payload |-> 7]

Trino == INSTANCE TrinoInvocations WITH
    at <- step, Calls <- TrinoCalls, Slots <- TrinoSlots, RowLimit <- TrinoRows, ScanPerQuery <- TrinoScan,
    TopValues <- TopCategories, ToolsOf <- TrinoTools, Limits <- TrinoLimits, Configs <- TrinoConfigs,
    Descriptions <- TrinoTables

\* Interrupting the removal of a folder that was replaced loses both (run folder_purge).
ASSUME FoldersAssumption ==
    Folders!WritersAssumption /\ Folders!TreesAssumption /\ Overwriting \cap Interruptible = {}
ASSUME BundleAssumption == Files!NamesAssumption /\ Files!StopsAssumption
ASSUME FileAssumption == File!FilesAssumption /\ File!BoundsAssumption
ASSUME TrinoAssumption == Trino!SlotsAssumption /\ Trino!LimitAssumption /\ Trino!ToolsAssumption

Symmetric == Permutations(Worker) \cup Permutations({f1, f2})

NoFolders == dest = None /\ backup = None /\ half = None /\ saw = None /\ victim = None
NoFiles == out = None /\ roll = None /\ overwrite = None /\ moves = None /\ alive = None
NoFile == /\ path = None /\ touched = None /\ changed = None /\ mode = None /\ original = None
          /\ replacement = None /\ kept = None /\ told = None /\ interrupted = None /\ hands = None
          /\ unseen = None /\ taken = None
NoTrino == /\ config = None /\ free = None /\ todo = None /\ spent = None /\ asked = None /\ late = None
           /\ overtime = None /\ rows = None /\ open = None /\ facts = None /\ result = None

StorageInit ==
    /\ Init
    /\ which \in {"log", "folders", "files", "file", "trino"}
    /\ which # "folders" => NoFolders
    /\ which # "files" => NoFiles
    /\ which # "file" => NoFile
    /\ which # "trino" => NoTrino
    /\ which \notin {"folders", "files"} => temp = None /\ stops = None /\ before = None
    /\ CASE which = "log" -> step = None
         [] which = "folders" -> Folders!Init
         [] which = "files" -> Files!Init
         [] which = "file" -> File!Init
         [] which = "trino" -> Trino!Init

\* Publications and invocations end; the servers that share the log do not.
Over ==
    \/ which = "folders" /\ \A w \in FolderWriters : step[w] \in Folders!Over
    \/ which = "files" /\ (~alive \/ step \in {"published", "failed"})
    \/ which = "file" /\ \A w \in FileWriters : step[w] = "ended"
    \/ which = "trino" /\ \A c \in TrinoCalls : step[c] = "over"

StorageNext ==
    \/ /\ which = "log" /\ Next
       /\ UNCHANGED <<which, shared, ofFolders, ofFiles, ofFile, ofTrino>>
    \/ /\ which = "folders" /\ Folders!Next
       /\ UNCHANGED <<which, vars, ofFiles, ofFile, ofTrino>>
    \/ /\ which = "files" /\ Files!Next
       /\ UNCHANGED <<which, vars, ofFolders, ofFile, ofTrino>>
    \/ /\ which = "file" /\ File!Next
       /\ UNCHANGED <<which, vars, temp, stops, before, ofFolders, ofFiles, ofTrino>>
    \/ /\ which = "trino" /\ Trino!Next
       /\ UNCHANGED <<which, vars, temp, stops, before, ofFolders, ofFiles, ofFile>>
    \/ Over /\ UNCHANGED all

StorageSpec == StorageInit /\ [][StorageNext]_all

-----------------------------------------------------------------------------
(* The properties of the instances, as their modules state them.           *)

\* TrinoInvocations.SlotsAreReturned, WorkIsCharged, OneLateStatement
\* Every slot is free or held by one statement that has not ended, whatever
\* failed meanwhile, and what is not held has nothing open; the database is
\* never asked for work that was not charged first, so never for more than the
\* limits; and at most one statement of an invocation is sent after its
\* deadline, the one whose time was already granted.
InvocationsAreBounded ==
    which = "trino" => Trino!SlotsAreReturned /\ Trino!WorkIsCharged /\ Trino!OneLateStatement

\* TrinoInvocations.OnlyAllowedColumns
\* An answer only tells of columns that the allowlist names or covers by a
\* wildcard; categories need the name, and a column with a sensitive name is
\* described by counts and magnitudes alone.
OnlyAllowedColumns == which = "trino" => Trino!OnlyAllowedColumns

\* DirectoryPublication.NeverNothing, PublishedStays
\* Once a bundle is to be replaced, whatever fails and wherever the overwriting
\* writer dies, a complete bundle remains at the output path or under a
\* .rollback name; and what a writer reported as published stays there,
\* complete, whatever other writers for the same destination attempt, undo or
\* clean up, until one that may overwrite it begins.
FoldersAreKept == which = "folders" => Folders!NeverNothing /\ Folders!PublishedStays

\* DirectoryPublication.FailureRollsBack
\* A publication that an error or a cancellation stopped is rolled back, unless
\* the rollback was stopped too: its bundle is gone, its staging directory as
\* well, and a folder it was to overwrite is where it was.
FailureRollsBack ==
    [][which = "folders" =>
        \A w \in FolderWriters :
            Folders!Running(w) /\ step'[w] = "failed" /\ stops'[w] \cap Folders!Undoing = {} =>
                /\ dest' # w /\ temp'[w] = None
                /\ w \in Overwriting => dest' = before[w]]_all

\* SingleEntityBundle.AllOrNothing, ManifestLast, NothingLost;
\* FilePublication.NothingUnseenIsLost, LateFilesAreWithdrawn
\* A run ends with the whole new bundle or with the folder as it found it,
\* unless a second error or cancellation cut its rollback short (the new
\* bundle stays after a failure only if what failed was removing the backups);
\* up to a rollback, also after a kill, a new manifest means the whole new
\* bundle and an old one that nothing new is there; and every file of the old
\* bundle is in the folder or in .rollback until the new one is complete.
\* Writers of one file destroy only what they were to replace, as they saw it,
\* and what is published too late is taken back.
FilesAreKept ==
    /\ which = "files" => Files!AllOrNothing /\ Files!ManifestLast /\ Files!NothingLost
    /\ which = "file" => File!NothingUnseenIsLost /\ File!LateFilesAreWithdrawn
==============================================================================

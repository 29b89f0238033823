----------------------------- MODULE MCSynthesis -----------------------------
(***************************************************************************)
(* Small instances, for TLC, of the way from sources to generated data:    *)
(* profiles of databases and of folders, what advisors are told of a       *)
(* profile, semantic values, and bundles generated from a specification.   *)
(* They share no state, so one of them is followed in each behaviour,      *)
(* "which".  Meanwhile the variables of the others stay as they are: those *)
(* of bundles at a state in which nothing has begun, the rest at None.  A  *)
(* variable that several of the rest have is declared once.                *)
(***************************************************************************)
EXTENDS DatasetBundle

CONSTANTS
    None, Blank, bad1, bad2, pii,
    DatabaseContents, DatabaseTasks, DatabaseLimits, DatabaseWrites, DatabaseSecrets,
    FolderFiles, FolderContents, FolderReading, FolderNames, FolderCaps, FolderLabels,
    FolderDrafts, FolderTasks, FolderTotals, FolderLimits, FolderEdits,
    AdviceCalls, AdviceClients, AdviceTasks, AdviceAssignments, AdviceCandidates, AdviceEdits(_), AdviceRankings,
    AdviceNames, AdviceTypes, AdviceSecrets, AdviceRetries, AdviceRetryLimit, AdviceLongestDelay,
    SemanticGenerations, SemanticCells, SemanticAnswers

VARIABLES
    which, step, job, todo, result,
    db, writes, file, text, spent, draft,
    folder, stamp, cache, read, profile, rows,
    client, exchange, tries, waited, answer, proposal, meta, last, outcome,
    end, thread, queue, values

shared == <<step, job, todo, result>>
ofDatabase == <<db, writes, file, text, spent, draft>>
ofFolder == <<folder, stamp, cache, read, profile, rows>>
ofAdvice == <<client, exchange, tries, waited, answer, proposal, meta, last, outcome>>
ofSemantics == <<end, thread, queue, values>>
all == <<which, bundleVars, shared, ofDatabase, ofFolder, ofAdvice, ofSemantics>>

-----------------------------------------------------------------------------
(* Cases that the configuration gives for the constants.                   *)

GenerationData == INSTANCE GenerationCases
MCRewrites == GenerationData!CellRewrites
MCSpecs == GenerationData!Specs

DatabaseData == INSTANCE DatabaseCases
SomeDatabases == DatabaseData!Databases
SomeDatabaseTasks == DatabaseData!Tasks
SomeDatabaseLimits == DatabaseData!Limits

FolderData == INSTANCE FolderCases
SomeContents == FolderData!CaseContents
SomeReading == FolderData!CaseReading
SomeNames == FolderData!CaseNames
SomeCaps == FolderData!CaseCaps
SomeDrafts == FolderData!CaseDrafts
SomeFolderTasks == FolderData!CaseTasks
SomeTotals == FolderData!CaseTotals
SomeFolderLimits == FolderData!CaseLimits

AdviceData == INSTANCE AdviceCases
SomeAdviceTasks == AdviceData!Tasks
SomeAssignments == AdviceData!Assignments
SomeCandidates == AdviceData!Candidates
SomeEdits(d) == AdviceData!Edits(d)
SomeRankings == AdviceData!Rankings

CellOf(kind, type, first) == [kind |-> kind, type |-> type, first |-> first]
AnswerOf(safe, n) == [type |-> "string", safe |-> safe, n |-> n]
SomeCells ==
    <<CellOf("semantic", "string", TRUE), CellOf("identifier", "integer", FALSE), CellOf("semantic", "string", TRUE)>>
SomeAnswers == {AnswerOf(TRUE, 1), AnswerOf(TRUE, 2), AnswerOf(FALSE, 1)}

-----------------------------------------------------------------------------

Database == INSTANCE DatabaseProfile WITH
    at <- step, task <- job,
    Databases <- DatabaseContents, Tasks <- DatabaseTasks, Limits <- DatabaseLimits,
    MaxWrites <- DatabaseWrites, Secret <- DatabaseSecrets
Folder == INSTANCE FolderProfile WITH
    at <- step, task <- job,
    Files <- FolderFiles, Contents <- FolderContents, Reading <- FolderReading, Names <- FolderNames,
    Caps <- FolderCaps, CategoryLabels <- FolderLabels, Drafts <- FolderDrafts, Tasks <- FolderTasks,
    Totals <- FolderTotals, Limits <- FolderLimits, MaxEdits <- FolderEdits
Advice == INSTANCE ProviderAdvice WITH
    at <- step, task <- job,
    Calls <- AdviceCalls, Clients <- AdviceClients, Tasks <- AdviceTasks, Assignments <- AdviceAssignments,
    Candidates <- AdviceCandidates, Edits <- AdviceEdits, Rankings <- AdviceRankings,
    SensitiveNames <- AdviceNames, SensitiveTypes <- AdviceTypes, SecretValues <- AdviceSecrets,
    MaxRetries <- AdviceRetries, RetryLimit <- AdviceRetryLimit, LongestDelay <- AdviceLongestDelay
Semantics == INSTANCE SemanticValues WITH
    at <- step, Generations <- SemanticGenerations, Cells <- SemanticCells, Answers <- SemanticAnswers

ASSUME DatabaseAssumption ==
    /\ Database!WritesAssumption /\ Database!DatabasesAssumption /\ Database!TasksAssumption
    /\ Database!LimitsAssumption /\ Database!NoneAssumption
ASSUME FolderAssumption ==
    /\ Folder!EditsAssumption /\ Folder!CapsAssumption /\ Folder!ContentsAssumption
    /\ Folder!LabelsAssumption /\ Folder!NoneAssumption
ASSUME AdviceAssumption ==
    /\ Advice!AssignmentsAssumption /\ Advice!TasksAssumption /\ Advice!EditsAssumption
    /\ Advice!RetriesAssumption /\ Advice!SecretsAssumption /\ Advice!NoneAssumption
ASSUME SemanticsAssumption == Semantics!CellsAssumption /\ Semantics!EndsAssumption

Unused == S = CHOOSE s \in Spec0 : Contract(s)
NoDatabase == db = None /\ writes = None /\ file = None /\ text = None /\ spent = None /\ draft = None
NoFolder == folder = None /\ stamp = None /\ cache = None /\ read = None /\ profile = None /\ rows = None
NoAdvice == /\ client = None /\ exchange = None /\ tries = None /\ waited = None /\ answer = None
            /\ proposal = None /\ meta = None /\ last = None /\ outcome = None
NoSemantics == end = None /\ thread = None /\ queue = None /\ values = None

SynthesisInit ==
    /\ which \in {"generation", "database", "folder", "advice", "semantics"}
    /\ BundleInit
    /\ which # "generation" => Unused
    /\ which # "database" => NoDatabase
    /\ which # "folder" => NoFolder
    /\ which # "advice" => NoAdvice
    /\ which # "semantics" => NoSemantics
    /\ which \notin {"database", "folder"} => todo = None /\ result = None
    /\ which \notin {"database", "folder", "advice"} => job = None
    /\ CASE which = "generation" -> step = None
         [] which = "database" -> Database!Init
         [] which = "folder" -> Folder!Init
         [] which = "advice" -> Advice!Init
         [] which = "semantics" -> Semantics!Init

SynthesisNext ==
    \/ /\ which = "generation" /\ BundleNext
       /\ UNCHANGED <<which, shared, ofDatabase, ofFolder, ofAdvice, ofSemantics>>
    \/ /\ which = "database" /\ Database!Next
       /\ UNCHANGED <<which, bundleVars, ofFolder, ofAdvice, ofSemantics>>
    \/ /\ which = "folder" /\ Folder!Next
       /\ UNCHANGED <<which, bundleVars, ofDatabase, ofAdvice, ofSemantics>>
    \/ /\ which = "advice" /\ Advice!Next
       /\ UNCHANGED <<which, bundleVars, todo, result, ofDatabase, ofFolder, ofSemantics>>
    \/ /\ which = "semantics" /\ Semantics!Next
       /\ UNCHANGED <<which, bundleVars, job, todo, result, ofDatabase, ofFolder, ofAdvice>>

SynthesisSpec == SynthesisInit /\ [][SynthesisNext]_all

-----------------------------------------------------------------------------
(* The properties of the instances, as their modules state them.           *)

\* DatabaseProfile.CountsAgree, ScopeIsComplete, OneVersionIsRead
\* Whatever changed between the statements, the counts of a database's profile
\* that is returned agree: every column has the rows of its table, and the
\* categories of a column are its distinct values and add up to those that are
\* filled; a profile of a scope has all its tables, every column that is
\* allowed by name and no column that is not, and relates what it has; and what
\* is parsed of a query was read from one version of its file.
DatabaseProfilesAgree ==
    which = "database" => Database!CountsAgree /\ Database!ScopeIsComplete /\ Database!OneVersionIsRead

\* FolderProfile.KeysAndSecretsAreSeen, RelationsAreCertain
\* However the values are ordered and where the counts stop, a field that may
\* be a key has no value twice in what was read, and a field with a sensitive
\* value in any row is marked and lists none of its values; and a child's field
\* refers to one parent, by what a person is shown among the candidates.
FolderProfilesAreCertain ==
    which = "folder" => Folder!KeysAndSecretsAreSeen /\ Folder!RelationsAreCertain

\* DatabaseProfile.SecretsAreOnlyCounted, FolderProfile.OnlyAllowedCategories,
\* ProviderAdvice.NothingLocalIsTold
\* From a profile to an advisor no value is told that is not allowed: bounds
\* and values of a database's column only if neither its stored name nor its
\* alias is sensitive; of a folder, found in the cache or not, no value of a
\* field that is not allowed; and to a provider labels in place of all values,
\* none a value of what its client was given, whichever of two projections went
\* before, and no data of local use.
NothingPrivateIsTold ==
    /\ which = "database" => Database!SecretsAreOnlyCounted
    /\ which = "folder" => Folder!OnlyAllowedCategories
    /\ which = "advice" => Advice!NothingLocalIsTold

\* FolderProfile.NoProfiledRowIsPublished
\* What is published of a single CSV file repeats no row that was read for its
\* profile, whatever became of the file meanwhile.
NoProfiledRowIsPublished == which = "folder" => Folder!NoProfiledRowIsPublished

\* ProviderAdvice.AdviceIsRestored, VerificationFits
\* An accepted proposal is the request's specification if the provider returned
\* what it was told; in any case it has the local data and all the settings that
\* the provider never saw, no value of a field that the profile marks, and no
\* label that was told unless it is a value of the request itself; and a request
\* made again of the same profile tells the same, if no value looks like a label.
AdviceIsRestored == which = "advice" => Advice!AdviceIsRestored /\ Advice!VerificationFits

\* ProviderAdvice.RunsAreTold
\* What a call is told of its run is of its own run: of the response it ended
\* with, however calls overlap on a client; a call sends no request more than
\* its retries allow, and waits no longer than the longest run has waits for.
RunsAreTold == which = "advice" => Advice!RunsAreTold

\* SemanticValues.LateValuesAreDiscarded
\* A value of a data set was answered to its own request, of its own
\* generation: what comes late, to a request that was given up, enters none.
LateValuesAreDiscarded == which = "semantics" => Semantics!LateValuesAreDiscarded
==============================================================================

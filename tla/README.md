# Verification of agent-paranoid-android in TLA+

The package `test_data_agent` profiles CSV, Parquet, PostgreSQL or Trino data
without keeping its rows, infers a dataset specification, may ask a language
model for advice about it, has a person review and approve it, and generates
synthetic data; it also transforms real data under a reviewed policy. Its
promises are about what may be on disk, in an answer or in an audit log after
any order of commands, edits, failures, cancellations and kills. This directory
models those parts in TLA+, checks small instances with TLC and proves
invariants and action properties for all instances with TLAPS.

Line numbers refer to `src/src/test_data_agent/` unless a path says otherwise;
`PROJECT.json` maps every definition to its lines, and lists the runs, the
mutants that show that each property can fail, the hazards, the findings and the
theorems.

## 1. The system

### Components

| Component | State it keeps | Operations | Works with | What makes it hard | What makes it correct |
| --- | --- | --- | --- | --- | --- |
| Agent workspace (`agent*.py`, `workspace_store.py`) | plan, spec, profile, review, bundle, receipt and result files | plan, advise, approve, recover, status; a person edits the spec | generation and publication, the advisor, the source | commands in separate processes share a folder with no lock; each can be killed between two files; source and spec change under them | only the approved spec is released, completion is a chain of files that bind one another, an interrupted command can be finished |
| Audit log (`audit.py`) | one file of MAC-linked records | started and terminal record around each tool, verification | every MCP tool; several servers share the file | a lock around read and append, short writes, failed fsync, a size limit with reservations | the chain verifies, calls are paired, nothing is served unrecorded |
| Atomic publication (`io/path_policy.py`, `io/workflows.py`) | staging and rollback names beside the output | publish a folder, publish a single entity's files, replace one file, clean up | everything that writes output | several writers, cancellation between two system calls, rollback that fails | all or nothing; nothing of another writer is touched |
| MCP transport (`mcp_trino_transport.py`) | pending bytes, the registry of active requests | frame, admit, refuse, answer, overflow | the MCP SDK, work budgets | two tasks write one stream; ids are reused; limits | each answer is charged to its request and bounded; every admitted request is answered |
| Work budgets (`trino_work_budget.py`, `core/limits.py`) | counters, a deadline | consume, check the deadline | every long operation | exact limits, reserved room for an error | monotone, never above a limit |
| Trino access (`trino_*.py`, `mcp_trino_server.py`) | a semaphore of query slots | query, stream, profile, mask | driver, budgets | slots freed on every path, deadlines around driver calls, what a column may be asked | never more than the slots; only allowed columns are told of |
| PostgreSQL access (`postgres_*.py`), SQL query source (`sql_query_*.py`) | one read-only session | describe, count, summarize, group; profile a reviewed query | driver | others write to the database between two statements | a profile agrees with what was read, and refuses what it could not read |
| Profiling (`csv_profiler.py`, `profiling/`, `adapters/`) | accumulators with limits; cached profiles | profile a file or a folder, mine constraints, look up | readers, the advisor | limits; a source that changes; a cache that outlives it | aggregates only; certain of what it says |
| Advisor contract and providers (`advisor.py`, `providers/`) | what is told of the last run | one bounded exchange | the model provider | labels stand for values, twice; retries within a deadline; calls overlap | nothing private is told; advice comes back as it was given |
| Dataset model, generation, rules, validation (`core/`, `generation/`, `rules/`, `validation/`) | the rows | draw, link, solve, allocate scenarios, break rules on purpose, validate | the bundle workflow | passes that undo one another; injected cases that repair each other; a provider thread that answers late | rows satisfy the spec, or generation refuses |
| Transformation policy and execution (`core/transformation_*`, `io/transformation_*`) | approval requests, receipts, decisions; captured inputs | review, approve, execute, revise, publish | publication, capture | files, policy and decisions are read again by each command while people edit them | only what was displayed is transformed; originals need an approval |
| Configured SQL sessions (`io/transformation_query_sessions.py`) | sessions, timers, charged bytes | open, consume, refuse, expire, close | isolated capture | timers race with operations; cleanup fails in a timer | captured rows always have someone to remove them |
| Isolated SQL capture (`io/transformation_sql_isolation.py`) | a child process, shared memory | start, join, terminate, kill | database drivers | the child finishes at the deadline or survives termination | a payload only from a clean exit, no child left |
| MCP generator server, command line, writers, container health | none of their own | thin tools, parsing, encodings, checks | all | none | not modelled, section 9 |

### How the parts interact

The CLI and the generator MCP server call the same workflows. A workflow
generates rows in memory, validates them, writes them to a staging folder and
publishes it by rename. The agent workspace wraps a workflow in review and
approval: `agent-plan` profiles a source and publishes a workspace folder,
`agent-advise` may rewrite the spec through a provider, `agent-approve` checks
the fingerprint a person typed and publishes the bundle, a receipt and a result,
and `agent-recover` finishes what a stopped approval left. A transformation is
reviewed, approved and executed by three commands that agree through digests
only; a server keeps the rows that a reviewed query returned in a session until
they are used or expire. Both MCP servers wrap each tool in the audit log and in
one work budget per request, charged by the transport. Commands share nothing
but files; inside a server, tasks share the output stream, the request
registry, the query slots and the SQL sessions.

## 2. Modules

| Module | What it models | Instances | Proofs |
| --- | --- | --- | --- |
| `AgentWorkspace` | the workspace files and every agent command, step by step | `MCAgentWorkspace` | `AgentWorkspaceProofs` |
| `ReviewedRelease` | abstract: what approval promises (a reviewed spec is released once, then attested, then completed) | refined by `AgentWorkspace` | `AgentWorkspaceProofs` |
| `AgentWorkspaceLiveness` | fairness and progress of recovery and advice | `MCAgentWorkspaceLiveness` | |
| `AuditLog` | the log shared by several servers | `MCStorage` | `InvocationsProofs` |
| `DirectoryPublication` | folders published by rename, by several writers | `MCStorage`, `MCDirectoryPublication` | `StorageProofs` |
| `SingleEntityBundle` | several files moved into one folder, with rollback | `MCStorage`, `MCSingleEntityBundle` | `StorageProofs` |
| `FilePublication` | one file replaced by writers while people edit it | `MCStorage` | `StorageProofs` |
| `TrinoInvocations` | the tools of the Trino server: statements, budgets, slots, allowed columns | `MCStorage` | `InvocationsProofs` |
| `SqlSessions` | the table of reviewed query sessions, its timers and its shutdown | `MCServices`, `MCSqlSessions` | `ServicesProofs` |
| `McpTransport` | framing, admission, charging and answering of MCP messages | `MCServices` | `ServicesProofs` |
| `TransformationRows` | what the engine does with one captured input (operators) | used by `TransformationReview` | `TransformationProofs` |
| `TransformationReview` | review, approval, execution and revision over files that are edited | `MCTransformation` | `TransformationProofs` |
| `CaptureIsolation` | a query captured by a child process | `MCTransformation` | `TransformationProofs` |
| `DatabaseProfile` | statements of a profile over a database that others change | `MCSynthesis`, `DatabaseCases` | `ProfilesProofs` |
| `ColumnProfiles` | what is told of a column (operators) | used by `FolderProfile` | `ProfilesProofs` |
| `FolderProfile` | profiles of folders and files, the cache, generation from a file | `MCSynthesis`, `MCFolderProfile`, `FolderCases` | `ProfilesProofs` |
| `AdvisorContract` | what an advisor is told and may answer (operators) | used by `ProviderAdvice`, `FolderProfile` | `AdviceProofs` |
| `ProviderAdvice` | overlapping calls of one provider client | `MCSynthesis`, `AdviceCases` | `AdviceProofs`, `SynthesisProofs` |
| `SemanticValues` | threads that ask a semantic provider for values | `MCSynthesis` | `SynthesisProofs` |
| `DatasetRows` | rows, the solver's passes, the validators (operators) | used by the next three | `SynthesisProofs` |
| `BusinessRules` | rules: making rows obey them and breaking them (operators) | used by the next two | `SynthesisProofs` |
| `DatasetGeneration` | the passes of `generate_dataset`, in order, up to acceptance or refusal | `MCSynthesis`, `MCDatasetGeneration`, `GenerationCases` | `SynthesisProofs` |
| `DatasetBundle` | `generate_dataset_bundle`: callback, second validation, report, publication | `MCSynthesis` | `SynthesisProofs` |

Every specification names its parameters as CONSTANTS and states what it assumes
of them in a named assumption. A component that is instantiated inside a merged
module states its assumption as an operator, which that module assumes.

### AgentWorkspace

| Specification | Code |
| --- | --- |
| `plan`, `spec`, `profile`, `review` | `agent_plan.json`, `dataset_spec.yaml`, `profile.json`, `advisor_review.json` |
| `bundle`, `receipt`, `result` | `generated/`, `approval_receipt.json`, `agent_result.json` |
| `at`, `cmd`, `want`, `seen`, `lacks`, `fp`, `prof` | a process: its next step, its command, the digest it was given, and the local variables it has loaded |
| `granted`, `leftover` | what callers were told; staging directories left behind |
| `PlanStart` ... `PlanCommit` | `agent_planning.py`: fingerprint, profile, stage four files, rename into an empty folder |
| `ApproveStart`, `ApproveFinished`, `ApproveStarted`, `LoadSource`, `ApproveLoad`, `Generate`, `Publish` | `approve_workspace` and the generation it starts |
| `RecoverStart`, `RecoverLoad`, `RecoverValidate` | `recover_workspace` |
| `MatchReceipt`, `MatchResult`, `WriteReceipt`, `WriteResult` | `write_completion`, shared by both: compare both files, then write those that are missing |
| `AdviseStart` ... `AdviseRewrite` | `agent-advise`, and the application of an imported proposal |
| `WriteRefused`, `CutShort` | a write that fails; an exception, an interactive cancellation or a kill at any step |
| `EditSpec`, `EditProfile`, `SourceChange` | people |
| `Status` | `agent_status.py` |

A specification file is an identity, since the commands compare digests of it.
Validation is a set (`Approvable`), as is the outcome of the release checks on
generated rows (`Safe`). None stands for a file that is not there. Between two
steps of one command any other process may do anything.

### AuditLog

`log` holds the complete records, `torn` says that a partial record follows,
`size` counts bytes, `lock` is the `flock`; `call` and `rec` are a server's
current invocation and the record it is about to write; `served` and `lost`
hold the calls that were answered and those that were not. A record keeps its
invocation, status, predecessor and MAC; the MAC is the pair of what it covers
that properties tell apart, and the invocation's UUID is the position of its
started record. `WriteShort` is a write of part of the record, `WriteUnanswered` a
record that is in the file although `fsync` failed or the process died, `Stop`
a killed server.

### Publication: DirectoryPublication, SingleEntityBundle, FilePublication

In `DirectoryPublication` each writer is a program counter over the calls of
`publish_directory` and of `generate_dataset_bundle`'s handler, each system call
a step that can fail or be interrupted; `dest`, `temp`, `backup` say which tree
is at the output path, in the writer's staging place and set aside, and `half`
which of them have lost files; `saw` and `victim` are the locals that the code
compares and removes. `Start` lets an overwriting writer run only alone, as
`docs/reference/generation-modes.md:37` demands. `SingleEntityBundle` is
`commit_single_entity_bundle`: `out`, `temp` and `roll` say which files, old or
new, lie in each of the three folders, and the two loops move them one rename at
a time; the rename and the list entry that records it are two steps, since an
interrupt can fall between them. `FilePublication` is `atomic_binary_writer`,
with and without the deadline checks: files are told apart by inode, and the
hard link, the comparison, the rename and the rollback are steps between which
other writers and people (`hands`) replace the file.

### TrinoInvocations

`todo` holds the statements that an invocation still has to run, `spent` its
budget, one counter per dimension, `asked` what the database was really asked
for, `open` the connection and the OAuth session, `free` the semaphore. `Invoke`
is the tool wrapper with the argument checks, `Charge` to `Fetch` follow
`_query_rows`, `Unwind` its `finally` block and what the tool makes of the result:
after a table was described, one statement per column the allowlist covers
(`Expanded`, `SummaryOf`); after a column's summary, its categories only if it is
named (`Follows`). `facts` is what the answer tells, `late` that the deadline
has passed.

### SqlSessions

`table`, `timer` and `owned` are the session table, each session's timer and
the state of its capture; `opened` and `charged` the admission counters that
are never returned; `unhealthy` and `closed` the two latches. `call` and `at`
are the operation that holds the reentrant lock: the SDK runs tools one at a
time on the event loop, and the timers are threads that wait for that lock.
Sessions are numbered in the order of their admission and have one lifetime, so
they become overdue (`Tick`) in that order. What a capture reads, and what
review, validation and publication compute, are outcomes.

### McpTransport

`frames`, `chunk`, `offset` and `pending` are the bytes on stdin and in
`_bounded_raw_payloads`, counted; `reader` and `writer` are the two tasks,
`lock` their output lock, `registry` the map from request id to budget, and
`used`, `terminal` the two counters of each budget. A number stands for a
request and its budget, and a message carries only its id, as in the code, so
that a message charged to another request's budget is visible. A frame left
unterminated at the end of input is not modelled, nor the discarding of the
rest of an oversized frame, which the reader never comes to since it returns.

### TransformationRows, TransformationReview, CaptureIsolation

`TransformationReview` has files with versions that an edit changes, a command
per process that captures the files it needs one by one (`read`), and what the
three commands leave: requests, receipts, decisions and published folders. A
digest is the captured versions themselves. `TransformationRows` says what the
engine makes of one captured input, field by field, and when it refuses. In
`CaptureIsolation` parent and child are two programs over shared memory, an exit
code and the clock; the table may change between the statements of the child.

### Profiles and advice

`DatabaseProfile` runs the statements of `postgres_profiler.py` and
`sql_query_profiling.py` one by one over a database in which other sessions
write; `ColumnProfiles` and `FolderProfile` follow the accumulators with their
limits, the mining of relationships and constraints, and the cache with files
that are edited before, while and after they are profiled. `AdvisorContract`
replaces categories by labels on the way out and puts them back;
`ProviderAdvice` runs several exchanges over one client, with its retries.

### Generation

`DatasetRows` and `BusinessRules` are operators: rows, the passes of the solver
(`ApplyRelationships` to the totals), the rules and the ways to break them, and
the validators as the reference. `DatasetGeneration` runs the passes in the
code's order, one step for each relationship, constraint or rule that a pass
comes to (`pos` is what is left of its loop), with the work budget or the deadline
ending it between any two steps, and accepts or refuses the result; `DatasetBundle` goes
on with the callback, the second validation, the report and the publication.
`SemanticValues` has a thread per request that goes on after nobody waits for it.

### Instances

A merged instance (`MCStorage`, `MCServices`, `MCTransformation`, `MCSynthesis`)
follows one of several components in each behaviour, chosen by the variable
`which`; the components share no state, so nothing is lost, and each property is
stated as `which = ... => Component!Property`. Variables of the same name are
declared once.

## 3. Hazards and the properties that cover them

`PROJECT.json` lists each hazard at its line; the main ones:

| Hazard | Property |
| --- | --- |
| spec, profile or source change between two steps of an approval; two commands find the same file absent | `ReleaseIsAuthorised`, `CompletionChain`, `Refines` |
| a stop between bundle, receipt and result; advice repeated after a stop | `RecoveryCompletes`, `OnlyRecordedAdvice`, `AdviceResumes` |
| servers interleave in one log; short writes, failed syncs | `ChainVerifies`, `CallsArePaired`, `ServedIsRecorded`, `TornIsFinal` |
| writers race for a folder, one fails or dies half way, its rollback fails | `FoldersAreKept`, `FailureRollsBack` |
| some files of a bundle are replaced; writers of one file, and people, overtake each other | `FilesAreKept` |
| a slot is lost when a step fails; work is charged late or not at all; a statement is sent after the deadline | `InvocationsAreBounded` |
| a wildcard lets a tool tell more of a column than its name would | `OnlyAllowedColumns` |
| timers race with session operations and shutdown; cleanup fails | `RowsAreOwned`, `RowsAreRemoved`, `ShutdownEndsAll`, `LatchRefusesWork` |
| ids reused, answers that do not fit, frames at the limit, two tasks waiting for each other | `RegistryIsFaithful`, `AnswersAreWithinLimits`, `RequestsAreAnswered` |
| files, policy or decisions are edited between review, approval and execution | `OutputIsReviewed`, `OriginalsAreApproved` |
| a generated value happens to be the original; linked files are mapped one after another | `RowsAreTransformed`, `LinksSurvive` |
| a child finishes or is killed at the deadline; a published folder must not be taken for another's | `CaptureIsWhole`, `CapturesEnd`, `FoldersStay` |
| others write to a database or a folder while it is profiled; limits hide values | `DatabaseProfilesAgree`, `FolderProfilesAreCertain`, `NoProfiledRowIsPublished` |
| labels replaced twice; overlapping, retried calls; values that come too late | `NothingPrivateIsTold`, `AdviceIsRestored`, `RunsAreTold`, `LateValuesAreDiscarded` |
| passes undo each other; a deadline falls between two of them; injected cases repair each other | `PlainSpecsAreGenerated`, `ScenariosAreAtomic`, `InjectionsAreAccounted`, `BundlesAreSound` |

One hazard has no property: an edit of `dataset_spec.yaml` that advice
overwrites is lost by the code as it stands (section 7), so there is nothing to
be shown of it.

## 4. Runs

| Run | Instance | Distinct states | What it shows |
| --- | --- | --- | --- |
| `approval` | 2 processes, 3 specs, 2 source states; plan, advise, approve, recover; kills; `TurnByTurn` | 1,346,524 | the safety properties and the refinement with commands interleaved |
| `lifecycle` | 1 process, all commands, both kinds of source, all three kinds of stop | 691,296 | advice is the recorded one; recovery and advice complete |
| `storage` | log: 3 servers, records of 2 and 3 bytes, limit 12; folders: 2 plain writers and an overwriting one, 3 stops; 4 files, 2 stops; one file: 2 writers, 1 hand, 1 stop; Trino: 2 invocations, 1 slot, 6 configurations, 3 tables | 1,431,097 | what is kept on disk, and the invocations the log tells of |
| `services` | 2 active sessions, 3 bytes, 3 openings; 2 frames of every kind of 2 or 3 bytes, limit 2, 1 active request | 126,113 | sessions and transport, safety and liveness |
| `transformation` | 90 policies over one file, a batch and a queried batch, 1 edit, 3 commands; captures of small tables by both adapters | 828,845 | only what was reviewed is transformed; captures are whole and end |
| `synthesis` | small databases, folders, categories and specifications for every kind of pass, rule, scenario and mode | 1,301,386 | profiles, advice, generation |
| `cancelled_approval`, `folder_purge`, `bundle_second_stop`, `failed_open`, `repaired_orphan`, `stale_cache` | one property each | | the findings of section 7 |

Every property of a passing run has a mutant: a plausible slip in the code
(a lock taken shared, a slot returned only if closing succeeded, a rollback
that forgets) with which TLC finds the property violated under the same cfg.

Why the bounds are enough to be of interest. Two processes can hold any two
steps of two commands against each other; `TurnByTurn` keeps the instance small:
the processes interleave freely in a workspace that was planned from a source,
and take turns where one was planned from a profile or has advice.
Three specs give the approved one, an edit of it and one that fails the release
checks. Three servers let two calls be admitted near the limit while a third
holds the lock; the limit leaves room for four to six records, of two lengths.
Two plain writers race; the third shows that a folder they left can be
overwritten; three stops interrupt a rollback and the clean-up after it. Four
files are the kinds the loops treat differently. One slot and two invocations
show capacity; one row and the limits are each reached by some invocation and
exceeded by one. Three admissions to a table of two show expiry making room and
the lifetime limit of bytes refusing it. One frame fits the limit, the other
exceeds it by one byte, and chunks split them everywhere. The tables, policies and
specifications of `transformation` and `synthesis` hold two or three rows, for
one violates, one satisfies and one is absent or null; each pass, rule and
action occurs in some specification alone and together with those that could
undo it.

Bounds that the code does not have: `MaxStops` (`FolderStops`) on errors and
interrupts (kills are not counted), `MaxHands`, `MaxOpens`, `MaxFrames`,
`MaxCommands`, `MaxEdits`, and the number of processes, servers, writers, specs,
ids and sizes.

`CHECK_DEADLOCK FALSE` stands only where the modelled program ends: a
publication that is over, a transformation with its commands used up, a
dataset that was published or refused. `storage` lets ended instances stutter
(`Over`), so that a deadlock before the end is found.

## 5. Fairness

- `AgentWorkspaceLiveness`: weak fairness of the next step of a command that has
  started, which is one thread that waits for nobody; strong fairness of the
  operator who, as `agent-status` asks, runs `agent-recover` or `agent-advise`
  again. The environment may edit and kill until a moment of its choice (`calm`);
  no progress can be promised to a workspace that is killed for ever.
- `SqlSessions`: weak fairness of the operation that holds the lock, of the
  clock, and of a started timer; strong fairness of a timer's callback, which
  waits for a lock that others take again and again, as Python's locks
  give it sooner or later. In the merged run the formulas are guarded by `which`.
- `McpTransport`: weak fairness of the two tasks, of the end of a server whose
  input has ended, and of the SDK answering each request it was given.

Safety properties are checked and proved without fairness.

## 6. Proofs

The theorems hold for every value of the constants that meets the named
assumptions: any number of processes, servers, writers, invocations, sessions,
frames and calls, any records, files, policies, tables, specifications, rules
and limits. TLC evaluates each
assumption on a run. `PROJECT.json` lists the theorems; the properties of the
runs they cover are these:

| Module | Property (theorem) |
| --- | --- |
| `AgentWorkspaceProofs` | `ReleaseIsAuthorised` (`OnlyAuthorisedReleases`), `CompletionChain` (`ChainHolds`), `Refines` (`Implements`), `OnlyRecordedAdvice` (`AdviceIsRecorded`, `LoneAdviceIsRecorded`) |
| `StorageProofs` | `FoldersAreKept` (`FoldersStayKept`), `FailureRollsBack` (`FailuresRollBack`), `FilesAreKept` (`FilesStayKept`) |
| `InvocationsProofs` | `ChainVerifies` (`LogVerifies`), `CallsArePaired` (`LogPairs`), `ServedIsRecorded` (`LogFailsClosed`), `TornIsFinal` (`LogTornIsFinal`), `InvocationsAreBounded` (`InvocationsStayBounded`), `OnlyAllowedColumns` (`OnlyAllowedIsTold`) |
| `ServicesProofs` | `RowsAreOwned` (`RowsHaveOwners`), `ShutdownEndsAll` (`ShutdownIsFinal`), `LatchRefusesWork` (`LatchIsObeyed`), `RegistryIsFaithful` (`RegistryAlwaysFaithful`), `AnswersAreWithinLimits` (`AnswersStayWithinLimits`) |
| `TransformationProofs` | `OutputIsReviewed`, `OriginalsAreApproved`, `RowsAreTransformed`, `LinksSurvive`, `FoldersStay`, `CaptureIsWhole` (`CapturesAreWhole`), `CapturesEnd` (`CapturesEndInTime`) |
| `SynthesisProofs` | `LateValuesAreDiscarded` (`LateValuesStayOut`), `BundlesAreSound` (`PublishedBundlesAreSound`), `ScenariosAreAtomic` (`ScenariosStayAtomic`), `InjectionsAreAccounted` (`InjectionsStayAccounted`), `RunsAreTold` (`CallsTellOfTheirRuns`) |
| `ProfilesProofs` | `NoProfiledRowIsPublished` (`ProfiledRowsStayOut`), `FolderProfilesAreCertain` (`ProfilesAreCertain`), `DatabaseProfilesAgree` (`ProfilesAgree`) |
| `AdviceProofs` | `NothingPrivateIsTold` (`PrivateValuesStayIn`), `AdviceIsRestored` (`AcceptedAdviceIsRestored`) |

Further theorems state what no run checks any more because it is proved: the
type invariants, the size of the audit log (`LogBounded`), the number of
sessions (`SessionLimit`), that a published session is gone
(`ExecutionIsFinal`), that success is told only of a completed workspace
(`GrantsAreComplete`), what `agent-status` says (`StatusHolds`), and that
published files are never replaced (`PublishedStays`, `ReleasesAreApprovals`).

Almost no property is inductive as it stands. Each proof module states
inductive invariants, which TLC checked (with bounded quantifiers), one lemma per
action, and lemmas for what a step of one actor leaves to the others.

*The workspace.* That `WriteResult` keeps the chain depends on what the process
loaded earlier. `IInv` adds `PlannedTogether` (the files of a plan come into
being together), `Loaded` (the locals a step uses were set) and `Bound` (a
process about to publish has loaded the spec it was asked for; one about to
complete holds the spec of the bundle that is there). A step of one process
changes no local of another (`OthersSame`), and each published file is written
only when it is absent (`KeepsPublished`), so the others keep `Loaded` and
`Bound`; edits change no file a command relies on once it has loaded it.
`Implements` shows that every step maps to a step of `ReviewedRelease` or to a
stutter.

*The log.* `IInv` adds `Locking` (at most the holder of the lock is in the
critical section), `Ending`, `Prepared` (the record about to be written extends
the tail that is there), `Numbered`, `OpenCalls` and `Reserved` (the size and
one record for each server that still owes a terminal record stay within the
bound). `LogBounded` is the bound the code really gives: the limit plus one
record for every other server, since each reserves room for its own record only.

*Folders.* `FoldersInv` is a conjunction of facts about one writer each:
`SetsAside` (what it set aside is what it is to replace), `StagedOnce` and
`PutThere` (where its bundle is at each step), `PutWhole` (what it put there is
complete until it removes it), `Phases`, `RolledBack`, `KeptIntact` and
`Covered` (a folder that it may be removing is not the only one). `RunsAlone`
says that an overwriting writer is alone, which `Start` gives, as the
documentation asks. `OthersStay` shows that a step keeps the facts of the other
writers, `OwnStepKeeps` and `QuietStepKeeps` that it is enough to look at its
own. The assumption `Overwriting \cap Interruptible = {}` leaves one case out:
a cancellation of an overwriting writer loses both folders, which is finding
`folder_purge`. It may fail and die at every step.

*Files of a bundle.* `BundleInv` says which files are due in which of the three
folders: `MovingIn` for the loop over what was staged, `MovingBack` for the one
that takes back what was moved. Both follow the order of a sequence, so the
lemmas are about its prefixes and its reverse. The order ends with the manifest
(`EndsWithManifest`), from which it follows that a manifest that is there
describes the files that are there. It holds for any files with injective names
and any number of interrupts.

*One file.* `FileInv` holds for any number of writers, people and interrupts.
`TookAsSeen` says that what a writer took off the path it had seen, and can put
back as long as it may have to; `Unbegun` that its own file is nowhere before
its rename; `Relies` what it relies on at each step unless the file was changed
unseen; `KnowsItsOwn` that it takes back nothing but what it wrote. The code
compares inode, size, `mtime` and `ctime` instead of contents: `LookedEarlier`
says that the changes of content since a look are no more than those of
`ctime`, so equal stamps mean equal contents, and `Counted` that a file which is
somewhere was put there.

*Invocations.* `TrinoInv` says of each invocation: its statements are askable
under the configuration and its facts tellable (`AsksAllowed`); what is charged
for a statement is in the budget, within the limits, until it is sent
(`ChargedFirst`); after a late statement it only ends (`EndsLate`); and it has
nothing open unless it holds a slot (`ClosesAll`). `SlotsInv` counts the
holders. Lemmas on the budget say that work which fits is charged within the
limits (`FittingStaysWithin`) and what each charge adds.

*Sessions.* `IInv` of `ServicesProofs` says what the holder of the lock
relies on at each point (`FrameFits`), that a handle not yet admitted owns
nothing (`Unused`), that a closed server is closing or empty (`ClosedIsEmpty`)
and that what was published is about to end (`PublishedEnds`).

*The transport.* `TransportInv` has `FramesFollow` (frames are looked at in
order, and a piece of one at most is pending), `ReaderKeepsPlace`,
`WriterKeepsPlace` and `ReaderReplies` (what each task holds at each point),
`NewFrames` and `WorkIsOpen` (numbers that were not handed out are unused, and
what the SDK works on is registered), `Registered`, `SlotsAreUsed`,
`ReserveIsKept` and `Charged` (each budget keeps room for the fixed error until
it is used) and `LimitIsExact`.

*Transformations.* The inductive invariant says what a command has captured
when nothing is left to capture (`Captured`, `Complete`) and what is known of
its digest at each later step (`Going`); both speak of what was read, never of
what the files say now, so edits keep them. The rest are lemmas on the
operators of `TransformationRows`.

*Captures.* `CaptureInv` has `ChildKnows` (what the child has taken at each
point and that what it read so far is within the limits), `LeftIsTrue` and
`CopyIsTrue` (what it leaves for the parent, and what the parent copies, is the
whole of what it took, or a refusal that it earned), `Ended` (a connection is
closed before the child ends, and a parent that goes on without its child has
tried to kill it) and `OnTime` (how far the clock may be at each point). It
holds for every table, row, byte and batch limit, deadline and slack.

*Advice.* A spec that advice rewrote carries the record of its advisor only
because the record is stored first (`StoresFirst`, `Recorded`). Two advisors can
pass the comparison in `atomic_binary_writer` together and the later rename then
replaces the record of the earlier: TLC shows that `OnlyRecordedAdvice` fails
then. `AdviceIsRecorded` says so in its hypothesis, that no step replaces a
record by another (`KeepsReview`), and `LoneAdviceIsRecorded` derives it for one
command at a time, while people edit and commands are cut short.

*Induction without an induction rule.* `SynthesisProofs`, `ProfilesProofs` and
`AdviceProofs` speak of data of any size. The library's rules of induction take
an operator, which the provers cannot instantiate, but "every set of numbers has
a least one" (`Least`) is a statement about sets and follows from
`WFMin`. A fact that holds of 0 and of n + 1 whenever of n is therefore put as a
set of numbers (`Induction`). From it come what a fold over a set computes
(`Folds`, `Sums`, with which the counts of a profile and of a report are added),
that finite sets can be listed, that a powerset is finite, and what is left of a
loop's sequence. `First` or `SetToSeq` say that something is chosen; the proofs
use only what any choice would give.

*Values that come late.* `SemanticInv` says of each thread that its queue holds
nothing but the answer to its own request (`queue[r].from = r`), and of each
generation that it has one value for every cell before the one it is at
(`Proceeds`). A queue belongs to a request and not to a cell, which is all that
keeps a late answer out of a later row.

*Bundles.* `BundleInv` says that what was checked is still so when it is reported
on, and that a report is one that some choice of sections gives. The callback may
do anything to the rows before that.

*Scenarios and injections.* `GenerationInv` is `KeysInv` and `AccountsInv`.
`KeysInv` says at which step the keys are the old ones, a prefix of the key cells
taken from the preview (`PartlyCommitted`), or all of them. That the passes after
the commit keep them is a fact about each pass: it writes only fields that a
relationship, a formula or a rule declares (`WritesOnly`), and no such field is
the key of a scenario's relationship (`AllDeclared`, from the preflight's
`Declared`). `AccountsInv` says that the rows chosen so far for a rule and the
number expected of it agree, row by row (`AccountsOf`): the choices of the rows of
one table are in one-to-one correspondence with the rows that break it
(`BrokenBy`), an injection changes no row but its own, and the lists of several
tables are flattened without loss. Equal counts then mean equal sets: a rule that
fails in every row chosen for it, and in as many rows as were chosen, fails in no
other.

*Calls of a provider.* `RunInv` says how many requests a call has sent for each
wait it has waited (`Waits`), and that what it will tell was taken from its own
call (`ToldOf`) before another call of the client could overwrite it.

*Folders and files.* `FolderInv` says that a profile and each entry of the cache
are profiles of some contents that files have had (`ProfileHolds`), and that a
profile that was made rather than found is one of what was read (`ReadHolds`). It
says nothing of the files as they are, so edits keep it. What the accumulators
tell is a lemma for each limit: a field that may be a key counted all its values
and lost none, a sensitive value is seen whatever comes before or after it.
Categories that may not be told get labels that are none of them (`Renaming`;
there are always enough). Rows are compared before they are published with the
rows that were profiled (`Remembered`), not with the file as it is by then.

*Databases.* `DatabaseInv` follows the profile's phases: first wildcards are
expanded (`Expanding`), then every column is profiled or a statement waits for it
(`Profiling`), or the source of a query is described before its rows are asked
about (`Querying`). `ColumnTells` is what a summary must agree with to be
accepted, whatever was written between the statements. `FileTells` says that
the two times a query file was looked at enclose what was read of it.

*What a provider is told.* A label is a tuple of its family, field, place and a
suffix that keeps it apart from all values; that such a suffix exists for any
finite set of values is a counting argument (`LabelTells`). Labels of different
values differ, so the way back undoes the way out (`Undoes`), through one projection or two
(`AdviceInv`). A call's proposal is some answer that the provider may give,
edited in any way the contract allows, with its labels put back (`ProposalOf`).
That a request made again tells the same (`VerificationFits`) needs more: labels
depend on the place of a value among those of its field and not on the value
(`Placings`), so labels that were put back receive the same places.

*What the proofs found.* `ScenariosAreAtomic` used to demand that every key
still has its evidence; a later pass may write the keys of relationships that no
scenario names, so it now speaks of what the scenarios demand
(`ScenariosAreMet`). `RunsAreTold` did not cover a call that ends before its
first request. `AdviceIsRestored` takes the marks of the profile, since those of
the specification can be taken off (section 7), and `VerificationFits` is stated
for values that do not look like labels. `RulesFit` admitted rules about fields
that the entity lacks. What is left of each loop became state of its own (`pos`),
so that a pass is a step per relationship, constraint or rule, as in the code,
and not one big one.
The assumptions on constants were all needed: lists are sequences, sets of
columns, fields and values are finite, limits are numbers, a batch is not empty,
there are twice as many labels as values that a category lists (the code numbers
them and never runs out), and `None` is nothing else.

*Only model-checked.* Liveness (`RecoveryCompletes`, `AdviceResumes`,
`RowsAreRemoved`, `RequestsAreAnswered`): fairness and ENABLED are beyond the
prover. `PlainSpecsAreGenerated` says that passes which do not contest each
other's fields leave nothing to refuse: it depends on what sums, topological
orders and quotas come to for every specification, in recursive
functions over lists of relationships and formulas, and on which of them
undo each other. TLC checks it for the specifications of `synthesis`, which have
each kind of pass alone and together.

## 7. Findings and observations

Six runs show the code departing from what the repository says; `PROJECT.json`
quotes the lines.

1. `cancelled_approval`: a cancelled `agent-approve` leaves its staging
   directory (`agent.py:237`).
2. `folder_purge`: a cancellation while the old folder is being removed deletes
   the new output (`io/path_policy.py:286`).
3. `bundle_second_stop`: when the rollback of a single-entity bundle is itself
   cut short, the caller removes the files not yet restored
   (`io/workflows.py:360`).
4. `failed_open`: a failed validation can discard another client's session
   (`io/transformation_query_sessions.py:157`).
5. `repaired_orphan`: an orphan injected on purpose can be given a parent by a
   later injection, and another row is counted in its place
   (`rules/engine.py:280`).
6. `stale_cache`: a file edited while its folder is profiled leaves the old
   profile under the new fingerprint (`profiling/cache.py:84`).

Met while modelling, within the models' behaviours or beside them, and not runs:

- An edit saved between the comparison and the replacement of
  `dataset_spec.yaml` is lost (`agent_advising.py:200`; compare
  `docs/reference/advisor.md:380`), concurrent advisors replace each other's
  record, and advice can rewrite the spec after an approval has published
  (`agent_advising.py:155`). None affects what is released.
- A torn record makes the other servers' terminal records be refused
  (`audit.py:369`; `docs/operations/audit-logging.md:49-50`): their results are
  withheld, as `ServedIsRecorded` demands.
- A cancellation between the rename that sets the old folder aside and the
  `try` (`io/path_policy.py:266`) leaves the output path empty, with the old
  folder under its `.rollback` name, as `docs/reference/generation-modes.md:38`
  warns. A cancellation while the rollback folder is removed after
  `commit_single_entity_bundle` has finished (`io/workflows.py:658`) is reported
  as a failure with the new bundle in place.
- One file (`io/path_policy.py`): an interrupt between `os.replace` and the
  assignment that records it leaves the new content and removes the backup; a
  file that another puts there between `os.replace` and the `stat` after it is
  taken for the writer's own; a file created after
  `ensure_file_output_available` and before the first `stat` is overwritten
  without `--overwrite`; an edit in place is not seen, because the hard link
  shares the inode; an unchecked writer whose last `fsync` fails reports a
  failure with the new file in place.
- A cleanup that fails inside a capture, before the session owns it, or of a
  failed publication does not set the latch of `docs/how-to/mcp.md:458`. An
  interrupt while the child of a capture is reaped leaves it running.
- The client can see an answer before its id is free again
  (`mcp_trino_transport.py:324`): a request that reuses the id at once is
  discarded unanswered, and a new one at capacity is refused.
  `RequestsAreAnswered` excepts only such requests. A notification over its
  request's budget ends the writer task, and with it the server.
- A sensitive mark that only the baseline specification has, and not the profile,
  can be taken off by advice: the validation of a proposal
  (`advisor.py:868`) compares with the marks and names of the profile, where
  `docs/reference/advisor.md:251` rejects proposals that "weaken sensitive or
  identifier classifications".
- Categories that look like reserved labels get suffixes; a constraint that
  advice drops shifts the local data of those after it; what is told of the
  last run is documented as unsafe under overlapping calls.
- Composite foreign keys become one-column relationships of confidence 1.0; a
  database profile is not a snapshot, and none is promised
  (`docs/reference/profiling.md:155`).
- A null that a mapping maps to null is exempt from the comparison of values
  (`core/transformation_approval.py:45`), so a CSV row whose other columns are
  preserved or reformatted can survive under another spelling.

## 8. Plan

Done: the components of section 2, their runs, and the proofs of section 6, which
cover every safety property that the runs check but one. Left, most telling first:

| Work | What it shows |
| --- | --- |
| `PlainSpecsAreGenerated` for any acyclic specification | that the order of the passes is right, and not only for the specifications checked |
| distributions: percentiles, reservoirs, numeric shapes | that generated values follow the profile |
| the export of rows as SQL, rotation of the audit log | parts that are left out so far |

## 9. Not modelled

Command-line parsing and presentation, the generator server's thin tools,
encodings of rows and reports, SQL text, configuration files, authentication and
container health are conversions or checks whose correctness is a matter of
values rather than of behaviour. Also left out: decimals, averages and other
detail of distributions, reservoirs, hints that names give of types, literals of
expressions, the multiplier of load tests, the counts of the budgets for
inference and output files, refusals of requested limits before a child is
started, candidates for temporal relationships, rotation of the audit log and its verification while
servers run (the documented procedure stops them), the read-only
`agent-review`, and the reuse of an inode in `io/workflows.py:704`, which
depends on the file system.

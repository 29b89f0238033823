------------------------ MODULE TransformationReview ------------------------
(***************************************************************************)
(* Review, approval and execution of transformations over files that       *)
(* people go on editing.  Each command captures the files it needs one by  *)
(* one and works on what it captured; a digest stands for all of that, so  *)
(* it is modelled as the captured versions themselves.  A command works on *)
(* one input, on the batch of linked inputs that a profile names, or on    *)
(* such a batch with its rows queried from a database in one session.      *)
(***************************************************************************)
EXTENDS TransformationRows

CONSTANTS
    Process,        \* that run commands at the same time
    Parent, Child,  \* the inputs: links go from the first to the second
    Text,           \* what each version of each file says
    Initial,          \* the versions that people may begin with
    Alternatives,   \* the files and versions that people may put in place
    Receipt, Destination,
    Single,         \* the inputs that people also run commands on alone
    MaxEdits,       \* bound: edits by people
    MaxShown,       \* bound: different digests that are displayed
    MaxCommands     \* bound: commands that people start

ASSUME InputsAssumption ==
    /\ Single \subseteq {Parent, Child}
    /\ {Parent, Child} \cap {"batch", "session"} = {}      \* the names of the other targets

VARIABLES
    version,        \* of each file
    process,        \* the command that each process runs
    receipt,        \* the digest in each receipt file
    output,         \* the folder at each destination
    shown,          \* digests that a review has displayed
    approved,       \* digests for which a person typed APPROVE
    edits, commands

vars == <<version, process, receipt, output, shown, approved, edits, commands>>

Input == {Parent, Child}
Shared == "all"
File == {<<"profile", Shared>>, <<"mapping", Shared>>} \cup ({"policy", "plan", "rows"} \X Input)

\* What was read of a file, and which file it was: every input reads the mapping
\* for itself, and a session reads the policies a second time.
Slot == {<<"profile", Shared>>} \cup ({"policy", "again", "mapping", "plan", "rows"} \X Input)
FileOf(slot) == CASE slot[1] = "mapping" -> <<"mapping", Shared>>
                  [] slot[1] = "again" -> <<"policy", slot[2]>>
                  [] OTHER -> slot
\* A session freezes the policies before its queries, and reads them again, with
\* the other references, when the queries are done.
SessionCaptures ==
    <<{<<"profile", Shared>>} \cup ({"policy"} \X Input), {<<"rows", Parent>>}, {<<"rows", Child>>},
      {"again", "mapping", "plan"} \X Input>>

\* What is read one after the other: a command on one input shows its files one
\* by one; of a batch each input is one step.
Captures(target) ==
    LET files(kinds, i) == kinds \X {i}
        whole == {"policy", "rows", "mapping", "plan"}
    IN  CASE target \in Input -> <<files({"policy"}, target), files({"mapping"}, target),
                                    files({"plan"}, target), files({"rows"}, target)>>
          [] target = "batch" -> <<{<<"profile", Shared>>}, files(whole, Parent), files(whole, Child)>>
          [] target = "session" -> SessionCaptures

-----------------------------------------------------------------------------
(* What a digest stands for.                                               *)

Members(d) == {i \in Input : <<"policy", i>> \in DOMAIN d}
IsBatch(d) == <<"profile", Shared>> \in DOMAIN d
Said(d, kind, i) == Text[FileOf(<<kind, i>>)][d[<<kind, i>>]]

Policy(d, i) == Said(d, "policy", i)
SourceRows(d, i) == Said(d, "rows", i)
NoRules == [domain |-> <<>>, file |-> <<>>, column |-> [f \in Field |-> <<>>]]
Mapping(d, i) == IF NeedsMapping(Policy(d, i)) THEN Said(d, "mapping", i) ELSE NoRules
Plan(d, i) == IF NeedsPlan(Policy(d, i)) THEN Said(d, "plan", i) ELSE [value |-> <<>>, valid |-> <<>>]

Wanted(d, slot) ==
    CASE slot[1] = "mapping" -> NeedsMapping(Policy(d, slot[2]))
      [] slot[1] = "plan" -> NeedsPlan(Policy(d, slot[2]))
      [] OTHER -> TRUE

\* temporary_batch_profile: no policy has changed since the queries, and each
\* is for queried rows.
SamePolicies(d) ==
    \A i \in Members(d) : <<"again", i>> \in DOMAIN d =>
        d[<<"again", i>>] = d[<<"policy", i>>] /\ Policy(d, i).native

Prepared(d) ==
    /\ \A i \in Members(d) : Reviewable(Policy(d, i), Mapping(d, i), Plan(d, i), SourceRows(d, i))
    /\ SamePolicies(d)

Digest(d) == [slot \in {s \in DOMAIN d : s[1] # "again"} |-> d[slot]]
Confirmed(d) == \E i \in Members(d) : NeedsReceipt(Policy(d, i))

\* execute_batch: the linked columns are replaced by the same rules in both.
LinksBound(d) ==
    LET substituted(i) == {f \in Field : Policy(d, i).decision[f].action = "substitute"}
    IN  /\ \A i \in Members(d), f \in Field : Policy(d, i).decision[f].action \notin {"derive", "drop"}
        /\ Said(d, "profile", Shared).links \subseteq substituted(Parent) \cap substituted(Child)
        /\ (\A i \in Input : substituted(i) # {}) => Mapping(d, Parent).domain = Mapping(d, Child).domain

\* Mutant: that the columns share their rules is taken to be enough.
KeysAssumed(links, out) == TRUE

KeysResolve(links, out) ==
    \A f \in links : \A n \in DOMAIN out[Child] :
        out[Child][n][f].value # Null =>
            \E k \in DOMAIN out[Parent] : out[Parent][k][f].value = out[Child][n][f].value

\* The rows of every input, or none.
Outcome(d) ==
    LET rows(i) == Results(Policy(d, i), Mapping(d, i), Plan(d, i), SourceRows(d, i))
        refused == \E i \in Members(d) : rows(i) = {} \/ ~Executable(Policy(d, i))
    IN  IF refused \/ (IsBatch(d) /\ ~LinksBound(d)) THEN {}
        ELSE {out \in {[i \in Members(d) |-> CHOOSE r \in rows(i) : TRUE]} :
                 IsBatch(d) => KeysResolve(Said(d, "profile", Shared).links, out)}

-----------------------------------------------------------------------------
NoFile == <<>>
Idle == [command |-> "idle", step |-> "idle", todo |-> <<>>, snap |-> <<>>, digest |-> <<>>,
         receipt |-> NoFile, dest |-> NoFile, draft |-> <<>>]

Init ==
    /\ version \in Initial
    /\ process = [p \in Process |-> Idle]
    /\ receipt = [r \in Receipt |-> NoFile]
    /\ output = [x \in Destination |-> NoFile]
    /\ shown = {} /\ approved = {} /\ edits = 0 /\ commands = 0

Edit(f, v) ==
    /\ edits < MaxEdits /\ v # version[f]
    /\ version' = [version EXCEPT ![f] = v]
    /\ edits' = edits + 1
    /\ UNCHANGED <<process, receipt, output, shown, approved, commands>>

-----------------------------------------------------------------------------
(* Commands.                                                               *)

Begin(p, called, target) ==
    /\ process[p] = Idle /\ commands < MaxCommands
    /\ commands' = commands + 1
    /\ process' = [process EXCEPT ![p] = [called EXCEPT !.step = "capture", !.todo = Captures(target)]]
    /\ UNCHANGED <<version, receipt, output, shown, approved, edits>>

Target(d) == IF IsBatch(d) THEN "batch" ELSE CHOOSE i \in Members(d) : TRUE

Review(p, target) == Begin(p, [Idle EXCEPT !.command = "review"], target)

\* Only the batch command looks for the receipt before it captures.
Approve(p, d, r) ==
    /\ IsBatch(d) => receipt[r] = NoFile
    /\ Begin(p, [Idle EXCEPT !.command = "approve", !.digest = d, !.receipt = r], Target(d))

Execute(p, d, r, x) ==
    /\ IsBatch(d) => output[x] = NoFile
    /\ Begin(p, [Idle EXCEPT !.command = "execute", !.digest = d, !.receipt = r, !.dest = x], Target(d))

\* _candidate_configured_query_execute: everything in one invocation.
Session(p, x) ==
    /\ output[x] = NoFile
    /\ Begin(p, [Idle EXCEPT !.command = "session", !.dest = x], "session")

Decide(p, i) == Begin(p, [Idle EXCEPT !.command = "decide"], i)

\* What was read before is not read again.
Extended(d, slots) == [s \in DOMAIN d \cup slots |-> IF s \in DOMAIN d THEN d[s] ELSE version[FileOf(s)]]

\* Only the references of the captured policy are read.
Read(d, slots) ==
    LET own == Extended(d, {s \in slots : s[1] \notin {"mapping", "plan"}})
    IN  Extended(own, {s \in slots : Wanted(own, s)})

Capture(p) ==
    /\ process[p].step = "capture" /\ process[p].todo # <<>>
    /\ process' = [process EXCEPT ![p].todo = Tail(@), ![p].snap = Read(@, Head(process[p].todo))]
    /\ UNCHANGED <<version, receipt, output, shown, approved, edits, commands>>

\* The captured files are fit for review: prepare_approval_request, prepare_batch.
Ready(p, command) ==
    /\ process[p].command = command /\ process[p].step = "capture" /\ process[p].todo = <<>>
    /\ Prepared(process[p].snap)

\* The digest that was asked for is the one of the files as they were captured.
\* Mutant: a digest for these inputs is taken for any of their versions.
SameInputs(p) == DOMAIN Digest(process[p].snap) = DOMAIN process[p].digest

SameSnapshot(p) == Digest(process[p].snap) = process[p].digest

Room(d) == Cardinality(shown \cup {d}) <= MaxShown

Show(p) ==
    /\ Ready(p, "review") /\ Room(Digest(process[p].snap))
    /\ shown' = shown \cup {Digest(process[p].snap)}
    /\ process' = [process EXCEPT ![p] = Idle]
    /\ UNCHANGED <<version, receipt, output, approved, edits, commands>>

Ask(p) ==
    /\ Ready(p, "approve") /\ SameSnapshot(p)
    /\ ~IsBatch(process[p].digest) =>
          /\ receipt[process[p].receipt] = NoFile
          /\ \A i \in Members(process[p].digest) : Executable(Policy(process[p].digest, i))
    /\ process' = [process EXCEPT ![p].step = "confirm"]
    /\ UNCHANGED <<version, receipt, output, shown, approved, edits, commands>>

Check(p) ==
    /\ Ready(p, "execute") /\ SameSnapshot(p)
    /\ process' = [process EXCEPT ![p].step = "run"]
    /\ UNCHANGED <<version, receipt, output, shown, approved, edits, commands>>

\* A session shows its review and goes on with what it captured.
ShowSession(p) ==
    /\ Ready(p, "session")
    /\ LET d == Digest(process[p].snap)
       IN  /\ Room(d) /\ shown' = shown \cup {d}
           /\ process' = [process EXCEPT ![p].digest = d, ![p].step = IF Confirmed(d) THEN "confirm" ELSE "run"]
    /\ UNCHANGED <<version, receipt, output, approved, edits, commands>>

\* _confirm_tty_fd displays the review and the digest again.
TypeApprove(p) ==
    /\ process[p].step = "confirm"
    /\ approved' = approved \cup {process[p].digest}
    /\ process' = [process EXCEPT ![p].step = IF process[p].command = "session" THEN "run" ELSE "write"]
    /\ UNCHANGED <<version, receipt, output, shown, edits, commands>>

\* atomic_write_bytes: whatever has got there in the meantime is replaced.
WriteReceipt(p) ==
    /\ process[p].step = "write"
    /\ receipt' = [receipt EXCEPT ![process[p].receipt] = process[p].digest]
    /\ process' = [process EXCEPT ![p] = Idle]
    /\ UNCHANGED <<version, output, shown, approved, edits, commands>>

\* Mutant: a receipt is looked for, and not read.
VerifiedByName(p) ==
    process[p].command = "session" \/ (process[p].receipt # NoFile /\ receipt[process[p].receipt] # NoFile)

\* A session's receipt lies in its own temporary folder.
Verified(p) ==
    process[p].command = "session" \/ (process[p].receipt # NoFile /\ receipt[process[p].receipt] = process[p].digest)

\* A receipt that was named is read in a batch, needed or not.
Run(p) ==
    /\ process[p].step = "run"
    /\ Confirmed(process[p].digest) \/ (IsBatch(process[p].digest) /\ process[p].receipt # NoFile) => Verified(p)
    /\ Outcome(Digest(process[p].snap)) # {}
    /\ process' = [process EXCEPT ![p].step = "publish"]
    /\ UNCHANGED <<version, receipt, output, shown, approved, edits, commands>>

RowsOf(snap) == CHOOSE out \in Outcome(Digest(snap)) : TRUE

\* Mutant: an earlier folder is replaced.
PublishOver(p) ==
    /\ process[p].step = "publish"
    /\ output' = [output EXCEPT ![process[p].dest] =
                      [asked |-> process[p].digest, rows |-> RowsOf(process[p].snap), by |-> p, done |-> FALSE]]
    /\ process' = [process EXCEPT ![p].step = "report"]
    /\ UNCHANGED <<version, receipt, shown, approved, edits, commands>>

\* The staging folder is renamed, where there is no folder yet.
Publish(p) ==
    /\ process[p].step = "publish" /\ output[process[p].dest] = NoFile
    /\ output' = [output EXCEPT ![process[p].dest] =
                      [asked |-> process[p].digest, rows |-> RowsOf(process[p].snap), by |-> p, done |-> FALSE]]
    /\ process' = [process EXCEPT ![p].step = "report"]
    /\ UNCHANGED <<version, receipt, shown, approved, edits, commands>>

\* The budget is checked once more, and the command reports success.
Report(p) ==
    /\ process[p].step = "report"
    /\ output' = [output EXCEPT ![process[p].dest].done = TRUE]
    /\ process' = [process EXCEPT ![p] = Idle]
    /\ UNCHANGED <<version, receipt, shown, approved, edits, commands>>

-----------------------------------------------------------------------------
(* edit_csv_policy_decisions: a person revises the policy that was         *)
(* captured, and saves it over the file.                                   *)

\* The captured rows under another policy, with its references as they are now.
Revised(p, a) ==
    LET i == a[1][2]
        kept == [s \in {<<"policy", i>>, <<"rows", i>>} |-> IF s = a[1] THEN a[2] ELSE process[p].snap[s]]
    IN  Read(kept, {<<"mapping", i>>, <<"plan", i>>})

Draft(p, a) ==
    /\ Ready(p, "decide")
    /\ a[1][1] = "policy" /\ a[1] \in DOMAIN process[p].snap
    /\ Prepared(Revised(p, a))
    /\ process' = [process EXCEPT ![p].draft = Revised(p, a), ![p].step = "draft"]
    /\ UNCHANGED <<version, receipt, output, shown, approved, edits, commands>>

\* SAVE was typed: everything is captured again, and must not have changed.
TypeSave(p) ==
    /\ process[p].step = "draft"
    /\ process' = [process EXCEPT ![p].step = "save", ![p].todo = Captures(Target(process[p].snap))]
    /\ UNCHANGED <<version, receipt, output, shown, approved, edits, commands>>

Recheck(p) ==
    /\ process[p].step = "save" /\ process[p].todo # <<>>
    /\ \A s \in Head(process[p].todo) \cap DOMAIN process[p].snap : version[FileOf(s)] = process[p].snap[s]
    /\ process' = [process EXCEPT ![p].todo = Tail(@)]
    /\ UNCHANGED <<version, receipt, output, shown, approved, edits, commands>>

Save(p) ==
    /\ process[p].step = "save" /\ process[p].todo = <<>>
    /\ LET slot == CHOOSE s \in DOMAIN process[p].draft : s[1] = "policy"
       IN  /\ \A s \in DOMAIN process[p].draft \ {slot, <<"rows", slot[2]>>} : version[FileOf(s)] = process[p].draft[s]
           /\ version' = [version EXCEPT ![slot] = process[p].draft[slot]]
    /\ process' = [process EXCEPT ![p] = Idle]
    /\ UNCHANGED <<receipt, output, shown, approved, edits, commands>>

\* A check fails, a limit or the 60 seconds at the terminal run out, a person
\* answers anything else: the folder this command has just published is removed.
Stop(p) ==
    /\ process[p] # Idle
    /\ output' = IF process[p].step = "report" THEN [output EXCEPT ![process[p].dest] = NoFile] ELSE output
    /\ process' = [process EXCEPT ![p] = Idle]
    /\ UNCHANGED <<version, receipt, shown, approved, edits, commands>>

\* The process is killed, which only makes a difference where Stop cleans up.
Kill(p) ==
    /\ process[p].step = "report"
    /\ process' = [process EXCEPT ![p] = Idle]
    /\ UNCHANGED <<version, receipt, output, shown, approved, edits, commands>>

Next ==
    \/ \E a \in Alternatives : Edit(a[1], a[2])
    \/ \E p \in Process :
          \/ \E target \in Single \cup {"batch"} : Review(p, target)
          \/ \E d \in shown, r \in Receipt : Approve(p, d, r)
          \/ \E d \in shown, r \in Receipt \cup {NoFile}, x \in Destination : Execute(p, d, r, x)
          \/ \E x \in Destination : Session(p, x)
          \/ \E i \in Single : Decide(p, i)
          \/ Capture(p) \/ Show(p) \/ Ask(p) \/ Check(p) \/ ShowSession(p) \/ TypeApprove(p) \/ WriteReceipt(p)
          \/ Run(p) \/ Publish(p) \/ Report(p)
          \/ \E a \in Alternatives : Draft(p, a)
          \/ TypeSave(p) \/ Recheck(p) \/ Save(p)
          \/ Stop(p) \/ Kill(p)

Spec == Init /\ [][Next]_vars

-----------------------------------------------------------------------------
(* Properties.                                                             *)

Published == {x \in Destination : output[x] # NoFile}

\* Output in which a value of the source survives was approved at a terminal by
\* a person to whom exactly this review and digest were displayed, whatever was
\* edited, approved or executed meanwhile.
OriginalsAreApproved ==
    \A x \in Published : LET out == output[x].rows IN
        (\E i \in DOMAIN out : \E n \in DOMAIN out[i] : \E f \in DOMAIN out[i][n] : out[i][n][f].from = "original")
            => output[x].asked \in approved

\* The rows are what the engine makes of the versions that the caller's digest
\* stands for, and their review was displayed, although every file may have
\* changed before, while and after they were captured.
OutputIsReviewed ==
    \A x \in Published : output[x].asked \in shown /\ output[x].rows \in Outcome(output[x].asked)

\* In a row that keeps every column some cell is no longer the source's: it was
\* generated or mapped, and is another value, or stands for a null by a rule for
\* nulls; no generated value is the source's own but for a number zero; a
\* sensitive value stands only where a person wrote it into a mapping; and what
\* is not null is not read back as null.
RowsAreTransformed ==
    \A x \in Published : \A i \in DOMAIN output[x].rows :
        LET P == Policy(output[x].asked, i)
            source == SourceRows(output[x].asked, i)
            out == output[x].rows[i]
            Replaced(n, f) == /\ out[n][f].from # "original"
                              /\ out[n][f].value = source[n][f] => out[n][f].from = "mapped" /\ source[n][f] = Null
        IN  \A n \in DOMAIN source :
                /\ Kept(P) = Field => \E f \in Field : Replaced(n, f)
                /\ \A f \in Kept(P) :
                      LET c == out[n][f] IN
                      /\ c.from = "synthetic" /\ c.value # Null /\ c.value = source[n][f] => c.value = 0 /\ f \in Number
                      /\ c.value \in Sensitive => c.from = "mapped"
                      /\ P.token # Null /\ ~P.typed => c.value # P.token

\* In a batch's output each child row's key names a parent row, and rows that
\* were linked by a value the mapping knows are still linked.
LinksSurvive ==
    \A x \in Published : IsBatch(output[x].asked) =>
        \A f \in Said(output[x].asked, "profile", Shared).links :
            LET d == output[x].asked
                parents == output[x].rows[Parent]
                children == output[x].rows[Child]
            IN  \A n \in DOMAIN children :
                    /\ children[n][f].value # Null => \E k \in DOMAIN parents : parents[k][f].value = children[n][f].value
                    /\ \A k \in DOMAIN parents :
                          /\ SourceRows(d, Child)[n][f] = SourceRows(d, Parent)[k][f]
                          /\ SourceRows(d, Child)[n][f] \in DOMAIN Mapping(d, Child).domain
                          => children[n][f].value = parents[k][f].value

\* A folder is never replaced, and only the command that published it takes it
\* away again, before it has reported success.
FoldersStay ==
    [][\A x \in Published : output'[x] # output[x] =>
           /\ ~output[x].done /\ process[output[x].by].step = "report" /\ process[output[x].by].dest = x
           /\ output'[x] \in {NoFile, [output[x] EXCEPT !.done = TRUE]}]_vars
=============================================================================

------------------------ MODULE TransformationProofs ------------------------
(***************************************************************************)
(* What holds of every published output of a transformation, for any       *)
(* files, policies, number of processes and edits; and of isolated         *)
(* captures, for any tables, any limits of rows, bytes and batches, any    *)
(* deadline, and whatever the child, the source and the clock do between   *)
(* two steps of the parent.                                                *)
(***************************************************************************)
EXTENDS MCTransformation, FiniteSetTheorems, TLAPS

-----------------------------------------------------------------------------
(* Transformations.  The inductive invariant says what a command has       *)
(* captured when nothing is left to capture (Captured), and what is known  *)
(* of its digest at each later step (Going); both live on what was read,   *)
(* never on what the files say now.                                        *)

\* A command's fields.
IsFrame(c) ==
    c = [command |-> c.command, step |-> c.step, todo |-> c.todo, snap |-> c.snap, digest |-> c.digest,
         receipt |-> c.receipt, dest |-> c.dest, draft |-> c.draft]

IsOutput(o) == o = [asked |-> o.asked, rows |-> o.rows, by |-> o.by, done |-> o.done]

Shapes ==
    /\ process = [p \in Process |-> process[p]] /\ \A p \in Process : IsFrame(process[p])
    /\ receipt = [r \in Receipt |-> receipt[r]]
    /\ output = [x \in Destination |-> output[x]]
    /\ \A x \in Published : IsOutput(output[x]) /\ output[x].done \in BOOLEAN

\* A slot was read, or is still to be read.
Expected(c, slot) == slot \in DOMAIN c.snap \/ \E k \in DOMAIN c.todo : slot \in c.todo[k]

Reference == {"rows", "mapping", "plan"}

\* A capture has an input, and with the profile all of them; what belongs to an
\* input is read with its policy or later.
Coming(c) ==
    /\ c.todo \in Seq(SUBSET Slot)
    /\ \E i \in Input : Expected(c, <<"policy", i>>)
    /\ Expected(c, <<"profile", Shared>>) => \A i \in Input : Expected(c, <<"policy", i>>)
    /\ \A i \in Input : \A kind \in Reference :
          /\ i \in Members(c.snap) /\ Wanted(c.snap, <<kind, i>>) => Expected(c, <<kind, i>>)
          /\ \A k \in DOMAIN c.todo : <<"policy", i>> \in c.todo[k] =>
                \E j \in DOMAIN c.todo : j >= k /\ <<kind, i>> \in c.todo[j]

\* A capture that is done has all that it refers to.
Complete(d) ==
    /\ Members(d) # {}
    /\ IsBatch(d) => Members(d) = Input
    /\ \A i \in Members(d) : \A kind \in Reference : Wanted(d, <<kind, i>>) => <<kind, i>> \in DOMAIN d

Reviewed(d) ==
    /\ Complete(d)
    /\ \A i \in Members(d) : Reviewable(Policy(d, i), Mapping(d, i), Plan(d, i), SourceRows(d, i))

\* A receipt is needed only for a digest for which a person typed APPROVE.
Released(d) == Confirmed(d) => d \in approved

Later == {"confirm", "write", "run", "publish", "report"}

\* What a command relies on after its capture.
Going(c) ==
    /\ c.step = "capture" => Coming(c)
    /\ c.step \in Later => c.digest = Digest(c.snap)
    /\ c.step \in Later \/ c.command \in {"approve", "execute"} => c.digest \in shown
    /\ c.step = "confirm" => c.command \in {"approve", "session"}
    /\ c.step = "write" => c.digest \in approved /\ c.command = "approve"
    /\ c.step \in {"run", "publish", "report"} => c.command \in {"execute", "session"}
    /\ c.step = "run" /\ c.command = "session" => Released(c.digest)
    /\ c.step = "publish" => Released(c.digest) /\ Outcome(c.digest) # {}
    /\ c.command = "approve" => c.receipt \in Receipt
    /\ c.command = "execute" => c.receipt \in Receipt \cup {NoFile}
    /\ c.command \in {"execute", "session"} => c.dest \in Destination

\* The folder that a command is about to report is its own.
Reporting(p) ==
    process[p].step = "report" =>
        LET x == process[p].dest IN output[x] # NoFile /\ output[x].by = p /\ ~output[x].done

OutputsAreReleased == \A x \in Published : Released(output[x].asked)

IInv ==
    /\ Shapes
    /\ \A p \in Process : Going(process[p]) /\ Reporting(p)
    /\ \A d \in shown : Reviewed(d)
    /\ \A r \in Receipt : receipt[r] # NoFile => receipt[r] \in approved
    /\ OutputIsReviewed /\ OutputsAreReleased
-----------------------------------------------------------------------------
(* What the engine makes of one input.                                     *)

\* Where each cell comes from, and what it can be.
LEMMA CellOrigins ==
    ASSUME NEW P, NEW M, NEW G, NEW f, NEW n, NEW v, NEW c \in Cells(P, M, G, f, n, v)
    PROVE  /\ v \in DOMAIN Rules(P, M, f) => c = [value |-> Rules(P, M, f)[v], from |-> "mapped"]
           /\ v \notin DOMAIN Rules(P, M, f) => c.from # "mapped"
           /\ c.from = "original" => Preserves(P.decision[f])
           /\ c.from = "synthetic" /\ v # Null /\ c.value = v => CoincidentZero(f, v)
           /\ c.from \in {"mapped", "original", "synthetic"}
  BY DEF Cells, Original, Synthetic, Preserves

\* The finished rows have the source's rows and the columns that are kept; every
\* cell is one that the engine may write there, and every row fits.
LEMMA ResultsAreCells ==
    ASSUME NEW P, NEW M, NEW G, NEW R, NEW out \in Results(P, M, G, R)
    PROVE  /\ DOMAIN out = DOMAIN R
           /\ \A n \in DOMAIN R : RowFits(P, out[n], R[n]) /\ DOMAIN out[n] = Kept(P)
           /\ \A n \in DOMAIN R : \A f \in Kept(P) : out[n][f] \in Cells(P, M, G, f, n, R[n][f])
  <1> DEFINE cells == [n \in DOMAIN R |-> [f \in Kept(P) |-> Cells(P, M, G, f, n, R[n][f])]]
             chosen == [n \in DOMAIN R |-> [f \in Kept(P) |-> CHOOSE c \in cells[n][f] : TRUE]]
  <1>1. /\ out = chosen
        /\ \A n \in DOMAIN R : RowFits(P, out[n], R[n])
        /\ \A n \in DOMAIN R : \A f \in Kept(P) : cells[n][f] # {}
    BY DEF Results
  <1>2. ASSUME NEW n \in DOMAIN R, NEW f \in Kept(P)
        PROVE  out[n][f] \in Cells(P, M, G, f, n, R[n][f])
    <2>1. cells[n][f] = Cells(P, M, G, f, n, R[n][f])
      OBVIOUS
    <2>2. (CHOOSE c \in cells[n][f] : TRUE) \in cells[n][f]
      BY <1>1
    <2> QED
      BY <1>1, <2>1, <2>2
  <1> QED
    BY <1>1, <1>2

-----------------------------------------------------------------------------
(* What the engine makes of the inputs of a digest.                        *)

Applied(d, i) == Results(Policy(d, i), Mapping(d, i), Plan(d, i), SourceRows(d, i))

\* All inputs have rows, or there is no outcome.
LEMMA OutcomeIsApplied ==
    ASSUME NEW d, NEW out \in Outcome(d)
    PROVE  /\ DOMAIN out = Members(d)
           /\ \A i \in Members(d) : out[i] \in Applied(d, i)
           /\ IsBatch(d) => LinksBound(d) /\ KeysResolve(Said(d, "profile", Shared).links, out)
  <1>1. \A i \in Members(d) : Applied(d, i) # {}
    BY DEF Outcome, Applied
  <1>2. out = [i \in Members(d) |-> CHOOSE r \in Applied(d, i) : TRUE]
    BY DEF Outcome, Applied
  <1>3. IsBatch(d) => LinksBound(d) /\ KeysResolve(Said(d, "profile", Shared).links, out)
    BY DEF Outcome
  <1> QED
    BY <1>1, <1>2, <1>3

\* An original value survives only if a policy says so, and needs a receipt then.
LEMMA OriginalsAreConfirmed ==
    ASSUME NEW d, NEW out \in Outcome(d), NEW i \in DOMAIN out, NEW n \in DOMAIN out[i],
           NEW f \in DOMAIN out[i][n], out[i][n][f].from = "original"
    PROVE  Confirmed(d)
  <1>1. i \in Members(d) /\ out[i] \in Applied(d, i)
    BY OutcomeIsApplied
  <1>2. /\ n \in DOMAIN SourceRows(d, i) /\ f \in Kept(Policy(d, i))
        /\ out[i][n][f] \in Cells(Policy(d, i), Mapping(d, i), Plan(d, i), f, n, SourceRows(d, i)[n][f])
    BY <1>1, ResultsAreCells DEF Applied
  <1>3. Preserves(Policy(d, i).decision[f]) /\ f \in Field
    BY <1>2, CellOrigins DEF Kept
  <1> QED
    BY <1>1, <1>3 DEF Confirmed, NeedsReceipt

\* A digest that needs a receipt is not the mark of a missing one.
LEMMA ConfirmedIsDigest == ASSUME NEW d, Confirmed(d) PROVE d # NoFile
  BY DEF Confirmed, Members, NoFile

\* No rule gives a value back.
LEMMA RulesChange ==
    ASSUME NEW P, NEW M, NEW G, NEW R, Reviewable(P, M, G, R), NEW f \in Field,
           NEW v \in DOMAIN Rules(P, M, f), v # Null
    PROVE  Rules(P, M, f)[v] # v
  <1>1. NoIdentity(M.domain) /\ NoIdentity(M.file) /\ NoIdentity(M.column[f])
    BY DEF Reviewable
  <1>2. CASE P.decision[f].action = "substitute"
    BY <1>1, <1>2 DEF Rules, NoIdentity
  <1>3. CASE P.decision[f].action = "replace_text"
    BY <1>1, <1>3 DEF Rules, NoIdentity
  <1>4. CASE P.decision[f].action \notin {"substitute", "replace_text"}
    BY <1>4 DEF Rules
  <1> QED
    BY <1>2, <1>3, <1>4

\* What RowsAreTransformed says of one input's rows.
Transformed(P, source, out) ==
    \A n \in DOMAIN source :
        /\ Kept(P) = Field => \E f \in Field :
              /\ out[n][f].from # "original"
              /\ out[n][f].value = source[n][f] => out[n][f].from = "mapped" /\ source[n][f] = Null
        /\ \A f \in Kept(P) :
              /\ out[n][f].from = "synthetic" /\ out[n][f].value # Null /\ out[n][f].value = source[n][f]
                    => out[n][f].value = 0 /\ f \in Number
              /\ out[n][f].value \in Sensitive => out[n][f].from = "mapped"
              /\ P.token # Null /\ ~P.typed => out[n][f].value # P.token

LEMMA ResultsAreTransformed ==
    ASSUME NEW P, NEW M, NEW G, NEW R, Reviewable(P, M, G, R), NEW out \in Results(P, M, G, R)
    PROVE  Transformed(P, R, out)
  <1> SUFFICES ASSUME NEW n \in DOMAIN R
               PROVE  /\ Kept(P) = Field => \E f \in Field :
                            /\ out[n][f].from # "original"
                            /\ out[n][f].value = R[n][f] => out[n][f].from = "mapped" /\ R[n][f] = Null
                      /\ \A f \in Kept(P) :
                            /\ out[n][f].from = "synthetic" /\ out[n][f].value # Null /\ out[n][f].value = R[n][f]
                                  => out[n][f].value = 0 /\ f \in Number
                            /\ out[n][f].value \in Sensitive => out[n][f].from = "mapped"
                            /\ P.token # Null /\ ~P.typed => out[n][f].value # P.token
    BY DEF Transformed
  <1>1. RowFits(P, out[n], R[n]) /\ DOMAIN out[n] = Kept(P)
    BY ResultsAreCells
  <1>2. \A f \in Kept(P) : f \in Field /\ out[n][f] \in Cells(P, M, G, f, n, R[n][f])
    BY ResultsAreCells DEF Kept
  <1>3. ASSUME Kept(P) = Field
        PROVE  \E f \in Field : /\ out[n][f].from # "original"
                                /\ out[n][f].value = R[n][f] => out[n][f].from = "mapped" /\ R[n][f] = Null
    <2>1. PICK f \in Field : /\ out[n][f].from # "original"
                             /\ ~(out[n][f].from = "synthetic" /\ out[n][f].value = R[n][f])
      BY <1>1, <1>3 DEF RowFits, RowChanges
    <2>2. out[n][f] \in Cells(P, M, G, f, n, R[n][f])
      BY <1>2, <1>3
    <2>3. ASSUME out[n][f].value = R[n][f]
          PROVE  out[n][f].from = "mapped" /\ R[n][f] = Null
      <3>1. out[n][f].from = "mapped"
        BY <2>1, <2>2, <2>3, CellOrigins
      <3>2. R[n][f] \in DOMAIN Rules(P, M, f) /\ Rules(P, M, f)[R[n][f]] = R[n][f]
        BY <2>2, <2>3, <3>1, CellOrigins
      <3> QED
        BY <3>1, <3>2, RulesChange
    <2> QED
      BY <2>1, <2>3
  <1>4. ASSUME NEW f \in Kept(P)
        PROVE  /\ out[n][f].from = "synthetic" /\ out[n][f].value # Null /\ out[n][f].value = R[n][f]
                     => out[n][f].value = 0 /\ f \in Number
               /\ out[n][f].value \in Sensitive => out[n][f].from = "mapped"
               /\ P.token # Null /\ ~P.typed => out[n][f].value # P.token
    <2>1. out[n][f].from = "synthetic" /\ out[n][f].value # Null /\ out[n][f].value = R[n][f]
            => out[n][f].value = 0 /\ f \in Number
      BY <1>2, CellOrigins DEF CoincidentZero
    <2>2. /\ out[n][f].value \in Sensitive => out[n][f].from = "mapped"
          /\ P.token # Null /\ ~P.typed => out[n][f].value # P.token
      BY <1>1 DEF RowFits, NothingSensitive, NullIsPlain
    <2> QED
      BY <2>1, <2>2
  <1> QED
    BY <1>3, <1>4

\* Rows that were linked by a value that the mapping knows are still linked.
LEMMA OutcomeIsLinked ==
    ASSUME NEW d, Complete(d), IsBatch(d), NEW out \in Outcome(d),
           NEW f \in Said(d, "profile", Shared).links, NEW n \in DOMAIN out[Child], NEW k \in DOMAIN out[Parent],
           SourceRows(d, Child)[n][f] = SourceRows(d, Parent)[k][f],
           SourceRows(d, Child)[n][f] \in DOMAIN Mapping(d, Child).domain
    PROVE  out[Child][n][f].value = out[Parent][k][f].value
  <1> DEFINE v == SourceRows(d, Parent)[k][f]
  <1>1. Parent \in Members(d) /\ Child \in Members(d)
    BY DEF Complete, Input
  <1>2. out[Parent] \in Applied(d, Parent) /\ out[Child] \in Applied(d, Child) /\ LinksBound(d)
    BY <1>1, OutcomeIsApplied
  <1>3. \A i \in Input : f \in Field /\ Policy(d, i).decision[f].action = "substitute"
    BY <1>2 DEF LinksBound, Input
  <1>4. Mapping(d, Parent).domain = Mapping(d, Child).domain
    <2>1. \A i \in Input : {g \in Field : Policy(d, i).decision[g].action = "substitute"} # {}
      BY <1>3
    <2> QED
      BY <1>2, <2>1 DEF LinksBound
  <1>5. ASSUME NEW i \in Input, NEW m \in DOMAIN out[i], SourceRows(d, i)[m][f] = v
        PROVE  out[i][m][f].value = Mapping(d, Child).domain[v]
    <2>1. i \in Members(d) /\ out[i] \in Applied(d, i)
      BY <1>1, <1>2 DEF Input
    <2>2. f \in Kept(Policy(d, i)) /\ m \in DOMAIN SourceRows(d, i)
      BY <1>3, <2>1, ResultsAreCells DEF Kept, Applied
    <2>3. out[i][m][f] \in Cells(Policy(d, i), Mapping(d, i), Plan(d, i), f, m, v)
      BY <1>5, <2>1, <2>2, ResultsAreCells DEF Applied
    <2>4. Rules(Policy(d, i), Mapping(d, i), f) = Mapping(d, Child).domain
      BY <1>3, <1>4 DEF Rules, Input
    <2> QED
      BY <2>3, <2>4, CellOrigins
  <1> QED
    BY <1>5 DEF Input

-----------------------------------------------------------------------------
(* Digests.                                                                *)

\* A digest says of every slot what the capture says, but of the second reading.
LEMMA DigestSays ==
    ASSUME NEW d, NEW kind, kind # "again", NEW i
    PROVE  /\ <<kind, i>> \in DOMAIN Digest(d) <=> <<kind, i>> \in DOMAIN d
           /\ <<kind, i>> \in DOMAIN d => Said(Digest(d), kind, i) = Said(d, kind, i)
  BY DEF Digest, Said

\* What was reviewed of a capture is reviewed of its digest.
LEMMA DigestIsReviewed ==
    ASSUME NEW d, Complete(d), Prepared(d)
    PROVE  Reviewed(Digest(d))
  <1>1. Members(Digest(d)) = Members(d) /\ (IsBatch(Digest(d)) <=> IsBatch(d))
    BY DigestSays DEF Members, IsBatch
  <1>2. ASSUME NEW i \in Members(d)
        PROVE  /\ Policy(Digest(d), i) = Policy(d, i)
               /\ SourceRows(Digest(d), i) = SourceRows(d, i)
               /\ Mapping(Digest(d), i) = Mapping(d, i)
               /\ Plan(Digest(d), i) = Plan(d, i)
               /\ \A kind \in Reference : Wanted(Digest(d), <<kind, i>>) => <<kind, i>> \in DOMAIN Digest(d)
    <2>1. <<"policy", i>> \in DOMAIN d
      BY DEF Members
    <2>2. Policy(Digest(d), i) = Policy(d, i)
      BY <2>1, DigestSays DEF Policy
    <2>3. \A kind \in Reference : Wanted(Digest(d), <<kind, i>>) <=> Wanted(d, <<kind, i>>)
      BY <2>2 DEF Wanted, Reference
    <2>4. \A kind \in Reference : Wanted(d, <<kind, i>>) => <<kind, i>> \in DOMAIN d
      BY DEF Complete
    <2>5. Wanted(d, <<"rows", i>>) /\ (NeedsMapping(Policy(d, i)) => Wanted(d, <<"mapping", i>>))
          /\ (NeedsPlan(Policy(d, i)) => Wanted(d, <<"plan", i>>))
      BY DEF Wanted
    <2>6. /\ SourceRows(Digest(d), i) = SourceRows(d, i)
          /\ NeedsMapping(Policy(d, i)) => Said(Digest(d), "mapping", i) = Said(d, "mapping", i)
          /\ NeedsPlan(Policy(d, i)) => Said(Digest(d), "plan", i) = Said(d, "plan", i)
      BY <2>4, <2>5, DigestSays DEF SourceRows, Reference
    <2>7. \A kind \in Reference : Wanted(Digest(d), <<kind, i>>) => <<kind, i>> \in DOMAIN Digest(d)
      BY <2>3, <2>4, DigestSays DEF Reference
    <2> QED
      BY <2>2, <2>6, <2>7 DEF Mapping, Plan
  <1>3. Complete(Digest(d))
    BY <1>1, <1>2 DEF Complete
  <1> QED
    BY <1>1, <1>2, <1>3 DEF Reviewed, Prepared

-----------------------------------------------------------------------------
(* Captures.                                                               *)

\* What is left after the first of a sequence.
LEMMA Rest ==
    ASSUME NEW X, NEW T \in Seq(X), T # <<>>
    PROVE  /\ Tail(T) \in Seq(X) /\ 1 \in DOMAIN T /\ Head(T) = T[1]
           /\ \A k \in DOMAIN Tail(T) : k \in Nat /\ k + 1 \in DOMAIN T /\ Tail(T)[k] = T[k + 1]
           /\ \A j \in DOMAIN T : j \in Nat /\ (j # 1 => j - 1 \in DOMAIN Tail(T) /\ Tail(T)[j - 1] = T[j])
  OBVIOUS

\* A capture reads what it is told to, the references that the policy wants
\* included, and keeps what it has.
LEMMA ReadExtends ==
    ASSUME NEW d, NEW slots
    PROVE  /\ DOMAIN d \subseteq DOMAIN Read(d, slots) /\ DOMAIN Read(d, slots) \subseteq DOMAIN d \cup slots
           /\ \A s \in DOMAIN d : Read(d, slots)[s] = d[s]
           /\ \A s \in slots : s[1] \notin {"mapping", "plan"} => s \in DOMAIN Read(d, slots)
           /\ \A i \in Members(Read(d, slots)) : \A kind \in Reference :
                 <<kind, i>> \in slots /\ Wanted(Read(d, slots), <<kind, i>>) => <<kind, i>> \in DOMAIN Read(d, slots)
  <1> DEFINE own == Extended(d, {s \in slots : s[1] \notin {"mapping", "plan"}})
             full == Read(d, slots)
  <1>1. full = Extended(own, {s \in slots : Wanted(own, s)})
    BY DEF Read
  <1>2. /\ DOMAIN own = DOMAIN d \cup {s \in slots : s[1] \notin {"mapping", "plan"}}
        /\ \A s \in DOMAIN d : own[s] = d[s]
    BY DEF Extended
  <1> HIDE DEF own
  <1>3. DOMAIN full = DOMAIN own \cup {s \in slots : Wanted(own, s)} /\ \A s \in DOMAIN own : full[s] = own[s]
    BY <1>1 DEF Extended
  <1>4. ASSUME NEW i \in Members(full), NEW kind \in Reference, <<kind, i>> \in slots, Wanted(full, <<kind, i>>)
        PROVE  <<kind, i>> \in DOMAIN full
    <2>1. <<"policy", i>> \in DOMAIN own
      BY <1>2, <1>3, <1>4 DEF Members
    <2>2. Policy(own, i) = Policy(full, i)
      BY <1>3, <2>1 DEF Policy, Said
    <2>3. Wanted(own, <<kind, i>>)
      BY <1>4, <2>2 DEF Wanted
    <2> QED
      BY <1>3, <1>4, <2>3
  <1> QED
    BY <1>2, <1>3, <1>4

\* A capture that has not begun is told by the places of its slots.
LEMMA InOrder ==
    ASSUME NEW c, c.snap = <<>>, c.todo \in Seq(SUBSET Slot), NEW I \in SUBSET Input, I # {},
           \A i \in I : \E k \in DOMAIN c.todo : <<"policy", i>> \in c.todo[k],
           \A k \in DOMAIN c.todo : <<"profile", Shared>> \in c.todo[k] => I = Input,
           \A i \in Input : \A k \in DOMAIN c.todo : <<"policy", i>> \in c.todo[k] =>
               \A kind \in Reference : \E j \in DOMAIN c.todo : j >= k /\ <<kind, i>> \in c.todo[j]
    PROVE  Coming(c)
  <1>1. DOMAIN c.snap = {} /\ Members(c.snap) = {}
    BY DEF Members
  <1>2. \A i \in I : Expected(c, <<"policy", i>>)
    BY DEF Expected
  <1>3. Expected(c, <<"profile", Shared>>) => I = Input
    BY <1>1 DEF Expected
  <1> QED
    BY <1>1, <1>2, <1>3 DEF Coming

\* Each command's capture is in an order in which nothing is missed.
LEMMA CapturesCome ==
    ASSUME NEW c, c.snap = <<>>, NEW target \in Input \cup {"batch", "session"}, c.todo = Captures(target)
    PROVE  Coming(c)
  <1>1. CASE target \in Input
    <2> DEFINE at(kind) == {kind} \X {target}
    <2>1. c.todo = <<at("policy"), at("mapping"), at("plan"), at("rows")>>
      BY <1>1, InputsAssumption DEF Captures, Input
    <2>2. c.todo \in Seq(SUBSET Slot)
      BY <1>1, <2>1 DEF Slot
    <2>3. /\ DOMAIN c.todo = 1..4
          /\ c.todo[1] = at("policy") /\ c.todo[2] = at("mapping")
          /\ c.todo[3] = at("plan") /\ c.todo[4] = at("rows")
      BY <2>1
    <2>4. \A k \in 1..4 : k = 1 \/ k = 2 \/ k = 3 \/ k = 4
      OBVIOUS
    <2>5. \A k \in DOMAIN c.todo : <<"profile", Shared>> \notin c.todo[k]
      BY <2>3, <2>4
    <2>6. \A i \in Input : \A k \in DOMAIN c.todo : <<"policy", i>> \in c.todo[k] => i = target /\ k = 1
      BY <2>3, <2>4
    <2>7. \A kind \in Reference : \E j \in DOMAIN c.todo : j >= 1 /\ <<kind, target>> \in c.todo[j]
      BY <2>3 DEF Reference
    <2>8. \A i \in {target} : \E k \in DOMAIN c.todo : <<"policy", i>> \in c.todo[k]
      BY <2>3
    <2>9. \A i \in Input : \A k \in DOMAIN c.todo : <<"policy", i>> \in c.todo[k] =>
              \A kind \in Reference : \E j \in DOMAIN c.todo : j >= k /\ <<kind, i>> \in c.todo[j]
      BY <2>6, <2>7
    <2>10. {target} \in SUBSET Input /\ {target} # {}
      BY <1>1
    <2>11. \A k \in DOMAIN c.todo : <<"profile", Shared>> \in c.todo[k] => {target} = Input
      BY <2>5
    <2> QED
      BY <2>2, <2>8, <2>9, <2>10, <2>11, InOrder
  <1>2. CASE target = "batch"
    <2> DEFINE whole(i) == {"policy", "rows", "mapping", "plan"} \X {i}
    <2>1. c.todo = <<{<<"profile", Shared>>}, whole(Parent), whole(Child)>>
      BY <1>2, InputsAssumption DEF Captures, Input
    <2>2. c.todo \in Seq(SUBSET Slot)
      BY <2>1 DEF Slot, Input
    <2>3. /\ DOMAIN c.todo = 1..3
          /\ c.todo[1] = {<<"profile", Shared>>} /\ c.todo[2] = whole(Parent) /\ c.todo[3] = whole(Child)
      BY <2>1
    <2>4. \A k \in 1..3 : k = 1 \/ k = 2 \/ k = 3
      OBVIOUS
    <2>5. \A i \in Input : \E k \in DOMAIN c.todo : <<"policy", i>> \in c.todo[k]
      BY <2>3 DEF Input
    <2>6. \A i \in Input : \A k \in DOMAIN c.todo : <<"policy", i>> \in c.todo[k] =>
              \A kind \in Reference : <<kind, i>> \in c.todo[k] /\ k >= k
      BY <2>3, <2>4 DEF Reference
    <2> QED
      BY <2>2, <2>5, <2>6, InOrder DEF Input
  <1>3. CASE target = "session"
    <2> DEFINE of(kinds) == kinds \X Input
    <2>1. c.todo = <<{<<"profile", Shared>>} \cup of({"policy"}), {<<"rows", Parent>>}, {<<"rows", Child>>},
                     of({"again", "mapping", "plan"})>>
      BY <1>3, InputsAssumption DEF Captures, SessionCaptures, Input
    <2>2. c.todo \in Seq(SUBSET Slot)
      BY <2>1 DEF Slot, Input
    <2>3. /\ DOMAIN c.todo = 1..4
          /\ c.todo[1] = {<<"profile", Shared>>} \cup of({"policy"}) /\ c.todo[2] = {<<"rows", Parent>>}
          /\ c.todo[3] = {<<"rows", Child>>} /\ c.todo[4] = of({"again", "mapping", "plan"})
      BY <2>1
    <2>4. \A k \in 1..4 : k = 1 \/ k = 2 \/ k = 3 \/ k = 4
      OBVIOUS
    <2>5. \A i \in Input : \E k \in DOMAIN c.todo : <<"policy", i>> \in c.todo[k]
      BY <2>3
    <2>6. \A i \in Input : \A k \in DOMAIN c.todo : <<"policy", i>> \in c.todo[k] => k = 1
      BY <2>3, <2>4
    <2>7. \A i \in Input : \A kind \in Reference : \E j \in DOMAIN c.todo : j >= 1 /\ <<kind, i>> \in c.todo[j]
      BY <2>3 DEF Reference, Input
    <2> QED
      BY <2>2, <2>5, <2>6, <2>7, InOrder DEF Input
  <1> QED
    BY <1>1, <1>2, <1>3

\* A step of a capture misses nothing.
LEMMA CaptureComes ==
    ASSUME NEW c, NEW e, Coming(c), c.todo # <<>>, e.todo = Tail(c.todo), e.snap = Read(c.snap, Head(c.todo))
    PROVE  Coming(e)
  <1>1. c.todo \in Seq(SUBSET Slot)
    BY DEF Coming
  <1>2. /\ e.todo \in Seq(SUBSET Slot) /\ 1 \in DOMAIN c.todo /\ Head(c.todo) = c.todo[1]
        /\ \A k \in DOMAIN e.todo : k \in Nat /\ k + 1 \in DOMAIN c.todo /\ e.todo[k] = c.todo[k + 1]
        /\ \A j \in DOMAIN c.todo : j \in Nat /\ (j # 1 => j - 1 \in DOMAIN e.todo /\ e.todo[j - 1] = c.todo[j])
    BY <1>1, Rest
  <1>3. ASSUME NEW slot, slot[1] \notin {"mapping", "plan"}, Expected(c, slot)
        PROVE  Expected(e, slot)
    <2>1. CASE slot \in DOMAIN c.snap
      BY <2>1, ReadExtends DEF Expected
    <2>2. CASE \E j \in DOMAIN c.todo : slot \in c.todo[j]
      <3>1. PICK j \in DOMAIN c.todo : slot \in c.todo[j]
        BY <2>2
      <3>2. CASE j = 1
        BY <1>2, <1>3, <3>1, <3>2, ReadExtends DEF Expected
      <3>3. CASE j # 1
        BY <1>2, <3>1, <3>3 DEF Expected
      <3> QED
        BY <3>2, <3>3
    <2> QED
      BY <1>3, <2>1, <2>2 DEF Expected
  <1>4. ASSUME NEW slot, Expected(e, slot) PROVE Expected(c, slot)
    BY <1>2, <1>4, ReadExtends DEF Expected
  <1>5. ASSUME NEW i \in Members(e.snap), i \in Input, NEW kind \in Reference, Wanted(e.snap, <<kind, i>>)
        PROVE  Expected(e, <<kind, i>>)
    <2>1. <<kind, i>> \in c.todo[1] => Expected(e, <<kind, i>>)
      BY <1>2, <1>5, ReadExtends DEF Expected
    <2>2. CASE i \in Members(c.snap)
      <3>1. Policy(e.snap, i) = Policy(c.snap, i)
        BY <2>2, ReadExtends DEF Policy, Said, Members
      <3>2. Wanted(c.snap, <<kind, i>>)
        BY <1>5, <3>1 DEF Wanted
      <3>3. Expected(c, <<kind, i>>)
        BY <1>5, <2>2, <3>2 DEF Coming
      <3> QED
        BY <1>2, <2>1, <3>3, ReadExtends DEF Expected
    <2>3. CASE i \notin Members(c.snap)
      <3>1. <<"policy", i>> \in c.todo[1]
        BY <1>2, <1>5, <2>3, ReadExtends DEF Members
      <3>2. PICK j \in DOMAIN c.todo : <<kind, i>> \in c.todo[j]
        BY <1>2, <1>5, <3>1 DEF Coming
      <3> QED
        BY <1>2, <2>1, <3>2 DEF Expected
    <2> QED
      BY <2>2, <2>3
  <1>6. ASSUME NEW i \in Input, NEW kind \in Reference, NEW k \in DOMAIN e.todo, <<"policy", i>> \in e.todo[k]
        PROVE  \E j \in DOMAIN e.todo : j >= k /\ <<kind, i>> \in e.todo[j]
    <2>1. k + 1 \in DOMAIN c.todo /\ <<"policy", i>> \in c.todo[k + 1] /\ k \in Nat
      BY <1>2, <1>6
    <2>2. PICK j \in DOMAIN c.todo : j >= k + 1 /\ <<kind, i>> \in c.todo[j]
      BY <2>1 DEF Coming
    <2>3. j \in Nat /\ (j # 1 => j - 1 \in DOMAIN e.todo /\ e.todo[j - 1] = c.todo[j])
      BY <1>2
    <2>4. k >= 1
      BY <1>2, <1>6
    <2>5. j # 1 /\ j - 1 >= k
      BY <2>1, <2>2, <2>3, <2>4
    <2> QED
      BY <2>2, <2>3, <2>5
  <1>7. \E i \in Input : Expected(e, <<"policy", i>>)
    <2>1. PICK i \in Input : Expected(c, <<"policy", i>>)
      BY DEF Coming
    <2> QED
      BY <1>3, <2>1
  <1>8. Expected(e, <<"profile", Shared>>) => \A i \in Input : Expected(e, <<"policy", i>>)
    BY <1>3, <1>4 DEF Coming
  <1> QED
    BY <1>2, <1>5, <1>6, <1>7, <1>8 DEF Coming

\* When nothing is left to capture, nothing is missing.
LEMMA CapturedIsComplete ==
    ASSUME NEW c, Coming(c), c.todo = <<>>
    PROVE  Complete(c.snap)
  <1>1. \A slot : Expected(c, slot) <=> slot \in DOMAIN c.snap
    BY DEF Expected
  <1>2. Members(c.snap) # {} /\ (IsBatch(c.snap) => Members(c.snap) = Input)
    BY <1>1 DEF Coming, Members, IsBatch
  <1>3. ASSUME NEW i \in Members(c.snap), NEW kind \in Reference, Wanted(c.snap, <<kind, i>>)
        PROVE  <<kind, i>> \in DOMAIN c.snap
    <2>1. i \in Input
      BY DEF Members
    <2> QED
      BY <1>1, <1>3, <2>1 DEF Coming
  <1> QED
    BY <1>2, <1>3 DEF Complete

-----------------------------------------------------------------------------
(* Steps.                                                                  *)

\* A step of one command leaves the others what they rely on.
LEMMA CommandsGoOn ==
    ASSUME IInv, NEW p \in Process, NEW c, process' = [process EXCEPT ![p] = c],
           IsFrame(c), Going(c)', shown \subseteq shown', approved \subseteq approved'
    PROVE  /\ process'[p] = c /\ \A q \in Process \ {p} : process'[q] = process[q]
           /\ process' = [q \in Process |-> process'[q]]
           /\ \A q \in Process : IsFrame(process'[q]) /\ Going(process[q])'
  <1>1. /\ DOMAIN process' = Process /\ process'[p] = c
        /\ \A q \in Process \ {p} : process'[q] = process[q]
    BY DEF IInv, Shapes
  <1>2. ASSUME NEW q \in Process
        PROVE  IsFrame(process'[q]) /\ Going(process[q])'
    <2>1. CASE q = p
      BY <1>1, <2>1
    <2>2. CASE q # p
      <3>1. IsFrame(process[q]) /\ Going(process[q]) /\ process'[q] = process[q]
        BY <1>1, <2>2 DEF IInv, Shapes
      <3> QED
        BY <3>1 DEF Going, Released
    <2> QED
      BY <2>1, <2>2
  <1>3. process' = [q \in Process |-> process'[q]]
    BY DEF IInv, Shapes
  <1> QED
    BY <1>1, <1>2, <1>3

\* A step that publishes and receipts nothing keeps all that is known.
LEMMA StepKeeps ==
    ASSUME IInv, NEW p \in Process, NEW c, process' = [process EXCEPT ![p] = c],
           IsFrame(c), Going(c)', c.step # "report", UNCHANGED <<receipt, output>>,
           shown \subseteq shown', approved \subseteq approved', \A d \in shown' : Reviewed(d)
    PROVE  IInv'
  <1>1. /\ process'[p] = c /\ \A q \in Process \ {p} : process'[q] = process[q]
        /\ process' = [q \in Process |-> process'[q]]
        /\ \A q \in Process : IsFrame(process'[q]) /\ Going(process[q])'
    BY CommandsGoOn
  <1>2. Shapes'
    BY <1>1 DEF IInv, Shapes, Published
  <1>3. \A q \in Process : Reporting(q)'
    BY <1>1 DEF IInv, Reporting
  <1>4. (\A r \in Receipt : receipt[r] # NoFile => receipt[r] \in approved)'
    BY DEF IInv
  <1>5. OutputIsReviewed' /\ OutputsAreReleased'
    BY DEF IInv, OutputIsReviewed, OutputsAreReleased, Released, Published
  <1> QED
    BY <1>1, <1>2, <1>3, <1>4, <1>5 DEF IInv

\* A command begins: nothing was captured yet.
LEMMA BeginKeeps ==
    ASSUME IInv, NEW p \in Process, NEW called, NEW target \in Input \cup {"batch", "session"},
           Begin(p, called, target), IsFrame(called), called.snap = <<>>,
           called.command \in {"approve", "execute"} => called.digest \in shown,
           called.command = "approve" => called.receipt \in Receipt,
           called.command = "execute" => called.receipt \in Receipt \cup {NoFile},
           called.command \in {"execute", "session"} => called.dest \in Destination
    PROVE  IInv'
  <1>1. PICK c : c = [called EXCEPT !.step = "capture", !.todo = Captures(target)]
    OBVIOUS
  <1>2. /\ IsFrame(c) /\ c.step = "capture" /\ c.snap = <<>> /\ c.todo = Captures(target)
        /\ c.command = called.command /\ c.digest = called.digest
        /\ c.receipt = called.receipt /\ c.dest = called.dest
    BY <1>1 DEF IsFrame
  <1>3. Coming(c)
    BY <1>2, CapturesCome
  <1>4. Going(c)'
    BY <1>2, <1>3 DEF Going, Later, Begin
  <1> QED
    BY <1>1, <1>2, <1>4, StepKeeps DEF Begin, IInv

\* The targets of commands.
LEMMA Targets ==
    ASSUME IInv
    PROVE  /\ Single \cup {"batch"} \subseteq Input \cup {"batch", "session"}
           /\ \A d \in shown : Target(d) \in Input \cup {"batch", "session"}
  <1>1. ASSUME NEW d \in shown
        PROVE  Target(d) \in Input \cup {"batch", "session"}
    <2>1. Members(d) # {} /\ Members(d) \subseteq Input
      BY DEF IInv, Reviewed, Complete, Members
    <2>2. (CHOOSE i \in Members(d) : TRUE) \in Members(d)
      BY <2>1
    <2> QED
      BY <2>1, <2>2 DEF Target
  <1> QED
    BY <1>1, InputsAssumption DEF Input

LEMMA ReviewKeeps ==
    ASSUME IInv, NEW p \in Process, NEW target \in Single \cup {"batch"}, Review(p, target)
    PROVE  IInv'
  <1>1. PICK c : c = [Idle EXCEPT !.command = "review"]
    OBVIOUS
  <1>2. IsFrame(c) /\ c.snap = <<>> /\ c.command = "review"
    BY <1>1 DEF IsFrame, Idle
  <1>3. Begin(p, c, target) /\ target \in Input \cup {"batch", "session"}
    BY <1>1, Targets DEF Review
  <1> QED
    BY <1>2, <1>3, BeginKeeps

LEMMA ApproveKeeps ==
    ASSUME IInv, NEW p \in Process, NEW d \in shown, NEW r \in Receipt, Approve(p, d, r)
    PROVE  IInv'
  <1>1. PICK c : c = [Idle EXCEPT !.command = "approve", !.digest = d, !.receipt = r]
    OBVIOUS
  <1>2. IsFrame(c) /\ c.snap = <<>> /\ c.command = "approve" /\ c.digest = d /\ c.receipt = r
    BY <1>1 DEF IsFrame, Idle
  <1>3. Begin(p, c, Target(d)) /\ Target(d) \in Input \cup {"batch", "session"}
    BY <1>1, Targets DEF Approve
  <1> QED
    BY <1>2, <1>3, BeginKeeps

LEMMA ExecuteKeeps ==
    ASSUME IInv, NEW p \in Process, NEW d \in shown, NEW r \in Receipt \cup {NoFile}, NEW x \in Destination,
           Execute(p, d, r, x)
    PROVE  IInv'
  <1>1. PICK c : c = [Idle EXCEPT !.command = "execute", !.digest = d, !.receipt = r, !.dest = x]
    OBVIOUS
  <1>2. IsFrame(c) /\ c.snap = <<>> /\ c.command = "execute" /\ c.digest = d /\ c.receipt = r /\ c.dest = x
    BY <1>1 DEF IsFrame, Idle
  <1>3. Begin(p, c, Target(d)) /\ Target(d) \in Input \cup {"batch", "session"}
    BY <1>1, Targets DEF Execute
  <1> QED
    BY <1>2, <1>3, BeginKeeps

LEMMA SessionKeeps ==
    ASSUME IInv, NEW p \in Process, NEW x \in Destination, Session(p, x)
    PROVE  IInv'
  <1>1. PICK c : c = [Idle EXCEPT !.command = "session", !.dest = x]
    OBVIOUS
  <1>2. IsFrame(c) /\ c.snap = <<>> /\ c.command = "session" /\ c.dest = x
    BY <1>1 DEF IsFrame, Idle
  <1>3. Begin(p, c, "session")
    BY <1>1 DEF Session
  <1> QED
    BY <1>2, <1>3, BeginKeeps

LEMMA DecideKeeps ==
    ASSUME IInv, NEW p \in Process, NEW i \in Single, Decide(p, i)
    PROVE  IInv'
  <1>1. PICK c : c = [Idle EXCEPT !.command = "decide"]
    OBVIOUS
  <1>2. IsFrame(c) /\ c.snap = <<>> /\ c.command = "decide"
    BY <1>1 DEF IsFrame, Idle
  <1>3. Begin(p, c, i) /\ i \in Input \cup {"batch", "session"}
    BY <1>1, Targets DEF Decide
  <1> QED
    BY <1>2, <1>3, BeginKeeps

\* What has come so far is kept, and nothing is missed.
LEMMA CaptureKeeps ==
    ASSUME IInv, NEW p \in Process, Capture(p)
    PROVE  IInv'
  <1>1. PICK c : c = [process[p] EXCEPT !.todo = Tail(@), !.snap = Read(@, Head(process[p].todo))]
    OBVIOUS
  <1>2. process' = [process EXCEPT ![p] = c] /\ IsFrame(process[p]) /\ Going(process[p])
    BY <1>1 DEF IInv, Shapes, Capture
  <1>3. IsFrame(c)
    BY <1>1, <1>2 DEF IsFrame
  <1>4. /\ c.step = "capture" /\ c.todo = Tail(process[p].todo) /\ c.snap = Read(process[p].snap, Head(process[p].todo))
        /\ c.command = process[p].command /\ c.digest = process[p].digest
        /\ c.receipt = process[p].receipt /\ c.dest = process[p].dest
    BY <1>1, <1>2 DEF IsFrame, Capture
  <1>5. Coming(c)
    BY <1>2, <1>4, CaptureComes DEF Going, Capture
  <1>6. Going(c)'
    BY <1>2, <1>4, <1>5 DEF Going, Later, Capture
  <1> QED
    BY <1>2, <1>3, <1>4, <1>6, StepKeeps DEF Capture, IInv

\* What is ready was captured whole, and its digest can be shown.
LEMMA ReadyIsReviewed ==
    ASSUME IInv, NEW p \in Process, NEW command, Ready(p, command)
    PROVE  Reviewed(Digest(process[p].snap))
  <1>1. Complete(process[p].snap)
    BY CapturedIsComplete DEF IInv, Going, Ready
  <1> QED
    BY <1>1, DigestIsReviewed DEF Ready

\* A command that ends, and publishes nothing, leaves nothing to rely on.
LEMMA IdleKeeps ==
    ASSUME IInv, NEW p \in Process, process' = [process EXCEPT ![p] = Idle], UNCHANGED <<receipt, output>>,
           shown \subseteq shown', approved \subseteq approved', \A d \in shown' : Reviewed(d)
    PROVE  IInv'
  <1>1. IsFrame(Idle) /\ Idle.step = "idle" /\ Idle.command = "idle"
    BY DEF IsFrame, Idle
  <1>2. Going(Idle)'
    BY <1>1 DEF Going, Later
  <1> QED
    BY <1>1, <1>2, StepKeeps

LEMMA ShowKeeps ==
    ASSUME IInv, NEW p \in Process, Show(p)
    PROVE  IInv'
  BY IdleKeeps, ReadyIsReviewed DEF Show, IInv

\* A person is asked about what was captured.
LEMMA AskKeeps ==
    ASSUME IInv, NEW p \in Process, Ask(p)
    PROVE  IInv'
  <1>1. PICK c : c = [process[p] EXCEPT !.step = "confirm"]
    OBVIOUS
  <1>2. process' = [process EXCEPT ![p] = c] /\ IsFrame(process[p]) /\ Going(process[p])
    BY <1>1 DEF IInv, Shapes, Ask
  <1>3. IsFrame(c)
    BY <1>1, <1>2 DEF IsFrame
  <1>4. /\ c.step = "confirm" /\ c.command = process[p].command /\ c.digest = process[p].digest /\ c.snap = process[p].snap
        /\ c.receipt = process[p].receipt /\ c.dest = process[p].dest
    BY <1>1, <1>2 DEF IsFrame
  <1>5. Going(c)'
    BY <1>2, <1>4 DEF Going, Later, Ask, Ready, SameSnapshot
  <1> QED
    BY <1>2, <1>3, <1>4, <1>5, StepKeeps DEF Ask, IInv

\* What was captured is what the caller asked for.
LEMMA CheckKeeps ==
    ASSUME IInv, NEW p \in Process, Check(p)
    PROVE  IInv'
  <1>1. PICK c : c = [process[p] EXCEPT !.step = "run"]
    OBVIOUS
  <1>2. process' = [process EXCEPT ![p] = c] /\ IsFrame(process[p]) /\ Going(process[p])
    BY <1>1 DEF IInv, Shapes, Check
  <1>3. IsFrame(c)
    BY <1>1, <1>2 DEF IsFrame
  <1>4. /\ c.step = "run" /\ c.command = process[p].command /\ c.digest = process[p].digest /\ c.snap = process[p].snap
        /\ c.receipt = process[p].receipt /\ c.dest = process[p].dest
    BY <1>1, <1>2 DEF IsFrame
  <1>5. Going(c)'
    BY <1>2, <1>4 DEF Going, Later, Check, Ready, SameSnapshot
  <1> QED
    BY <1>2, <1>3, <1>4, <1>5, StepKeeps DEF Check, IInv

\* A session goes on with what it has shown.
LEMMA ShowSessionKeeps ==
    ASSUME IInv, NEW p \in Process, ShowSession(p)
    PROVE  IInv'
  <1>1. PICK c : c = [process[p] EXCEPT !.digest = Digest(process[p].snap), !.step = IF Confirmed(Digest(process[p].snap)) THEN "confirm" ELSE "run"]
    OBVIOUS
  <1>2. process' = [process EXCEPT ![p] = c] /\ IsFrame(process[p]) /\ Going(process[p])
    BY <1>1 DEF IInv, Shapes, ShowSession
  <1>3. IsFrame(c)
    BY <1>1, <1>2 DEF IsFrame
  <1>4. /\ c.step = (IF Confirmed(c.digest) THEN "confirm" ELSE "run") /\ c.command = process[p].command
        /\ c.digest = Digest(process[p].snap) /\ c.snap = process[p].snap
        /\ c.receipt = process[p].receipt /\ c.dest = process[p].dest
    BY <1>1, <1>2 DEF IsFrame
  <1>5. process[p].command = "session" /\ shown' = shown \cup {c.digest} /\ UNCHANGED approved
    BY <1>4 DEF ShowSession, Ready
  <1>6. Going(c)'
    BY <1>2, <1>4, <1>5 DEF Going, Later, Released
  <1>7. \A d \in shown' : Reviewed(d)
    BY <1>4, <1>5, ReadyIsReviewed DEF ShowSession, IInv
  <1> QED
    BY <1>2, <1>3, <1>4, <1>5, <1>6, <1>7, StepKeeps DEF ShowSession

\* The digest that was shown is approved.
LEMMA TypeApproveKeeps ==
    ASSUME IInv, NEW p \in Process, TypeApprove(p)
    PROVE  IInv'
  <1>1. PICK c : c = [process[p] EXCEPT !.step = IF process[p].command = "session" THEN "run" ELSE "write"]
    OBVIOUS
  <1>2. process' = [process EXCEPT ![p] = c] /\ IsFrame(process[p]) /\ Going(process[p])
    BY <1>1 DEF IInv, Shapes, TypeApprove
  <1>3. IsFrame(c)
    BY <1>1, <1>2 DEF IsFrame
  <1>4. /\ c.step = (IF process[p].command = "session" THEN "run" ELSE "write") /\ c.command = process[p].command
        /\ c.digest = process[p].digest /\ c.snap = process[p].snap
        /\ c.receipt = process[p].receipt /\ c.dest = process[p].dest
    BY <1>1, <1>2 DEF IsFrame
  <1>5. Going(c)'
    BY <1>2, <1>4 DEF Going, Later, TypeApprove, Released
  <1> QED
    BY <1>2, <1>3, <1>4, <1>5, StepKeeps DEF TypeApprove, IInv

\* A receipt holds the digest that was approved.
LEMMA WriteReceiptKeeps ==
    ASSUME IInv, NEW p \in Process, WriteReceipt(p)
    PROVE  IInv'
  <1>1. IsFrame(Idle) /\ Idle.step = "idle" /\ Idle.command = "idle"
    BY DEF IsFrame, Idle
  <1>2. Going(Idle)'
    BY <1>1 DEF Going, Later
  <1>3. /\ process'[p] = Idle /\ \A q \in Process \ {p} : process'[q] = process[q]
        /\ process' = [q \in Process |-> process'[q]]
        /\ \A q \in Process : IsFrame(process'[q]) /\ Going(process[q])'
    BY <1>1, <1>2, CommandsGoOn DEF WriteReceipt
  <1>4. process[p].digest \in approved
    BY DEF IInv, Going, WriteReceipt
  <1>5. Shapes' /\ (\A r \in Receipt : receipt[r] # NoFile => receipt[r] \in approved)'
    BY <1>3, <1>4 DEF IInv, Shapes, Published, WriteReceipt
  <1>6. \A q \in Process : Reporting(q)'
    BY <1>1, <1>3 DEF IInv, Reporting, WriteReceipt
  <1>7. OutputIsReviewed' /\ OutputsAreReleased'
    BY DEF IInv, OutputIsReviewed, OutputsAreReleased, Released, Published, WriteReceipt
  <1> QED
    BY <1>3, <1>5, <1>6, <1>7 DEF IInv, WriteReceipt

\* A receipt that is needed is one for this digest.
LEMMA RunKeeps ==
    ASSUME IInv, NEW p \in Process, Run(p)
    PROVE  IInv'
  <1>1. PICK c : c = [process[p] EXCEPT !.step = "publish"]
    OBVIOUS
  <1>2. process' = [process EXCEPT ![p] = c] /\ IsFrame(process[p]) /\ Going(process[p])
    BY <1>1 DEF IInv, Shapes, Run
  <1>3. IsFrame(c)
    BY <1>1, <1>2 DEF IsFrame
  <1>4. /\ c.step = "publish" /\ c.command = process[p].command /\ c.digest = process[p].digest /\ c.snap = process[p].snap
        /\ c.receipt = process[p].receipt /\ c.dest = process[p].dest
    BY <1>1, <1>2 DEF IsFrame
  <1>5. process[p].step = "run" /\ c.digest = Digest(c.snap) /\ Outcome(c.digest) # {}
    BY <1>2, <1>4 DEF Run, Going, Later
  <1>6. Released(c.digest)
    <2> SUFFICES ASSUME Confirmed(c.digest) PROVE c.digest \in approved
      BY DEF Released
    <2>1. Verified(p)
      BY <1>4 DEF Run
    <2>2. CASE process[p].command = "session"
      BY <1>2, <1>4, <1>5, <2>2 DEF Going, Released
    <2>3. CASE process[p].command # "session"
      <3>1. process[p].command = "execute" /\ process[p].receipt \in Receipt
        BY <1>2, <1>5, <2>1, <2>3 DEF Going, Verified
      <3>2. receipt[process[p].receipt] = c.digest /\ c.digest # NoFile
        BY <1>4, <2>1, <2>3, ConfirmedIsDigest DEF Verified
      <3> QED
        BY <3>1, <3>2 DEF IInv
    <2> QED
      BY <2>2, <2>3
  <1>7. Going(c)'
    BY <1>2, <1>4, <1>5, <1>6 DEF Going, Later, Run, Released
  <1> QED
    BY <1>2, <1>3, <1>4, <1>7, StepKeeps DEF Run, IInv

\* A draft is not a digest.
LEMMA DraftKeeps ==
    ASSUME IInv, NEW p \in Process, NEW a, Draft(p, a)
    PROVE  IInv'
  <1>1. PICK c : c = [process[p] EXCEPT !.draft = Revised(p, a), !.step = "draft"]
    OBVIOUS
  <1>2. process' = [process EXCEPT ![p] = c] /\ IsFrame(process[p]) /\ Going(process[p])
    BY <1>1 DEF IInv, Shapes, Draft
  <1>3. IsFrame(c)
    BY <1>1, <1>2 DEF IsFrame
  <1>4. /\ c.step = "draft" /\ c.command = process[p].command /\ c.digest = process[p].digest /\ c.snap = process[p].snap
        /\ c.receipt = process[p].receipt /\ c.dest = process[p].dest
    BY <1>1, <1>2 DEF IsFrame
  <1>5. Going(c)'
    BY <1>2, <1>4 DEF Going, Later, Draft, Ready
  <1> QED
    BY <1>2, <1>3, <1>4, <1>5, StepKeeps DEF Draft, IInv

\* What is checked again is not captured again.
LEMMA TypeSaveKeeps ==
    ASSUME IInv, NEW p \in Process, TypeSave(p)
    PROVE  IInv'
  <1>1. PICK c : c = [process[p] EXCEPT !.step = "save", !.todo = Captures(Target(process[p].snap))]
    OBVIOUS
  <1>2. process' = [process EXCEPT ![p] = c] /\ IsFrame(process[p]) /\ Going(process[p])
    BY <1>1 DEF IInv, Shapes, TypeSave
  <1>3. IsFrame(c)
    BY <1>1, <1>2 DEF IsFrame
  <1>4. /\ c.step = "save" /\ c.command = process[p].command /\ c.digest = process[p].digest /\ c.snap = process[p].snap
        /\ c.receipt = process[p].receipt /\ c.dest = process[p].dest
    BY <1>1, <1>2 DEF IsFrame
  <1>5. Going(c)'
    BY <1>2, <1>4 DEF Going, Later, TypeSave
  <1> QED
    BY <1>2, <1>3, <1>4, <1>5, StepKeeps DEF TypeSave, IInv

LEMMA RecheckKeeps ==
    ASSUME IInv, NEW p \in Process, Recheck(p)
    PROVE  IInv'
  <1>1. PICK c : c = [process[p] EXCEPT !.todo = Tail(@)]
    OBVIOUS
  <1>2. process' = [process EXCEPT ![p] = c] /\ IsFrame(process[p]) /\ Going(process[p])
    BY <1>1 DEF IInv, Shapes, Recheck
  <1>3. IsFrame(c)
    BY <1>1, <1>2 DEF IsFrame
  <1>4. /\ c.step = "save" /\ c.command = process[p].command /\ c.digest = process[p].digest /\ c.snap = process[p].snap
        /\ c.receipt = process[p].receipt /\ c.dest = process[p].dest
    BY <1>1, <1>2 DEF IsFrame, Recheck
  <1>5. Going(c)'
    BY <1>2, <1>4 DEF Going, Later, Recheck
  <1> QED
    BY <1>2, <1>3, <1>4, <1>5, StepKeeps DEF Recheck, IInv

LEMMA SaveKeeps ==
    ASSUME IInv, NEW p \in Process, Save(p)
    PROVE  IInv'
  BY IdleKeeps DEF Save, IInv

LEMMA KillKeeps ==
    ASSUME IInv, NEW p \in Process, Kill(p)
    PROVE  IInv'
  BY IdleKeeps DEF Kill, IInv

\* What is published is what was reviewed, where there was no folder.
LEMMA PublishKeeps ==
    ASSUME IInv, NEW p \in Process, Publish(p)
    PROVE  IInv'
  <1> DEFINE x == process[p].dest
             d == process[p].digest
  <1>1. PICK c : c = [process[p] EXCEPT !.step = "report"]
    OBVIOUS
  <1>2. /\ process' = [process EXCEPT ![p] = c] /\ IsFrame(process[p]) /\ Going(process[p])
        /\ process[p].step = "publish"
    BY <1>1 DEF IInv, Shapes, Publish
  <1>3. IsFrame(c)
    BY <1>1, <1>2 DEF IsFrame
  <1>4. /\ c.step = "report" /\ c.command = process[p].command /\ c.digest = d /\ c.snap = process[p].snap
        /\ c.receipt = process[p].receipt /\ c.dest = x
    BY <1>1, <1>2 DEF IsFrame
  <1>5. Going(c)'
    BY <1>2, <1>4 DEF Going, Later, Publish
  <1>6. /\ process'[p] = c /\ \A q \in Process \ {p} : process'[q] = process[q]
        /\ process' = [q \in Process |-> process'[q]]
        /\ \A q \in Process : IsFrame(process'[q]) /\ Going(process[q])'
    BY <1>2, <1>3, <1>5, CommandsGoOn DEF Publish
  <1>7. /\ d = Digest(process[p].snap) /\ d \in shown /\ Released(d) /\ Outcome(d) # {} /\ x \in Destination
    BY <1>2 DEF Going, Later
  <1>8. RowsOf(process[p].snap) \in Outcome(d)
    BY <1>7 DEF RowsOf
  <1>9. PICK o : o = [asked |-> d, rows |-> RowsOf(process[p].snap), by |-> p, done |-> FALSE]
    OBVIOUS
  <1>10. /\ o # NoFile /\ IsOutput(o) /\ o.asked = d /\ o.rows \in Outcome(d) /\ o.by = p /\ o.done = FALSE
    <2>1. "asked" \in DOMAIN o /\ DOMAIN NoFile = {}
      BY <1>9 DEF NoFile
    <2> QED
      BY <1>8, <1>9, <2>1 DEF IsOutput
  <1>11. /\ output' = [output EXCEPT ![x] = o] /\ output[x] = NoFile /\ UNCHANGED <<receipt, shown, approved>>
    BY <1>9 DEF Publish
  <1>12. /\ output'[x] = o /\ \A y \in Destination \ {x} : output'[y] = output[y]
         /\ output' = [y \in Destination |-> output'[y]]
    BY <1>7, <1>11 DEF IInv, Shapes
  <1>13. Shapes'
    BY <1>6, <1>10, <1>11, <1>12 DEF IInv, Shapes, Published
  <1>14. ASSUME NEW q \in Process
         PROVE  Reporting(q)'
    <2>1. CASE q = p
      BY <1>4, <1>6, <1>10, <1>12, <2>1 DEF Reporting
    <2>2. CASE q # p
      BY <1>6, <1>11, <1>12, <2>2 DEF IInv, Reporting, Going
    <2> QED
      BY <2>1, <2>2
  <1>15. OutputIsReviewed' /\ OutputsAreReleased'
    BY <1>7, <1>10, <1>11, <1>12 DEF IInv, OutputIsReviewed, OutputsAreReleased, Released, Published
  <1> QED
    BY <1>6, <1>11, <1>13, <1>14, <1>15 DEF IInv

\* What becomes of a folder when its command ends: it stays, or it is removed by
\* the one command that published it.
Leaves(p) ==
    \/ output' = output
    \/ /\ process[p].step = "report"
       /\ output' = [output EXCEPT ![process[p].dest] = NoFile]
    \/ /\ process[p].step = "report"
       /\ output' = [output EXCEPT ![process[p].dest] = [output[process[p].dest] EXCEPT !.done = TRUE]]

\* A command that reports or stops changes no folder but its own.
LEMMA LeavesKeep ==
    ASSUME IInv, NEW p \in Process, Leaves(p), process' = [process EXCEPT ![p] = Idle],
           UNCHANGED <<receipt, shown, approved>>
    PROVE  IInv'
  <1> DEFINE x == process[p].dest
  <1>1. IsFrame(Idle) /\ Idle.step = "idle" /\ Idle.command = "idle"
    BY DEF IsFrame, Idle
  <1>2. Going(Idle)'
    BY <1>1 DEF Going, Later
  <1>3. /\ process'[p] = Idle /\ \A q \in Process \ {p} : process'[q] = process[q]
        /\ process' = [q \in Process |-> process'[q]]
        /\ \A q \in Process : IsFrame(process'[q]) /\ Going(process[q])'
    BY <1>1, <1>2, CommandsGoOn
  <1>4. process[p].step = "report" =>
            /\ x \in Destination /\ output[x] # NoFile /\ output[x].by = p /\ IsOutput(output[x])
    BY DEF IInv, Going, Reporting, Shapes, Published
  <1>5. /\ output' = [y \in Destination |-> output'[y]]
        /\ \A y \in Destination : output'[y] # output[y] => process[p].step = "report" /\ y = x
        /\ \A y \in Destination : output'[y] # output[y] /\ output'[y] # NoFile =>
              output'[y] = [output[y] EXCEPT !.done = TRUE]
    BY <1>4 DEF Leaves, IInv, Shapes
  <1>6. ASSUME NEW y \in Destination, output'[y] # NoFile
        PROVE  /\ output[y] # NoFile /\ output'[y].asked = output[y].asked /\ output'[y].rows = output[y].rows
               /\ IsOutput(output'[y]) /\ output'[y].done \in BOOLEAN
    <2>1. CASE output'[y] = output[y]
      BY <1>6, <2>1 DEF IInv, Shapes, Published
    <2>2. CASE output'[y] # output[y]
      BY <1>4, <1>5, <1>6, <2>2 DEF IsOutput
    <2> QED
      BY <2>1, <2>2
  <1>7. Shapes'
    BY <1>3, <1>5, <1>6 DEF IInv, Shapes, Published
  <1>8. ASSUME NEW q \in Process
        PROVE  Reporting(q)'
    <2>1. CASE q = p
      BY <1>1, <1>3, <2>1 DEF Reporting
    <2>2. CASE q # p /\ process[q].step = "report"
      <3>1. process'[q] = process[q] /\ Reporting(q) /\ process[q].dest \in Destination
        BY <1>3, <2>2 DEF IInv, Going
      <3>2. output'[process[q].dest] = output[process[q].dest]
        BY <1>4, <1>5, <2>2, <3>1 DEF Reporting
      <3> QED
        BY <3>1, <3>2 DEF Reporting
    <2>3. CASE q # p /\ process[q].step # "report"
      BY <1>3, <2>3 DEF Reporting
    <2> QED
      BY <2>1, <2>2, <2>3
  <1>9. OutputIsReviewed' /\ OutputsAreReleased'
    BY <1>6 DEF IInv, OutputIsReviewed, OutputsAreReleased, Released, Published
  <1> QED
    BY <1>3, <1>7, <1>8, <1>9 DEF IInv

\* Each command leaves others' folders alone.
LEMMA EndsLeave ==
    ASSUME NEW p \in Process, Report(p) \/ Stop(p) \/ Kill(p)
    PROVE  Leaves(p) /\ process' = [process EXCEPT ![p] = Idle] /\ UNCHANGED <<receipt, shown, approved>>
  BY DEF Report, Stop, Kill, Leaves

-----------------------------------------------------------------------------
(* Theorems.                                                               *)

LEMMA InitHolds ==
    ASSUME Init PROVE IInv
  <1>1. IsFrame(Idle) /\ Idle.step = "idle" /\ Idle.command = "idle"
    BY DEF IsFrame, Idle
  <1>2. Going(Idle)
    BY <1>1 DEF Going, Later
  <1>3. Published = {}
    BY DEF Init, Published
  <1> QED
    BY <1>1, <1>2, <1>3 DEF Init, IInv, Shapes, Reporting, OutputIsReviewed, OutputsAreReleased

LEMMA NextKeeps ==
    ASSUME IInv, [Next]_vars PROVE IInv'
  <1>1. CASE UNCHANGED vars
    BY <1>1 DEF vars, IInv, Shapes, Going, Reporting, Released, Published, OutputIsReviewed, OutputsAreReleased
  <1>2. ASSUME NEW a \in Alternatives, Edit(a[1], a[2]) PROVE IInv'
    BY <1>2 DEF Edit, IInv, Shapes, Going, Reporting, Released, Published, OutputIsReviewed, OutputsAreReleased
  <1>3. ASSUME NEW p \in Process,
               \/ \E target \in Single \cup {"batch"} : Review(p, target)
               \/ \E d \in shown, r \in Receipt : Approve(p, d, r)
               \/ \E d \in shown, r \in Receipt \cup {NoFile}, x \in Destination : Execute(p, d, r, x)
               \/ \E x \in Destination : Session(p, x)
               \/ \E i \in Single : Decide(p, i)
        PROVE  IInv'
    BY <1>3, ReviewKeeps, ApproveKeeps, ExecuteKeeps, SessionKeeps, DecideKeeps
  <1>4. ASSUME NEW p \in Process,
               \/ Capture(p) \/ Show(p) \/ Ask(p) \/ Check(p) \/ ShowSession(p) \/ TypeApprove(p)
               \/ WriteReceipt(p) \/ Run(p) \/ Publish(p)
        PROVE  IInv'
    BY <1>4, CaptureKeeps, ShowKeeps, AskKeeps, CheckKeeps, ShowSessionKeeps, TypeApproveKeeps, WriteReceiptKeeps,
       RunKeeps, PublishKeeps
  <1>5. ASSUME NEW p \in Process,
               (\E a \in Alternatives : Draft(p, a)) \/ TypeSave(p) \/ Recheck(p) \/ Save(p)
        PROVE  IInv'
    BY <1>5, DraftKeeps, TypeSaveKeeps, RecheckKeeps, SaveKeeps
  <1>6. ASSUME NEW p \in Process, Report(p) \/ Stop(p) \/ Kill(p)
        PROVE  IInv'
    BY <1>6, EndsLeave, LeavesKeep
  <1> QED
    BY <1>1, <1>2, <1>3, <1>4, <1>5, <1>6 DEF Next

LEMMA Invariant == Spec => []IInv
  <1>1. Init => IInv
    BY InitHolds
  <1>2. IInv /\ [Next]_vars => IInv'
    BY NextKeeps
  <1> QED
    BY <1>1, <1>2, PTL DEF Spec

\* The rows are what the engine makes of the versions that the caller's digest
\* stands for, and their review was displayed, whatever was edited meanwhile.
THEOREM OutputReviewed == Spec => []OutputIsReviewed
  <1>1. IInv => OutputIsReviewed
    BY DEF IInv
  <1> QED
    BY <1>1, Invariant, PTL

\* Output in which a value of the source survives was approved at a terminal.
THEOREM OriginalsApproved == Spec => []OriginalsAreApproved
  <1>1. IInv => OriginalsAreApproved
    <2> SUFFICES ASSUME IInv, NEW x \in Published, NEW i \in DOMAIN output[x].rows,
                        NEW n \in DOMAIN output[x].rows[i], NEW f \in DOMAIN output[x].rows[i][n],
                        output[x].rows[i][n][f].from = "original"
                 PROVE  output[x].asked \in approved
      BY DEF OriginalsAreApproved
    <2>1. output[x].rows \in Outcome(output[x].asked) /\ Released(output[x].asked)
      BY DEF IInv, OutputIsReviewed, OutputsAreReleased
    <2> QED
      BY <2>1, OriginalsAreConfirmed DEF Released
  <1> QED
    BY <1>1, Invariant, PTL

\* In a row that keeps every column some cell is not the source's; no generated
\* value is the source's own but for a number zero; sensitive values stand only
\* where a mapping puts them; what is not null does not read back as null.
THEOREM RowsTransformed == Spec => []RowsAreTransformed
  <1>1. IInv => RowsAreTransformed
    <2> SUFFICES ASSUME IInv, NEW x \in Published, NEW i \in DOMAIN output[x].rows
                 PROVE  Transformed(Policy(output[x].asked, i), SourceRows(output[x].asked, i), output[x].rows[i])
      BY DEF RowsAreTransformed, Transformed
    <2> DEFINE d == output[x].asked
    <2>1. output[x].rows \in Outcome(d) /\ Reviewed(d)
      BY DEF IInv, OutputIsReviewed
    <2>2. i \in Members(d) /\ output[x].rows[i] \in Applied(d, i)
      BY <2>1, OutcomeIsApplied
    <2> QED
      BY <2>1, <2>2, ResultsAreTransformed DEF Applied, Reviewed
  <1> QED
    BY <1>1, Invariant, PTL

\* In a batch's output each child row's key names a parent row, and rows that
\* were linked by a value the mapping knows are still linked.
THEOREM LinksStay == Spec => []LinksSurvive
  <1>1. IInv => LinksSurvive
    <2> SUFFICES ASSUME IInv, NEW x \in Published, IsBatch(output[x].asked),
                        NEW f \in Said(output[x].asked, "profile", Shared).links,
                        NEW n \in DOMAIN output[x].rows[Child]
                 PROVE  LET d == output[x].asked
                            parents == output[x].rows[Parent]
                            children == output[x].rows[Child]
                        IN  /\ children[n][f].value # Null =>
                                  \E k \in DOMAIN parents : parents[k][f].value = children[n][f].value
                            /\ \A k \in DOMAIN parents :
                                  /\ SourceRows(d, Child)[n][f] = SourceRows(d, Parent)[k][f]
                                  /\ SourceRows(d, Child)[n][f] \in DOMAIN Mapping(d, Child).domain
                                  => children[n][f].value = parents[k][f].value
      BY DEF LinksSurvive
    <2>1. output[x].rows \in Outcome(output[x].asked) /\ Reviewed(output[x].asked)
      BY DEF IInv, OutputIsReviewed
    <2>2. KeysResolve(Said(output[x].asked, "profile", Shared).links, output[x].rows)
      BY <2>1, OutcomeIsApplied
    <2> QED
      BY <2>1, <2>2, OutcomeIsLinked DEF KeysResolve, Reviewed
  <1> QED
    BY <1>1, Invariant, PTL

\* A folder is never replaced, and only the command that published it takes it
\* away again, before it has reported success.
THEOREM FoldersAreLeft == Spec => FoldersStay
  <1> DEFINE Left == \A x \in Published : output'[x] # output[x] =>
                /\ ~output[x].done /\ process[output[x].by].step = "report" /\ process[output[x].by].dest = x
                /\ output'[x] \in {NoFile, [output[x] EXCEPT !.done = TRUE]}
  <1>1. IInv /\ [Next]_vars => [Left]_vars
    <2> SUFFICES ASSUME IInv, Next, NEW x \in Published, output'[x] # output[x]
                 PROVE  /\ ~output[x].done /\ process[output[x].by].step = "report" /\ process[output[x].by].dest = x
                        /\ output'[x] \in {NoFile, [output[x] EXCEPT !.done = TRUE]}
      OBVIOUS
    <2>1. PICK p \in Process : Publish(p) \/ Report(p) \/ Stop(p)
      BY DEF Next, Edit, Review, Approve, Execute, Session, Decide, Begin, Capture, Show, Ask, Check, ShowSession,
             TypeApprove, WriteReceipt, Run, Draft, TypeSave, Recheck, Save, Kill
    <2>2. Going(process[p]) /\ Reporting(p) /\ output = [y \in Destination |-> output[y]]
      BY DEF IInv, Shapes
    <2>3. ~Publish(p)
      BY <2>2 DEF Publish, Published, Going
    <2>4. Leaves(p) /\ output' # output
      BY <2>1, <2>3, EndsLeave
    <2>5. process[p].step = "report" /\ x = process[p].dest
      BY <2>2, <2>4 DEF Leaves, Published
    <2> QED
      BY <2>2, <2>4, <2>5 DEF Leaves, Reporting, Published
  <1> QED
    BY <1>1, Invariant, PTL DEF Spec, FoldersStay

-----------------------------------------------------------------------------
(* Captures: the inductive invariant.                                      *)

Plain == {"plain", "wide"}
Table == [columns |-> found, rows |-> taken]

\* What was taken may be captured as it is.
Whole ==
    /\ taken \in Seq(Isolation!Values) /\ Len(taken) <= CaptureRows /\ Isolation!Bytes(taken) <= CaptureBytes
    /\ \A i \in DOMAIN taken : taken[i] \in Plain
    /\ Isolation!Authorized(found)

\* What was taken exceeds a limit.
Beyond(what) ==
    /\ what \in {"rows", "bytes", "work", "cell"}
    /\ taken \in Seq(Isolation!Values) /\ Isolation!Exceeds(what)

\* What the child has made sure of, by where it is.
ChildKnows ==
    /\ table \in CaptureTables /\ read \in Nat
    /\ (child = "none") = (parent = "start")
    /\ child \in {"none", "boot", "find", "open"} => read = 0
    /\ child \in {"open", "fetch"} => Isolation!Authorized(found)
    /\ child = "fetch" =>
        /\ taken \in Seq(Isolation!Values)
        /\ read <= Len(Isolation!Selected)
        /\ read = Len(Isolation!Selected) => read <= CaptureRows
        /\ \A i \in 1..read : Isolation!Selected[i] \in Plain
    /\ child \in {"copy", "publish"} => Whole

\* What it leaves for the parent is true of what it took.
LeftIsTrue ==
    /\ told = [length |-> told.length, payload |-> told.payload, told |-> told.told]
    /\ told.length \in 0..4
    /\ told.length # 0 => child \in {"ending", "ended"}
    /\ child = "publish" \/ told.length = 4 => Whole /\ told.payload = Table
    /\ told.length \in {2, 3} => Beyond(told.told)

\* The parent has a copy of that only if the child has ended.
ResultOf(c) ==
    \/ c.kind = "captured" /\ Whole /\ c.of = Table
    \/ c.kind = "limit" /\ Beyond(c.of)
CopyIsTrue ==
    /\ copy # None => child = "ended" /\ ResultOf(copy)
    /\ outcome # None => \/ outcome.kind \in {"invalid", "unreaped"}
                         \/ child = "ended" /\ ResultOf(outcome)

\* A connection is closed before the child ends by itself, and the parent goes
\* on without the child only once it has tried everything.
Ended ==
    /\ child \in {"copy", "publish", "ending"} => ~connected
    /\ exitcode # None => child = "ended"
    /\ exitcode = 0 => ~connected
    /\ parent = "killing" => killed
    /\ parent = "finish" /\ Isolation!Running => killed
    /\ Isolation!NothingRunsOn

\* The clock is as far as the waits and the other steps of the parent let it.
OnTime ==
    /\ now \in Nat /\ slack \in Nat /\ until \in Nat
    /\ parent # "done" => now <= CaptureDeadline + slack
    /\ until <= CaptureDeadline + slack

CaptureInv == ChildKnows /\ LeftIsTrue /\ CopyIsTrue /\ Ended /\ OnTime

ofParent == <<parent, until, copy, killed, outcome>>

-----------------------------------------------------------------------------
(* Rows.                                                                   *)

\* A part of what was taken is not larger than the whole.
LEMMA PartsAreSmaller ==
    ASSUME NEW s \in Seq(Isolation!Values), NEW n \in 0..Len(s)
    PROVE  /\ Isolation!Bytes(s) \in Nat
           /\ Isolation!Bytes(SubSeq(s, 1, n)) \in Nat
           /\ Isolation!Bytes(SubSeq(s, 1, n)) <= Isolation!Bytes(s)
<1> DEFINE t == SubSeq(s, 1, n)
           W(r) == {i \in DOMAIN r : r[i] = "wide"}
<1>1. Len(t) = n /\ DOMAIN t = 1..n /\ DOMAIN s = 1..Len(s) /\ \A i \in 1..n : t[i] = s[i]
  OBVIOUS
<1>2. IsFiniteSet(W(s))
  <2>1. IsFiniteSet(1..Len(s))
    BY FS_Interval
  <2> QED BY <1>1, <2>1, FS_Subset
<1>3. W(t) \subseteq W(s)
  BY <1>1
<1>4. IsFiniteSet(W(t)) /\ Cardinality(W(t)) <= Cardinality(W(s))
  BY <1>2, <1>3, FS_Subset
<1>5. Cardinality(W(s)) \in Nat /\ Cardinality(W(t)) \in Nat
  BY <1>2, <1>4, FS_CardinalityType
<1>6. Isolation!Cardinality(W(s)) = Cardinality(W(s)) /\ Isolation!Cardinality(W(t)) = Cardinality(W(t))
  BY DEF Isolation!Cardinality, Cardinality
<1>7. Isolation!Bytes(s) = Len(s) + Cardinality(W(s)) /\ Isolation!Bytes(t) = n + Cardinality(W(t))
  BY <1>1, <1>6 DEF Isolation!Bytes
<1> HIDE DEF t, W
<1>8. Isolation!Bytes(s) \in Nat /\ Isolation!Bytes(t) \in Nat /\ Isolation!Bytes(t) <= Isolation!Bytes(s)
  BY <1>4, <1>5, <1>7
<1> QED BY <1>8 DEF t

\* What a statement selects is what is there, up to one row beyond the limit.
LEMMA LimitedRows ==
    ASSUME NEW s \in Seq(Isolation!Values)
    PROVE  /\ Isolation!Limited(s) \in Seq(Isolation!Values)
           /\ Len(Isolation!Limited(s)) <= Len(s)
           /\ Isolation!Limited(s) = SubSeq(s, 1, Len(Isolation!Limited(s)))
           /\ \A i \in 1..Len(Isolation!Limited(s)) : Isolation!Limited(s)[i] = s[i]
           /\ Len(Isolation!Limited(s)) > CaptureRows => Len(s) > CaptureRows
           /\ Len(Isolation!Limited(s)) <= CaptureRows => Isolation!Limited(s) = s
<1> DEFINE n == Isolation!Least(Len(s), CaptureRows + 1)
<1>1. CaptureRows \in Nat
  BY LimitsAssumption DEF Isolation!LimitsAssumption
<1>2. n \in 0..Len(s) /\ n <= CaptureRows + 1 /\ (n <= CaptureRows => n = Len(s))
  BY <1>1 DEF Isolation!Least
<1>3. Isolation!Limited(s) = SubSeq(s, 1, n)
  BY DEF Isolation!Limited
<1> HIDE DEF n
<1>4. /\ SubSeq(s, 1, n) \in Seq(Isolation!Values) /\ Len(SubSeq(s, 1, n)) = n
      /\ \A i \in 1..n : SubSeq(s, 1, n)[i] = s[i]
  BY <1>2
<1>5. n = Len(s) => SubSeq(s, 1, n) = s
  OBVIOUS
<1> QED BY <1>1, <1>2, <1>3, <1>4, <1>5

-----------------------------------------------------------------------------
(* The child.                                                              *)

LEMMA NoneIsNoCode == None # 0
  BY TablesAssumption DEF Isolation!TablesAssumption

\* The parent believes nothing of a child that runs.
LEMMA CopyWaits ==
    ASSUME CopyIsTrue, child # "ended", UNCHANGED <<copy, outcome>>
    PROVE  CopyIsTrue'
  BY DEF CopyIsTrue

\* However the work of the child ends, what it leaves is true.
LEMMA LeavingKeeps ==
    ASSUME CaptureInv, Isolation!Running, child # "ending", NEW length \in 0..3, NEW what,
           Isolation!Leaves(length, what), read' \in Nat,
           length \in {2, 3} => Beyond(what)',
           UNCHANGED <<table, now, slack, exitcode, ofParent>>
    PROVE  CaptureInv'
<1> USE DEF CaptureInv, Isolation!Leaves, Isolation!Running, ofParent
<1>1. child' = "ending" /\ child \notin {"none", "ended"} /\ connected' = FALSE
  BY DEF Isolation!Closed
<1>2. told'.length = length /\ told'.told = what
      /\ told' = [length |-> told'.length, payload |-> told'.payload, told |-> told'.told]
  BY DEF LeftIsTrue
<1>3. ChildKnows'
  BY <1>1 DEF ChildKnows
<1>4. LeftIsTrue'
  BY <1>1, <1>2 DEF LeftIsTrue
<1>5. CopyIsTrue'
  BY <1>1, CopyWaits
<1>6. Ended'
  BY <1>1 DEF Ended, Isolation!NothingRunsOn
<1>7. OnTime'
  BY DEF OnTime
<1> QED BY <1>3, <1>4, <1>5, <1>6, <1>7

\* As long as it goes on, it has left nothing.
LEMMA GoingOnKeeps ==
    ASSUME CaptureInv, Isolation!Running, child \notin {"ending", "publish"},
           child' \in {"find", "open", "fetch", "copy"},
           ChildKnows', child' = "copy" => ~connected',
           UNCHANGED <<told, now, slack, exitcode, ofParent>>
    PROVE  CaptureInv'
<1> USE DEF CaptureInv, Isolation!Running, ofParent
<1>1. told.length = 0
  BY DEF LeftIsTrue
<1>2. LeftIsTrue'
  BY <1>1 DEF LeftIsTrue
<1>3. CopyIsTrue'
  BY CopyWaits
<1>4. Ended'
  <2>1. exitcode # 0
    BY NoneIsNoCode DEF Ended
  <2> QED BY <2>1 DEF Ended, Isolation!NothingRunsOn
<1>5. OnTime'
  BY DEF OnTime
<1> QED BY <1>2, <1>3, <1>4, <1>5

Others == UNCHANGED <<table, now, slack, ofParent>>

LEMMA BootKeeps == ASSUME CaptureInv, Isolation!Boot, Others PROVE CaptureInv'
<1>1. Isolation!Running /\ child # "ending" /\ read' \in Nat
  BY DEF Isolation!Boot, Isolation!Running, CaptureInv, ChildKnows
<1>2. CASE Isolation!Returns
  BY <1>1, <1>2, LeavingKeeps DEF Isolation!Boot, Isolation!Returns, Others
<1>3. CASE child' = "find" /\ UNCHANGED <<told, connected>>
  <2>1. ChildKnows'
    BY <1>3 DEF Isolation!Boot, CaptureInv, ChildKnows, Others, ofParent
  <2> QED BY <1>1, <1>3, <2>1, GoingOnKeeps DEF Isolation!Boot, Others
<1> QED BY <1>2, <1>3 DEF Isolation!Boot

LEMMA FindKeeps ==
    ASSUME CaptureInv, Isolation!FindInPostgres \/ Isolation!FindInTrino, Others PROVE CaptureInv'
<1>1. child = "find" /\ UNCHANGED <<exitcode, taken, read>>
      /\ (Isolation!Fails \/ Isolation!Returns
          \/ /\ child' = "open" /\ found' = table.columns /\ Isolation!Authorized(table.columns)
             /\ UNCHANGED <<told, connected>>)
  BY DEF Isolation!FindInPostgres, Isolation!FindInTrino, Isolation!Finds
<1>2. Isolation!Running /\ child # "ending" /\ read' \in Nat
  BY <1>1 DEF Isolation!Running, CaptureInv, ChildKnows
<1>3. CASE Isolation!Fails \/ Isolation!Returns
  BY <1>1, <1>2, <1>3, LeavingKeeps DEF Isolation!Fails, Isolation!Returns, Others
<1>4. CASE /\ child' = "open" /\ found' = table.columns /\ Isolation!Authorized(table.columns)
           /\ UNCHANGED <<told, connected>>
  <2>1. ChildKnows'
    BY <1>1, <1>4 DEF CaptureInv, ChildKnows, Others, ofParent, Isolation!Authorized
  <2> QED BY <1>1, <1>2, <1>4, <2>1, GoingOnKeeps DEF Others
<1> QED BY <1>1, <1>3, <1>4

LEMMA OpenKeeps == ASSUME CaptureInv, Isolation!Open, Others PROVE CaptureInv'
<1>1. Isolation!Running /\ child = "open" /\ read = 0 /\ read' = 0 /\ UNCHANGED <<exitcode, found>>
  BY DEF Isolation!Open, Isolation!Running, CaptureInv, ChildKnows
<1>2. CASE Isolation!Fails
  BY <1>1, <1>2, LeavingKeeps DEF Isolation!Fails, Others
<1>3. CASE taken' = table.rows /\ child' = "fetch" /\ UNCHANGED told
  <2>1. taken' \in Seq(Isolation!Values)
    BY <1>3, TablesAssumption DEF Isolation!TablesAssumption, CaptureInv, ChildKnows
  <2>2. Isolation!Selected' \in Seq(Isolation!Values)
    BY <2>1, LimitedRows DEF Isolation!Selected
  <2>3. CaptureRows \in Nat
    BY LimitsAssumption DEF Isolation!LimitsAssumption
  <2>4. ChildKnows'
    BY <1>1, <1>3, <2>1, <2>2, <2>3 DEF CaptureInv, ChildKnows, Others, ofParent, Isolation!Authorized
  <2> QED BY <1>1, <1>3, <2>4, GoingOnKeeps DEF Others
<1> QED BY <1>1, <1>2, <1>3 DEF Isolation!Open
\* Rows that are looked at one after the other were all plain so far.
FetchedSoFar ==
    /\ read < Len(Isolation!Selected) /\ read' = read + 1
    /\ Isolation!Selected[read'] \in Plain /\ Isolation!Batches

LEMMA BatchesKeep ==
    ASSUME CaptureInv, child = "fetch", FetchedSoFar, UNCHANGED <<exitcode, found, taken>>, Others
    PROVE  CaptureInv'
<1>1. Isolation!Running /\ child # "ending" /\ read \in Nat /\ read' \in Nat
  BY DEF Isolation!Running, CaptureInv, ChildKnows, FetchedSoFar
<1>2. taken \in Seq(Isolation!Values) /\ Isolation!Selected = Isolation!Limited(taken)
  BY DEF CaptureInv, ChildKnows, Isolation!Selected
<1>3. Isolation!Selected' = Isolation!Selected /\ Len(Isolation!Selected) \in Nat
  BY <1>2, LimitedRows DEF Isolation!Selected
<1>4. CASE Isolation!Fails
  BY <1>1, <1>4, LeavingKeeps DEF Isolation!Fails, Others
<1>5. CASE read' > CaptureRows /\ Isolation!Gives("rows")
  <2>1. CaptureRows \in Nat
    BY LimitsAssumption DEF Isolation!LimitsAssumption
  <2>2. Len(taken) > CaptureRows
    BY <1>1, <1>2, <1>3, <1>5, <2>1, LimitedRows DEF FetchedSoFar
  <2>3. Beyond("rows")'
    BY <1>2, <2>2 DEF Beyond, Isolation!Exceeds
  <2>4. Isolation!Leaves(2, "rows")
    BY <1>5 DEF Isolation!Gives
  <2> QED BY <1>1, <2>3, <2>4, LeavingKeeps DEF Others
<1>6. CASE /\ ~(Isolation!BatchIsFull /\ read' > CaptureRows)
           /\ UNCHANGED <<child, told, connected>>
  <2>1. read' = Len(Isolation!Selected) => read' <= CaptureRows
    <3>1. read' = Len(Isolation!Selected) => Isolation!BatchIsFull
      BY DEF Isolation!BatchIsFull
    <3>2. CaptureRows \in Nat
      BY LimitsAssumption DEF Isolation!LimitsAssumption
    <3> QED BY <1>1, <1>6, <3>1, <3>2
  <2>2. \A i \in 1..read' : Isolation!Selected[i] \in Plain
    <3>1. \A i \in 1..read : Isolation!Selected[i] \in Plain
      BY DEF CaptureInv, ChildKnows
    <3> QED BY <1>1, <3>1 DEF FetchedSoFar
  <2>3. read' <= Len(Isolation!Selected)
    BY <1>1, <1>3 DEF FetchedSoFar
  <2>4. ChildKnows'
    BY <1>1, <1>2, <1>3, <1>6, <2>1, <2>2, <2>3
    DEF CaptureInv, ChildKnows, Others, ofParent, Isolation!Authorized
  <2> QED BY <1>1, <1>6, <2>4, GoingOnKeeps DEF Others
<1> QED BY <1>4, <1>5, <1>6 DEF FetchedSoFar, Isolation!Batches

LEMMA FetchKeeps ==
    ASSUME CaptureInv, Isolation!FetchFromPostgres \/ Isolation!FetchFromTrino, Others PROVE CaptureInv'
<1> DEFINE row == Isolation!Selected[read']
<1>1. /\ child = "fetch" /\ read < Len(Isolation!Selected) /\ read' = read + 1
      /\ UNCHANGED <<exitcode, found, taken>>
  BY DEF Isolation!FetchFromPostgres, Isolation!FetchFromTrino, Isolation!NextRow
<1>2. Isolation!Running /\ read \in Nat /\ read' \in Nat
  BY <1>1 DEF Isolation!Running, CaptureInv, ChildKnows
<1>3. taken \in Seq(Isolation!Values) /\ Isolation!Selected = Isolation!Limited(taken)
  BY <1>1 DEF CaptureInv, ChildKnows, Isolation!Selected
<1>4. /\ Len(Isolation!Selected) \in Nat /\ Len(taken) \in Nat /\ Len(Isolation!Selected) <= Len(taken)
      /\ read' \in 1..Len(Isolation!Selected) /\ read' \in DOMAIN taken
      /\ row = taken[read'] /\ row \in Isolation!Values
  <2>1. Len(Isolation!Selected) \in Nat /\ Len(taken) \in Nat /\ Len(Isolation!Selected) <= Len(taken)
    BY <1>3, LimitedRows
  <2>2. read' \in 1..Len(Isolation!Selected) /\ read' \in DOMAIN taken
    BY <1>1, <1>2, <1>3, <2>1
  <2> QED BY <1>3, <2>1, <2>2, LimitedRows
<1>5. CASE Isolation!Fails
  BY <1>1, <1>2, <1>5, LeavingKeeps DEF Isolation!Fails, Others
<1>6. CASE row = "long" /\ Isolation!Gives("cell")
  <2>1. Beyond("cell")'
    BY <1>1, <1>3, <1>4, <1>6 DEF Beyond, Isolation!Exceeds
  <2>2. Isolation!Leaves(2, "cell")
    BY <1>6 DEF Isolation!Gives
  <2> QED BY <1>1, <1>2, <2>1, <2>2, LeavingKeeps DEF Others
<1>7. CASE /\ Isolation!Bytes(SubSeq(Isolation!Selected, 1, read')) > CaptureBytes
           /\ Isolation!Gives("work")
  <2>1. SubSeq(Isolation!Selected, 1, read') = SubSeq(taken, 1, read')
    BY <1>1, <1>2, <1>3, <1>4, LimitedRows
  <2>2. Isolation!Bytes(taken) > CaptureBytes
    <3>1. CaptureBytes \in Nat
      BY LimitsAssumption DEF Isolation!LimitsAssumption
    <3>2. read' \in 0..Len(taken)
      BY <1>4
    <3> DEFINE n == read'
    <3>3. n \in 0..Len(taken)
      BY <3>2
    <3> HIDE DEF n
    <3>4. /\ Isolation!Bytes(taken) \in Nat /\ Isolation!Bytes(SubSeq(taken, 1, n)) \in Nat
          /\ Isolation!Bytes(SubSeq(taken, 1, n)) <= Isolation!Bytes(taken)
      BY <1>3, <3>3, PartsAreSmaller
    <3>5. Isolation!Bytes(SubSeq(taken, 1, n)) > CaptureBytes
      BY <1>7, <2>1 DEF n
    <3> QED BY <3>1, <3>4, <3>5
  <2>3. Beyond("work")'
    BY <1>1, <1>3, <2>2 DEF Beyond, Isolation!Exceeds, Isolation!Bytes
  <2>4. Isolation!Leaves(3, "work")
    BY <1>7 DEF Isolation!Gives
  <2> QED BY <1>1, <1>2, <2>3, <2>4, LeavingKeeps DEF Others
<1>8. CASE row # "long" /\ Isolation!Native(row) /\ Isolation!Batches
  <2>1. row \in Plain
    BY <1>4, <1>8 DEF Isolation!Native, Isolation!Values, Plain
  <2> QED BY <1>1, <1>8, <2>1, BatchesKeep DEF FetchedSoFar
<1> HIDE DEF row
<1>9. \/ Isolation!Fails
      \/ row = "long" /\ Isolation!Gives("cell")
      \/ Isolation!Bytes(SubSeq(Isolation!Selected, 1, read')) > CaptureBytes /\ Isolation!Gives("work")
      \/ row # "long" /\ Isolation!Native(row) /\ Isolation!Batches
  BY DEF Isolation!FetchFromPostgres, Isolation!FetchFromTrino, row
<1> QED BY <1>5, <1>6, <1>7, <1>8, <1>9

LEMMA EncodeKeeps == ASSUME CaptureInv, Isolation!Encode, Others PROVE CaptureInv'
<1>1. /\ child = "fetch" /\ read = Len(Isolation!Selected) /\ UNCHANGED <<exitcode, found, taken, read>>
      /\ Isolation!Running /\ read' \in Nat
  BY DEF Isolation!Encode, Isolation!Running, CaptureInv, ChildKnows
<1>2. /\ taken \in Seq(Isolation!Values) /\ Isolation!Selected = Isolation!Limited(taken)
      /\ read <= CaptureRows /\ Isolation!Authorized(found)
      /\ \A i \in 1..read : Isolation!Selected[i] \in Plain
  BY <1>1 DEF CaptureInv, ChildKnows, Isolation!Selected
<1>3. Isolation!Selected = taken
  BY <1>1, <1>2, LimitedRows
<1>4. Isolation!Bytes(taken) \in Nat /\ CaptureBytes \in Nat
  <2>1. 0 \in 0..Len(taken)
    BY <1>2
  <2> QED BY <1>2, <2>1, PartsAreSmaller, LimitsAssumption DEF Isolation!LimitsAssumption
<1>5. CASE Isolation!Fails \/ Isolation!Returns
  BY <1>1, <1>5, LeavingKeeps DEF Isolation!Fails, Isolation!Returns, Others
<1>6. CASE Isolation!Bytes(Isolation!Selected) > CaptureBytes /\ Isolation!Gives("bytes")
  <2>1. Beyond("bytes")'
    BY <1>1, <1>2, <1>3, <1>6 DEF Beyond, Isolation!Exceeds, Isolation!Bytes
  <2>2. Isolation!Leaves(2, "bytes")
    BY <1>6 DEF Isolation!Gives
  <2> QED BY <1>1, <2>1, <2>2, LeavingKeeps DEF Others
<1>7. CASE /\ ~(Isolation!Bytes(Isolation!Selected) > CaptureBytes)
           /\ child' = "copy" /\ connected' = FALSE /\ UNCHANGED told
  <2>1. Whole
    BY <1>1, <1>2, <1>3, <1>4, <1>7 DEF Whole
  <2>2. Whole'
    BY <1>1, <2>1 DEF Whole, Isolation!Authorized, Isolation!Bytes
  <2>3. ChildKnows'
    BY <1>1, <1>7, <2>2 DEF CaptureInv, ChildKnows, Others, ofParent
  <2> QED BY <1>1, <1>7, <2>3, GoingOnKeeps DEF Others
<1> QED BY <1>5, <1>6, <1>7 DEF Isolation!Encode

\* What is captured is whole by now; it is copied, and then said to be there.
LEMMA CopyKeeps == ASSUME CaptureInv, Isolation!Copy, Others PROVE CaptureInv'
<1> USE DEF CaptureInv, Others, ofParent
<1>1. /\ child = "copy" /\ child' = "publish" /\ UNCHANGED <<exitcode, found, taken, read, connected>>
      /\ told' = [told EXCEPT !.payload = [columns |-> found, rows |-> Isolation!Selected]]
  BY DEF Isolation!Copy
<1>2. Whole
  BY <1>1 DEF ChildKnows
<1>3. Isolation!Selected = taken
  <2>1. taken \in Seq(Isolation!Values) /\ Len(taken) <= CaptureRows
    BY <1>2 DEF Whole
  <2>2. Len(Isolation!Limited(taken)) <= CaptureRows
    <3>1. Isolation!Limited(taken) \in Seq(Isolation!Values) /\ Len(Isolation!Limited(taken)) <= Len(taken)
      BY <2>1, LimitedRows
    <3>2. CaptureRows \in Nat
      BY LimitsAssumption DEF Isolation!LimitsAssumption
    <3> QED BY <2>1, <3>1, <3>2
  <2> QED BY <2>1, <2>2, LimitedRows DEF Isolation!Selected
<1>4. Whole'
  BY <1>1, <1>2 DEF Whole, Isolation!Authorized, Isolation!Bytes
<1>5. ChildKnows'
  BY <1>1, <1>4 DEF ChildKnows
<1>6. LeftIsTrue'
  <2>1. told.length = 0
    BY <1>1 DEF LeftIsTrue
  <2>2. told'.length = 0 /\ told'.payload = Table'
        /\ told' = [length |-> told'.length, payload |-> told'.payload, told |-> told'.told]
    BY <1>1, <1>3, <2>1 DEF LeftIsTrue, Table
  <2> QED BY <1>1, <1>4, <2>2 DEF LeftIsTrue
<1>7. CopyIsTrue'
  BY <1>1, CopyWaits
<1>8. Ended'
  BY <1>1, NoneIsNoCode DEF Ended, Isolation!NothingRunsOn, Isolation!Running
<1>9. OnTime'
  BY DEF OnTime
<1> QED BY <1>5, <1>6, <1>7, <1>8, <1>9

LEMMA TablePublishKeeps == ASSUME CaptureInv, Isolation!Publish, Others PROVE CaptureInv'
<1> USE DEF CaptureInv, Others, ofParent
<1>1. /\ child = "publish" /\ child' = "ending" /\ UNCHANGED <<exitcode, found, taken, read, connected>>
      /\ told' = [told EXCEPT !.length = 4]
  BY DEF Isolation!Publish
<1>2. Whole /\ told.payload = Table
  BY <1>1 DEF LeftIsTrue
<1>3. Whole'
  BY <1>1, <1>2 DEF Whole, Isolation!Authorized, Isolation!Bytes
<1>4. ChildKnows'
  BY <1>1 DEF ChildKnows
<1>5. LeftIsTrue'
  <2>1. told'.length = 4 /\ told'.payload = Table'
        /\ told' = [length |-> told'.length, payload |-> told'.payload, told |-> told'.told]
    BY <1>1, <1>2 DEF LeftIsTrue, Table
  <2> QED BY <1>1, <1>3, <2>1 DEF LeftIsTrue
<1>6. CopyIsTrue'
  BY <1>1, CopyWaits
<1>7. Ended'
  BY <1>1, NoneIsNoCode DEF Ended, Isolation!NothingRunsOn, Isolation!Running
<1>8. OnTime'
  BY DEF OnTime
<1> QED BY <1>4, <1>5, <1>6, <1>7, <1>8

\* What was taken, and what is said of it, stay as they are.
SameRows == UNCHANGED <<found, taken>>
LEMMA TruthStays ==
    ASSUME SameRows
    PROVE  /\ Whole => Whole'
           /\ Table' = Table
           /\ \A what : Beyond(what) => Beyond(what)'
  BY DEF SameRows, Whole, Table, Beyond, Isolation!Exceeds, Isolation!Authorized, Isolation!Bytes

\* A child that ends by itself leaves no connection; one that crashed is not
\* believed.
LEMMA EndKeeps == ASSUME CaptureInv, Isolation!Exit \/ Isolation!Crash, Others PROVE CaptureInv'
<1> USE DEF CaptureInv, Others, ofParent
<1>1. /\ child \notin {"none", "ended"} /\ child' = "ended" /\ UNCHANGED <<found, taken, read, connected, told>>
      /\ exitcode' \in {0, 1} /\ (exitcode' = 0 => child = "ending")
  BY DEF Isolation!Exit, Isolation!Crash, Isolation!Ends, Isolation!Running
<1>2. (Whole => Whole') /\ Table' = Table /\ \A what : Beyond(what) => Beyond(what)'
  BY <1>1, TruthStays DEF SameRows
<1>3. ChildKnows'
  BY <1>1 DEF ChildKnows
<1>4. LeftIsTrue'
  BY <1>1, <1>2 DEF LeftIsTrue
<1>5. CopyIsTrue'
  BY <1>1, CopyWaits
<1>6. Ended'
  BY <1>1 DEF Ended, Isolation!NothingRunsOn, Isolation!Running
<1>7. OnTime'
  BY DEF OnTime
<1> QED BY <1>3, <1>4, <1>5, <1>6, <1>7

LEMMA ChildKeeps == CaptureInv /\ Isolation!ChildStep => CaptureInv'
<1> SUFFICES ASSUME CaptureInv, Isolation!ChildStep PROVE CaptureInv'
  OBVIOUS
<1>1. Others
  BY DEF Isolation!ChildStep, Isolation!sources, Isolation!clock, Isolation!parents, Others, ofParent
<1> QED
  BY <1>1, BootKeeps, FindKeeps, OpenKeeps, FetchKeeps, EncodeKeeps, CopyKeeps, TablePublishKeeps, EndKeeps
  DEF Isolation!ChildStep

-----------------------------------------------------------------------------
(* The parent.                                                             *)

\* A step of the parent alone keeps what it knows if the step is in time.
LEMMA ParentMoves ==
    ASSUME CaptureInv, parent' # "start", parent # "start",
           UNCHANGED <<table, child, exitcode, found, taken, read, connected, told, now, slack>>,
           CopyIsTrue', until' \in Nat, until' <= CaptureDeadline + slack, parent # "done",
           parent' = "killing" => killed',
           parent' = "finish" /\ Isolation!Running => killed',
           Isolation!NothingRunsOn'
    PROVE  CaptureInv'
<1> USE DEF CaptureInv
<1>1. (Whole => Whole') /\ Table' = Table /\ \A what : Beyond(what) => Beyond(what)'
  BY TruthStays DEF SameRows
<1>2. ChildKnows'
  <2>1. Isolation!Selected' = Isolation!Selected
    BY DEF Isolation!Selected
  <2>2. Isolation!Authorized(found)' = Isolation!Authorized(found)
    BY DEF Isolation!Authorized
  <2> QED BY <1>1, <2>1, <2>2 DEF ChildKnows
<1>3. LeftIsTrue'
  BY <1>1 DEF LeftIsTrue
<1>4. Ended'
  BY DEF Ended, Isolation!Running
<1>5. OnTime'
  BY DEF OnTime
<1> QED BY <1>2, <1>3, <1>4, <1>5

\* What the parent copies is what the child left.
LEMMA CopiesStay ==
    ASSUME CopyIsTrue, UNCHANGED <<child, found, taken>>,
           copy' = copy \/ copy' = None \/ (child = "ended" /\ ResultOf(copy')),
           \/ outcome' = outcome
           \/ outcome' = copy
           \/ outcome'.kind \in {"invalid", "unreaped"}
    PROVE  CopyIsTrue'
<1>1. (Whole => Whole') /\ Table' = Table /\ \A what : Beyond(what) => Beyond(what)'
  BY TruthStays DEF SameRows
<1>2. \A c : ResultOf(c) => ResultOf(c)'
  BY <1>1 DEF ResultOf
<1>3. copy' # None => child = "ended" /\ ResultOf(copy')
  BY DEF CopyIsTrue
<1>4. outcome' # None => outcome'.kind \in {"invalid", "unreaped"} \/ (child = "ended" /\ ResultOf(outcome'))
  BY DEF CopyIsTrue
<1> QED BY <1>2, <1>3, <1>4 DEF CopyIsTrue, ResultOf

ParentOnly == UNCHANGED <<table, child, exitcode, found, taken, read, connected, told, now, slack>>

LEMMA StartKeeps ==
    ASSUME CaptureInv, Isolation!Start, UNCHANGED <<table, now, slack>> PROVE CaptureInv'
<1> USE DEF CaptureInv
<1>1. /\ parent = "start" /\ parent' = "joining" /\ child = "none" /\ child' = "boot"
      /\ UNCHANGED <<exitcode, found, taken, read, connected, told, until, copy, killed, outcome>>
  BY DEF Isolation!Start, ChildKnows
<1>2. ChildKnows'
  BY <1>1 DEF ChildKnows
<1>3. LeftIsTrue'
  BY <1>1 DEF LeftIsTrue
<1>4. CopyIsTrue'
  BY <1>1, CopyWaits
<1>5. Ended'
  BY <1>1, NoneIsNoCode DEF Ended, Isolation!NothingRunsOn
<1>6. OnTime'
  BY <1>1 DEF OnTime
<1> QED BY <1>2, <1>3, <1>4, <1>5, <1>6

\* What is looked for is there, and was left by a child that ended by itself.
LEMMA LookKeeps ==
    ASSUME CaptureInv, ParentOnly,
           \/ Isolation!Join \/ Isolation!LookForPayload \/ Isolation!Copied
           \/ Isolation!LookForLimit("limit", 2, "work") \/ Isolation!LookForLimit("work", 3, "cleanup")
    PROVE  CaptureInv'
<1> USE DEF ParentOnly
<1>1. /\ parent \in {"joining", "payload", "copying", "limit", "work"}
      /\ parent' \in {"payload", "copying", "limit", "work", "cleanup"}
      /\ UNCHANGED <<until, killed, outcome>>
      /\ \/ copy' = copy \/ copy' = None
         \/ Isolation!Clean(4) /\ copy' = [kind |-> "captured", of |-> told.payload]
         \/ (Isolation!Clean(2) \/ Isolation!Clean(3)) /\ copy' = [kind |-> "limit", of |-> told.told]
  BY DEF Isolation!Join, Isolation!LookForPayload, Isolation!Copied, Isolation!LookForLimit
<1>2. ASSUME Isolation!Clean(4) PROVE ResultOf([kind |-> "captured", of |-> told.payload])
  BY <1>2 DEF CaptureInv, LeftIsTrue, Isolation!Clean, ResultOf
<1>3. ASSUME Isolation!Clean(2) \/ Isolation!Clean(3) PROVE ResultOf([kind |-> "limit", of |-> told.told])
  BY <1>3 DEF CaptureInv, LeftIsTrue, Isolation!Clean, ResultOf
<1>4. copy' = copy \/ copy' = None \/ (child = "ended" /\ ResultOf(copy'))
  BY <1>1, <1>2, <1>3 DEF Isolation!Clean
<1>5. CopyIsTrue'
  BY <1>1, <1>4, CopiesStay DEF CaptureInv
<1>6. Isolation!NothingRunsOn'
  BY <1>1 DEF Isolation!NothingRunsOn
<1>7. until' \in Nat /\ until' <= CaptureDeadline + slack
  BY <1>1 DEF CaptureInv, OnTime
<1> QED BY <1>1, <1>5, <1>6, <1>7, ParentMoves

\* The child is ended in the time that is left.
LEMMA CleanupKeeps ==
    ASSUME CaptureInv, ParentOnly, Isolation!Cleanup \/ Isolation!Kill \/ Isolation!Reap PROVE CaptureInv'
<1> USE DEF ParentOnly
<1>1. CaptureDeadline \in Nat /\ now \in Nat /\ slack \in Nat /\ until \in Nat
      /\ until <= CaptureDeadline + slack
  BY DeadlineAssumption DEF Isolation!DeadlineAssumption, CaptureInv, OnTime
<1>2. /\ parent \in {"cleanup", "terminating", "killing"}
      /\ parent' \in {"terminating", "killing", "finish"}
      /\ UNCHANGED <<copy, outcome>>
      /\ parent' = "killing" => killed'
      /\ parent' = "finish" /\ Isolation!Running => killed'
  BY DEF Isolation!Cleanup, Isolation!Kill, Isolation!Reap, Isolation!Killable, CaptureInv, Ended
<1>3. CopyIsTrue'
  BY <1>2, CopiesStay DEF CaptureInv
<1>4. Isolation!NothingRunsOn'
  BY <1>2 DEF Isolation!NothingRunsOn
<1>5. Isolation!HalfOfTheRest \in Nat /\ Isolation!HalfOfTheRest <= CaptureDeadline + slack
  <2>1. parent # "done" => now <= CaptureDeadline + slack
    BY DEF CaptureInv, OnTime
  <2> QED BY <1>1, <1>2, <2>1 DEF Isolation!HalfOfTheRest
<1>6. until' \in Nat /\ until' <= CaptureDeadline + slack
  BY <1>1, <1>5 DEF Isolation!Cleanup, Isolation!Kill, Isolation!Reap, Isolation!TheRest
<1> QED BY <1>2, <1>3, <1>4, <1>6, ParentMoves

LEMMA FinishKeeps == ASSUME CaptureInv, ParentOnly, Isolation!Finish PROVE CaptureInv'
<1> USE DEF ParentOnly
<1>1. /\ parent = "finish" /\ parent' = "done" /\ UNCHANGED <<until, copy, killed>>
      /\ \/ Isolation!Running /\ outcome' = Isolation!Without("unreaped")
         \/ ~Isolation!Running /\ outcome' = Isolation!Without("invalid")
         \/ ~Isolation!Running /\ copy # None /\ outcome' = copy
  BY DEF Isolation!Finish
<1>2. Isolation!Without("unreaped").kind = "unreaped" /\ Isolation!Without("invalid").kind = "invalid"
  BY DEF Isolation!Without
<1>3. CopyIsTrue'
  BY <1>1, <1>2, CopiesStay DEF CaptureInv
<1>4. Isolation!NothingRunsOn'
  <2>1. copy # None => copy.kind # "unreaped"
    BY DEF CaptureInv, CopyIsTrue, ResultOf
  <2>2. Isolation!Running' = Isolation!Running
    BY DEF Isolation!Running
  <2>3. Isolation!Running => killed
    BY <1>1 DEF CaptureInv, Ended
  <2> QED BY <1>1, <1>2, <2>1, <2>2, <2>3 DEF Isolation!NothingRunsOn
<1>5. until' \in Nat /\ until' <= CaptureDeadline + slack
  BY <1>1 DEF CaptureInv, OnTime
<1> QED BY <1>1, <1>3, <1>4, <1>5, ParentMoves

LEMMA ParentKeeps == CaptureInv /\ Isolation!ParentStep => CaptureInv'
<1> SUFFICES ASSUME CaptureInv, Isolation!ParentStep PROVE CaptureInv'
  OBVIOUS
<1>1. UNCHANGED <<table, now, slack>>
  BY DEF Isolation!ParentStep, Isolation!sources, Isolation!clock
<1>2. CASE Isolation!Start
  BY <1>1, <1>2, StartKeeps
<1>3. CASE ~Isolation!Start
  <2>1. ParentOnly
    BY <1>1, <1>3 DEF Isolation!ParentStep, Isolation!childs, ParentOnly
  <2> QED BY <1>3, <2>1, LookKeeps, CleanupKeeps, FinishKeeps DEF Isolation!ParentStep
<1> QED BY <1>2, <1>3

-----------------------------------------------------------------------------
(* The clock and the source.                                               *)

LEMMA TickKeeps == CaptureInv /\ Isolation!Tick => CaptureInv'
<1> SUFFICES ASSUME CaptureInv, Isolation!Tick PROVE CaptureInv'
  OBVIOUS
<1> USE DEF CaptureInv
<1>1. UNCHANGED <<table, child, exitcode, found, taken, read, connected, told, ofParent>>
  BY DEF Isolation!Tick, Isolation!sources, Isolation!childs, Isolation!parents, ofParent
<1>2. (Whole => Whole') /\ Table' = Table /\ \A what : Beyond(what) => Beyond(what)'
  BY <1>1, TruthStays DEF SameRows
<1>3. ChildKnows'
  <2>1. Isolation!Selected' = Isolation!Selected
    BY <1>1 DEF Isolation!Selected
  <2>2. Isolation!Authorized(found)' = Isolation!Authorized(found)
    BY <1>1 DEF Isolation!Authorized
  <2> QED BY <1>1, <1>2, <2>1, <2>2 DEF ChildKnows, ofParent
<1>4. LeftIsTrue'
  BY <1>1, <1>2 DEF LeftIsTrue
<1>5. CopyIsTrue'
  BY <1>1, CopiesStay DEF ofParent
<1>6. Ended'
  BY <1>1 DEF Ended, Isolation!NothingRunsOn, Isolation!Running, ofParent
<1>7. OnTime'
  <2>1. /\ now' = now + 1
        /\ \/ slack' = slack /\ now < until
           \/ slack' = slack + 1
    BY DEF Isolation!Tick, Isolation!Waiting
  <2>2. CaptureDeadline \in Nat
    BY DeadlineAssumption DEF Isolation!DeadlineAssumption
  <2>3. until' = until /\ parent' = parent
    BY <1>1 DEF ofParent
  <2> QED BY <2>1, <2>2, <2>3 DEF OnTime
<1> QED BY <1>3, <1>4, <1>5, <1>6, <1>7

\* The table matters no more once its rows were taken.
LEMMA AlterKeeps == CaptureInv /\ Isolation!Alter => CaptureInv'
<1> SUFFICES ASSUME CaptureInv, Isolation!Alter PROVE CaptureInv'
  OBVIOUS
<1> USE DEF CaptureInv
<1>1. /\ table' \in CaptureTables
      /\ UNCHANGED <<child, exitcode, found, taken, read, connected, told, now, slack, ofParent>>
  BY DEF Isolation!Alter, Isolation!clock, Isolation!childs, Isolation!parents, ofParent
<1>2. (Whole => Whole') /\ Table' = Table /\ \A what : Beyond(what) => Beyond(what)'
  BY <1>1, TruthStays DEF SameRows
<1>3. ChildKnows'
  <2>1. Isolation!Selected' = Isolation!Selected
    BY <1>1 DEF Isolation!Selected
  <2>2. Isolation!Authorized(found)' = Isolation!Authorized(found)
    BY <1>1 DEF Isolation!Authorized
  <2> QED BY <1>1, <1>2, <2>1, <2>2 DEF ChildKnows, ofParent
<1>4. LeftIsTrue'
  BY <1>1, <1>2 DEF LeftIsTrue
<1>5. CopyIsTrue'
  BY <1>1, CopiesStay DEF ofParent
<1>6. Ended'
  BY <1>1 DEF Ended, Isolation!NothingRunsOn, Isolation!Running, ofParent
<1>7. OnTime'
  BY <1>1 DEF OnTime, ofParent
<1> QED BY <1>3, <1>4, <1>5, <1>6, <1>7

-----------------------------------------------------------------------------
(* Every capture.                                                          *)

CapturesHold == which = "capture" => CaptureInv

LEMMA CaptureInitHolds == TransformationInit => CapturesHold
<1> SUFFICES ASSUME Isolation!Init PROVE CaptureInv
  BY DEF TransformationInit, CapturesHold
<1>1. ChildKnows
  BY DEF Isolation!Init, ChildKnows
<1>2. LeftIsTrue
  BY DEF Isolation!Init, Isolation!Nothing, LeftIsTrue
<1>3. CopyIsTrue
  BY DEF Isolation!Init, CopyIsTrue
<1>4. Ended
  BY NoneIsNoCode DEF Isolation!Init, Ended, Isolation!NothingRunsOn, Isolation!Running
<1>5. OnTime
  BY DeadlineAssumption
  DEF Isolation!Init, Isolation!DeadlineAssumption, Isolation!WorkDeadline, Isolation!Least, OnTime
<1> QED BY <1>1, <1>2, <1>3, <1>4, <1>5 DEF CaptureInv

LEMMA StepHolds == CapturesHold /\ [TransformationNext]_all => CapturesHold'
<1> SUFFICES ASSUME CapturesHold, [TransformationNext]_all, which' = "capture" PROVE CaptureInv'
  BY DEF CapturesHold
<1>1. which = "capture"
  BY DEF TransformationNext, all
<1>2. CaptureInv
  BY <1>1 DEF CapturesHold
<1>3. CASE Isolation!Next
  BY <1>2, <1>3, ChildKeeps, ParentKeeps, TickKeeps, AlterKeeps DEF Isolation!Next
<1>4. CASE UNCHANGED all
  <2>1. UNCHANGED <<table, child, exitcode, found, taken, read, connected, told, now, slack, ofParent>>
    BY <1>4 DEF all, ofCapture, ofParent
  <2>2. (Whole => Whole') /\ Table' = Table /\ \A what : Beyond(what) => Beyond(what)'
    BY <2>1, TruthStays DEF SameRows
  <2>3. Isolation!Selected' = Isolation!Selected /\ Isolation!Authorized(found)' = Isolation!Authorized(found)
    BY <2>1 DEF Isolation!Selected, Isolation!Authorized
  <2>4. CopyIsTrue'
    BY <1>2, <2>1, CopiesStay DEF ofParent, CaptureInv
  <2>5. (ChildKnows /\ LeftIsTrue)'
    BY <1>2, <2>1, <2>2, <2>3 DEF CaptureInv, ChildKnows, LeftIsTrue, ofParent
  <2>6. (Ended /\ OnTime)'
    BY <1>2, <2>1 DEF CaptureInv, Ended, OnTime, ofParent, Isolation!NothingRunsOn, Isolation!Running
  <2> QED BY <2>4, <2>5, <2>6 DEF CaptureInv
<1> QED BY <1>1, <1>3, <1>4 DEF TransformationNext

\* Isolated captures (io/transformation_sql_isolation.py): what is captured
\* is all that the statement selects, as it was at one time, never the part that
\* fits, with the columns that it was found to have; and a limit is told of only
\* if that much was there, whatever was left in shared memory by a child that
\* crashed, or ended after the parent had looked.
THEOREM CapturesAreWhole == TransformationSpec => []CaptureIsWhole
<1>1. CapturesHold => CaptureIsWhole
  <2> SUFFICES ASSUME CaptureInv, outcome # None PROVE Isolation!CaptureIsWhole
    BY DEF CapturesHold, CaptureIsWhole, Isolation!CaptureIsWhole
  <2>1. outcome.kind \in {"captured", "limit"} => ResultOf(outcome)
    BY DEF CaptureInv, CopyIsTrue
  <2>2. outcome.kind = "limit" => Isolation!Exceeds(outcome.of)
    BY <2>1 DEF ResultOf, Beyond
  <2>3. outcome.kind = "captured" => Whole /\ outcome.of = Table
    BY <2>1 DEF ResultOf
  <2> QED BY <2>2, <2>3 DEF Isolation!CaptureIsWhole, Whole, Table, Plain
<1> QED BY <1>1, CaptureInitHolds, StepHolds, PTL DEF TransformationSpec

\* The waits of the parent (io/transformation_sql_isolation.py), whatever they
\* are for, end by its deadline; nothing runs after the call, unless the parent
\* tells of it, which it does only if it has tried the signal that is not
\* handled; and a child that ends by itself leaves no connection.
THEOREM CapturesEndInTime == TransformationSpec => []CapturesEnd
<1>1. CapturesHold => CapturesEnd
  BY DEF CapturesHold, CaptureInv, Ended, OnTime, CapturesEnd, Isolation!NothingRunsOn, Isolation!ParentIsBounded,
         Isolation!ConnectionsAreClosed
<1> QED BY <1>1, CaptureInitHolds, StepHolds, PTL DEF TransformationSpec
=============================================================================

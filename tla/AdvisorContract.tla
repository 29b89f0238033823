--------------------------- MODULE AdvisorContract ---------------------------
(***************************************************************************)
(* What an advisor is told of a profile and a specification, and what it   *)
(* may answer.  Values of categories are replaced by labels, twice or      *)
(* three times on the way out; data that is only of local use is left out. *)
(* On the way back labels become values and the local data returns.        *)
(*                                                                         *)
(* A data set is [names, fields, constraints, allowed, settings, key] of   *)
(* one entity; a value is a sequence <<name>>, a label the sequence        *)
(* <<family, field, index, suffix>>.                                       *)
(***************************************************************************)
EXTENDS Naturals, FiniteSets, Sequences, SequencesExt, Functions

CONSTANTS
    SensitiveNames,     \* names of fields that tell
    SensitiveTypes,     \* semantic types that are sensitive, and told
    SecretValues,       \* values that look sensitive
    None

\* No label looks sensitive.
SecretsAssumption == \A v \in SecretValues : Len(v) # 4

CategoriesIn(d, f) == ToSet(d.fields[f].categories)
AllCategories(d) == UNION {CategoriesIn(d, f) : f \in DOMAIN d.fields}
LooksSensitive(f, field) == f \in SensitiveNames \/ field.semantic \in SensitiveTypes
Conditions(d) == {c \in ToSet(d.constraints) : c.on # None}

\* Values of categories, and those that conditions ask for.
AllValues(d) == AllCategories(d) \cup {c.equals : c \in Conditions(d)}

\* A data set names finitely many fields and lists their categories.
IsField(x) ==
    /\ x = [type |-> x.type, sensitive |-> x.sensitive, identifier |-> x.identifier, semantic |-> x.semantic,
            categories |-> x.categories, local |-> x.local]
    /\ x.categories \in Seq(ToSet(x.categories))
IsConstraint(k) ==
    k = [type |-> k.type, targets |-> k.targets, from |-> k.from, on |-> k.on, equals |-> k.equals, local |-> k.local]
IsDataset(d) ==
    /\ d = [names |-> d.names, fields |-> d.fields, constraints |-> d.constraints, allowed |-> d.allowed,
            key |-> d.key, settings |-> d.settings]
    /\ d.settings = [core |-> d.settings.core, locale |-> d.settings.locale]
    /\ DOMAIN d.fields = ToSet(d.names) /\ IsFiniteSet(DOMAIN d.fields)
    /\ d.fields = [f \in DOMAIN d.fields |-> d.fields[f]] /\ \A f \in DOMAIN d.fields : IsField(d.fields[f])
    /\ d.constraints \in Seq(ToSet(d.constraints)) /\ \A k \in ToSet(d.constraints) : IsConstraint(k)

-----------------------------------------------------------------------------
(* Values and labels.                                                      *)

IsLabel(v, families) == Len(v) = 4 /\ v[1] \in families

\* Mutant: labels are given without a look at what is taken.
LabelOfThePlace(family, f, i, taken) == <<family, f, i, 0>>

\* A label tells its place only; a suffix keeps it apart from what is taken.
Label(family, f, i, taken) ==
    LET free == {k \in 0..Cardinality(taken) : <<family, f, i, k>> \notin taken}
    IN  <<family, f, i, CHOOSE k \in free : \A j \in free : k <= j>>

\* The first place of a value in a list that has it.
First(s, v) == CHOOSE i \in DOMAIN s : s[i] = v /\ \A j \in DOMAIN s : s[j] = v => i <= j

\* Every value of a field gets a label, the profile's before the specification's.
Labelling(family, p, s, f, skip, taken) ==
    LET listed == p.fields[f].categories \o s.fields[f].categories
        values == ToSet(listed) \ skip
        before(v) == {w \in values : First(listed, w) < First(listed, v)}
    IN  [v \in values |-> Label(family, f, Cardinality(before(v)), taken)]

Mapped(map, f, v) == IF f \in DOMAIN map /\ v \in DOMAIN map[f] THEN map[f][v] ELSE v

Recategorised(field, f, map) ==
    [field EXCEPT !.categories = [i \in DOMAIN field.categories |-> Mapped(map, f, field.categories[i])]]

Reconditioned(k, map) == IF k.on = None THEN k ELSE [k EXCEPT !.equals = Mapped(map, k.on, k.equals)]

Replaced(d, map) ==
    [d EXCEPT !.fields = [f \in DOMAIN d.fields |-> Recategorised(d.fields[f], f, map)],
              !.constraints = [i \in DOMAIN d.constraints |-> Reconditioned(d.constraints[i], map)]]

\* Every condition is on a value that is replaced.
Represented(d, map) == \A c \in Conditions(d) : c.on \in DOMAIN map /\ c.equals \in DOMAIN map[c.on]

-----------------------------------------------------------------------------
(* A specification fits a profile.                                         *)

FitsProfile(p, s) ==
    /\ s.names = p.names
    /\ \A f \in DOMAIN s.fields :
        LET field == s.fields[f] IN
        /\ p.fields[f].sensitive \/ LooksSensitive(f, p.fields[f]) \/ LooksSensitive(f, field) => field.sensitive
        /\ p.fields[f].identifier => field.identifier
        /\ field.sensitive => field.categories = <<>>
        /\ ToSet(field.categories) \cap SecretValues = {}

-----------------------------------------------------------------------------
(* The request: a profile and a specification in labels.                   *)

\* Values are kept of fields that are allowed, and labels that are "kept".
Sanitizing(p, s, kept) ==
    LET taken == AllCategories(p) \cup AllCategories(s) \cup UNION Range(kept) IN
    [f \in DOMAIN p.fields |->
        LET found == IF f \in p.allowed \cup s.allowed
                     THEN [v \in CategoriesIn(p, f) \cup CategoriesIn(s, f) |-> v]
                     ELSE Labelling("a", p, s, f, kept[f], taken)
        IN  [v \in DOMAIN found \cup kept[f] |-> IF v \in kept[f] THEN v ELSE found[v]]]

NothingKept(p) == [f \in DOMAIN p.fields |-> {}]

Build(p, s, kept) ==
    LET map == Sanitizing(p, s, kept) IN
    IF FitsProfile(p, s) /\ Represented(p, map) /\ Represented(s, map)
    THEN [profile |-> Replaced(p, map), spec |-> Replaced(s, map)] ELSE None

\* Labels of the profile's values, where they still are in their places.
Placed(p, q, f) ==
    {i \in DOMAIN p.fields[f].categories \cap DOMAIN q.profile.fields[f].categories :
        LET label == q.profile.fields[f].categories[i] IN
        IsLabel(label, {"a"}) /\ label[2] = f /\ label[3] = i - 1}

\* Mutant: labels of values that only the specification has are labelled anew.
KeptOfTheProfile(q) == [f \in DOMAIN q.spec.fields |-> {}]

\* Labels that are in the specification and not in the profile stay.
KeptLabels(q) == [f \in DOMAIN q.spec.fields |-> CategoriesIn(q.spec, f) \ CategoriesIn(q.profile, f)]

\* The request is made again of a profile and what was told of the
\* specification, to see whether the profile is the one that was told of.
Rebuild(p, q) ==
    LET back == [f \in DOMAIN p.fields |->
                    [l \in {q.profile.fields[f].categories[i] : i \in Placed(p, q, f)} |->
                        p.fields[f].categories[CHOOSE i \in Placed(p, q, f) : q.profile.fields[f].categories[i] = l]]]
    IN  Build(p, Replaced(q.spec, back), KeptLabels(q))

-----------------------------------------------------------------------------
(* Projection for a provider, and the way back.                            *)

\* Without data of local use, and without semantic types that are not known.
Stripped(d) ==
    LET known(type) == IF type \in SensitiveTypes THEN type ELSE None
        told(field) == [field EXCEPT !.local = None, !.semantic = known(field.semantic)]
    IN  [d EXCEPT !.settings = [core |-> d.settings.core, locale |-> None],
                  !.fields = [f \in DOMAIN d.fields |-> told(d.fields[f])],
                  !.constraints = [i \in DOMAIN d.constraints |-> [d.constraints[i] EXCEPT !.local = None]]]

\* Values of all fields are replaced, allowed or not.
Project(family, q) ==
    LET taken == AllCategories(q.profile) \cup AllCategories(q.spec)
        map == [f \in DOMAIN q.profile.fields |-> Labelling(family, q.profile, q.spec, f, {}, taken)]
    IN  [told |-> [profile |-> Replaced(Stripped(q.profile), map), spec |-> Replaced(Stripped(q.spec), map)],
         back |-> [f \in DOMAIN map |-> [l \in Range(map[f]) |-> CHOOSE v \in DOMAIN map[f] : map[f][v] = l]],
         original |-> q.spec, projected |-> Stripped(q.spec)]

\* Local data returns if the advisor left it as it was told.
Untouched(d, r) ==
    /\ r.original.settings # r.projected.settings => d.settings = r.projected.settings
    /\ \A f \in DOMAIN d.fields \cap DOMAIN r.original.fields :
        LET was == r.original.fields[f] told == r.projected.fields[f] is == d.fields[f] IN
        /\ was.semantic # told.semantic =>
            is.semantic = told.semantic /\ (told.sensitive => is.sensitive) /\ (told.identifier => is.identifier)
        /\ was.local # told.local => is.local = told.local

\* A constraint returns where it was told.
ConstraintsBack(d, r) ==
    [i \in DOMAIN d.constraints |->
        IF i \in DOMAIN r.projected.constraints /\ d.constraints[i] = r.projected.constraints[i]
        THEN r.original.constraints[i] ELSE d.constraints[i]]

\* Mutant: values of categories return, and nothing else does.
LabelsBack(d, r) == d

\* What was told otherwise is as it was, the rest as the advisor left it.
Returned(was, told, is) == IF was # told THEN was ELSE is

LocalBack(d, r) ==
    LET returned(was, told, is) ==
            [is EXCEPT !.semantic = Returned(was.semantic, told.semantic, is.semantic),
                       !.local = Returned(was.local, told.local, is.local)]
    IN  [d EXCEPT
            !.settings = Returned(r.original.settings, r.projected.settings, d.settings),
            !.fields = [f \in DOMAIN d.fields |->
                IF f \notin DOMAIN r.original.fields THEN d.fields[f]
                ELSE returned(r.original.fields[f], r.projected.fields[f], d.fields[f])],
            !.constraints = ConstraintsBack(d, r)]

Restore(answer, r) ==
    LET d == Replaced(answer, r.back) IN IF Untouched(d, r) THEN LocalBack(d, r) ELSE None

-----------------------------------------------------------------------------
(* What an advisor may propose.                                            *)

SchemaKept(b, c) ==
    c.names = b.names /\ c.key = b.key /\ \A f \in DOMAIN b.fields : c.fields[f].type = b.fields[f].type

SettingsKept(b, c) == c.settings = b.settings

MayBeTarget(f, field, type) ==
    /\ ~field.sensitive /\ ~LooksSensitive(f, field) /\ ~field.identifier
    /\ type = "formula" => field.type = "number"

\* As many constraints of a kind as the baseline has are its own; the others
\* are new.
IsNew(b, c, i) ==
    Cardinality({j \in 1..i : c.constraints[j] = c.constraints[i]})
        > Cardinality({j \in DOMAIN b.constraints : b.constraints[j] = c.constraints[i]})

ConstraintsAllowed(b, c) ==
    \A i \in {j \in DOMAIN c.constraints : IsNew(b, c, j)} :
        LET k == c.constraints[i] IN
        /\ k.type = "formula" => \A f \in k.from : f \in DOMAIN c.fields /\ c.fields[f].type = "number"
        /\ \A f \in k.targets : MayBeTarget(f, c.fields[f], k.type)

Valid(q, spec) ==
    /\ SchemaKept(q.spec, spec) /\ SettingsKept(q.spec, spec)
    /\ ConstraintsAllowed(q.spec, spec) /\ FitsProfile(q.profile, spec)

-----------------------------------------------------------------------------
(* Candidates that are ranked: each at most once, and as it was told.      *)

RankingIsBound(candidates, proposals) ==
    /\ IsInjective([i \in DOMAIN proposals |-> proposals[i].id])
    /\ \A i \in DOMAIN proposals : \E c \in candidates : c = proposals[i]
=============================================================================

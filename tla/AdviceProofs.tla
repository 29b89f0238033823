---------------------------- MODULE AdviceProofs ----------------------------
(***************************************************************************)
(* What is proved of the exchange with a model provider, for any requests, *)
(* answers, labels and clients: what it is told of, and that advice that is *)
(* accepted is made of what it was told.                                   *)
(***************************************************************************)
EXTENDS ProfilesProofs

(* What advisors are told, for any profiles, specifications and answers.   *)

\* Sizes mean the same in the instance.
LEMMA AdviceCounts ==
    \A s : Advice!Cardinality(s) = Cardinality(s) /\ (Advice!IsFiniteSet(s) <=> IsFiniteSet(s))
  BY DEF Advice!Cardinality, Cardinality, Advice!IsFiniteSet, IsFiniteSet

\* A value of a list has a first place.
LEMMA FirstTells ==
    ASSUME NEW W, NEW s \in Seq(W), NEW v \in Advice!ToSet(s)
    PROVE  Advice!First(s, v) \in DOMAIN s /\ Advice!First(s, v) \in Nat /\ s[Advice!First(s, v)] = v
<1> DEFINE I == {i \in DOMAIN s : s[i] = v}
<1>1. I \in SUBSET Nat /\ I # {}
  BY DEF Advice!ToSet
<1>2. PICK i \in I : \A j \in I : i <= j
  <2> HIDE DEF I
  <2> QED BY <1>1, Least
<1>3. Advice!First(s, v) \in DOMAIN s /\ s[Advice!First(s, v)] = v
  <2>1. \E i_ \in DOMAIN s : s[i_] = v /\ \A j \in DOMAIN s : s[j] = v => i_ <= j
    BY <1>2
  <2> QED BY <2>1 DEF Advice!First
<1> QED BY <1>3

\* There is a suffix that keeps a label apart from what is taken.
LEMMA LabelTells ==
    ASSUME NEW family, NEW f, NEW i, NEW taken, IsFiniteSet(taken)
    PROVE  \E k : Advice!Label(family, f, i, taken) = <<family, f, i, k>> /\ <<family, f, i, k>> \notin taken
<1> DEFINE n == Cardinality(taken)
           free == {k \in 0..n : <<family, f, i, k>> \notin taken}
           g == [k \in 0..n |-> <<family, f, i, k>>]
<1>1. n \in Nat /\ IsFiniteSet(0..n) /\ Cardinality(0..n) = n + 1
  <2>1. n \in Nat
    BY FS_CardinalityType
  <2> HIDE DEF n
  <2> QED BY <2>1, FS_Interval
<1>2. \A x, y \in 0..n : g[x] = g[y] => x = y
  OBVIOUS
<1>3. free # {}
  <2> SUFFICES ASSUME free = {} PROVE FALSE
    OBVIOUS
  <2>1. g \in [0..n -> taken]
    OBVIOUS
  <2> HIDE DEF g, free
  <2>2. Cardinality(taken) < Cardinality(0..n)
    BY <1>1
  <2> QED BY <1>1, <1>2, <2>1, <2>2, FS_PigeonHole
<1>4. free \in SUBSET Nat
  BY <1>1
<1>5. PICK m \in free : \A j \in free : m <= j
  <2> HIDE DEF free
  <2> QED BY <1>3, <1>4, Least
<1> DEFINE k == CHOOSE x \in free : \A j \in free : x <= j
<1>6. k \in free
  <2> HIDE DEF free
  <2> QED BY <1>5
<1>7. Advice!Label(family, f, i, taken) = <<family, f, i, k>>
  BY AdviceCounts DEF Advice!Label
<1> HIDE DEF k
<1> QED BY <1>6, <1>7

\* Labels of a field's values: each has its own.
OwnLabels(m, family, f, known, taken) ==
    /\ DOMAIN m = known
    /\ \A v \in known : Advice!IsLabel(m[v], {family}) /\ m[v] \notin taken
    /\ \A v, w \in known : m[v] = m[w] => v = w

ValuesOf(p, s, f) == Advice!CategoriesIn(p, f) \cup Advice!CategoriesIn(s, f)

\* A list has finitely many values.
LEMMA ListsAreFinite ==
    ASSUME NEW W, NEW s \in Seq(W)
    PROVE  IsFiniteSet(Advice!ToSet(s))
<1>1. [i \in 1..Len(s) |-> s[i]] \in Surjection(1..Len(s), Advice!ToSet(s))
  BY DEF Surjection, Advice!ToSet
<1>2. IsFiniteSet(1..Len(s))
  BY FS_Interval
<1> QED BY <1>1, <1>2, FS_Surjection

\* Labels of a field are its own, told apart from each other and from what is taken.
LEMMA LabellingTells ==
    ASSUME NEW p, NEW s, Advice!IsDataset(p), Advice!IsDataset(s), NEW f, f \in DOMAIN p.fields, f \in DOMAIN s.fields,
           NEW family, NEW skip, NEW taken, IsFiniteSet(taken)
    PROVE  OwnLabels(Advice!Labelling(family, p, s, f, skip, taken), family, f, ValuesOf(p, s, f) \ skip, taken)
<1> DEFINE a == p.fields[f].categories
           b == s.fields[f].categories
           listed == a \o b
           known == Advice!ToSet(listed) \ skip
           before(v) == {w \in known : Advice!First(listed, w) < Advice!First(listed, v)}
           m == Advice!Labelling(family, p, s, f, skip, taken)
           U == Advice!ToSet(a) \cup Advice!ToSet(b)
<1>1. a \in Seq(Advice!ToSet(a)) /\ b \in Seq(Advice!ToSet(b))
  BY DEF Advice!IsDataset, Advice!IsField
<1>2. ValuesOf(p, s, f) = U
  BY DEF ValuesOf, Advice!CategoriesIn
<1>3. m = [v \in known |-> Advice!Label(family, f, Cardinality(before(v)), taken)]
  BY AdviceCounts, Zenon DEF Advice!Labelling
<1> HIDE DEF a, b, m
<1>4. listed \in Seq(U) /\ Advice!ToSet(listed) = U
  <2>1. a \in Seq(U) /\ b \in Seq(U)
    BY <1>1
  <2>2. /\ listed \in Seq(U) /\ Len(listed) = Len(a) + Len(b)
        /\ \A i \in 1..(Len(a) + Len(b)) : listed[i] = IF i <= Len(a) THEN a[i] ELSE b[i - Len(a)]
    <3> HIDE DEF U
    <3> QED BY <2>1
  <2> HIDE DEF listed
  <2>3. /\ DOMAIN listed = 1..(Len(a) + Len(b)) /\ DOMAIN a = 1..Len(a) /\ DOMAIN b = 1..Len(b)
        /\ Len(a) \in Nat /\ Len(b) \in Nat
    BY <1>1, <2>2
  <2>4. ASSUME NEW v \in U PROVE v \in Advice!ToSet(listed)
    <3>1. CASE v \in Advice!ToSet(a)
      <4>1. PICK i \in 1..Len(a) : a[i] = v
        BY <3>1, <2>3 DEF Advice!ToSet
      <4>2. i \in DOMAIN listed /\ listed[i] = v
        BY <4>1, <2>2, <2>3
      <4> QED BY <4>2 DEF Advice!ToSet
    <3>2. CASE v \in Advice!ToSet(b)
      <4>1. PICK i \in 1..Len(b) : b[i] = v
        BY <3>2, <2>3 DEF Advice!ToSet
      <4>2. i + Len(a) \in DOMAIN listed /\ ~(i + Len(a) <= Len(a)) /\ (i + Len(a)) - Len(a) = i
        BY <4>1, <2>3
      <4>3. listed[i + Len(a)] = v
        BY <4>1, <4>2, <2>2, <2>3
      <4> QED BY <4>2, <4>3 DEF Advice!ToSet
    <3> QED BY <3>1, <3>2
  <2>5. Advice!ToSet(listed) \subseteq U
    BY <2>2 DEF Advice!ToSet
  <2> QED BY <2>2, <2>4, <2>5
<1> HIDE DEF listed, U
<1>5. IsFiniteSet(known)
  <2>1. IsFiniteSet(Advice!ToSet(listed))
    BY <1>4, ListsAreFinite
  <2> QED BY <2>1, FS_Subset
<1>6. \A v \in known : Advice!First(listed, v) \in Nat /\ listed[Advice!First(listed, v)] = v
  BY <1>4, FirstTells
<1> HIDE DEF known
<1>7. \A v, w \in known : Cardinality(before(v)) = Cardinality(before(w)) => v = w
  <2>1. ASSUME NEW v \in known, NEW w \in known, Advice!First(listed, v) < Advice!First(listed, w),
               Cardinality(before(v)) = Cardinality(before(w))
        PROVE  FALSE
    <3>1. before(v) \in SUBSET before(w) /\ v \in before(w) /\ v \notin before(v)
      BY <1>6, <2>1
    <3>2. IsFiniteSet(before(w))
      BY <1>5, FS_Subset
    <3> HIDE DEF before
    <3> QED BY <2>1, <3>1, <3>2, FS_Subset
  <2> SUFFICES ASSUME NEW v \in known, NEW w \in known, v # w, Cardinality(before(v)) = Cardinality(before(w)) PROVE FALSE
    OBVIOUS
  <2>2. Advice!First(listed, v) # Advice!First(listed, w)
    BY <1>6
  <2> HIDE DEF before
  <2>3. Advice!First(listed, v) < Advice!First(listed, w) \/ Advice!First(listed, w) < Advice!First(listed, v)
    BY <1>6, <2>2
  <2> QED BY <2>1, <2>3
<1> HIDE DEF before
<1>8. \A v \in known : \E k : m[v] = <<family, f, Cardinality(before(v)), k>> /\ m[v] \notin taken
  <2> SUFFICES ASSUME NEW v \in known
               PROVE  \E k : m[v] = <<family, f, Cardinality(before(v)), k>> /\ m[v] \notin taken
    OBVIOUS
  <2>1. m[v] = Advice!Label(family, f, Cardinality(before(v)), taken)
    BY <1>3
  <2> DEFINE i == Cardinality(before(v))
  <2> HIDE DEF i
  <2>2. PICK k : Advice!Label(family, f, i, taken) = <<family, f, i, k>> /\ <<family, f, i, k>> \notin taken
    BY LabelTells
  <2>3. m[v] = <<family, f, i, k>> /\ m[v] \notin taken
    <3>1. m[v] = Advice!Label(family, f, i, taken)
      BY <2>1 DEF i
    <3> QED BY <3>1, <2>2
  <2> QED BY <2>3 DEF i
<1>9. \A v \in known : Advice!IsLabel(m[v], {family}) /\ m[v] \notin taken /\ m[v][3] = Cardinality(before(v))
  BY <1>8 DEF Advice!IsLabel
<1>10. \A v, w \in known : m[v] = m[w] => v = w
  BY <1>7, <1>9
<1>11. DOMAIN m = known /\ known = U \ skip
  BY <1>3, <1>4 DEF known
<1> QED BY <1>2, <1>9, <1>10, <1>11 DEF OwnLabels, m

\* A data set's parts.
LEMMA DatasetTells ==
    ASSUME NEW d, Advice!IsDataset(d)
    PROVE  /\ d = [names |-> d.names, fields |-> d.fields, constraints |-> d.constraints, allowed |-> d.allowed,
                   key |-> d.key, settings |-> d.settings]
           /\ DOMAIN d.constraints = 1..Len(d.constraints) /\ Len(d.constraints) \in Nat
           /\ \A i \in DOMAIN d.constraints : Advice!IsConstraint(d.constraints[i])
           /\ \A f \in DOMAIN d.fields :
                /\ Advice!IsField(d.fields[f]) /\ Len(d.fields[f].categories) \in Nat
                /\ DOMAIN d.fields[f].categories = 1..Len(d.fields[f].categories)
           /\ \A k : k \in Advice!Conditions(d) <=> \E i \in DOMAIN d.constraints : k = d.constraints[i] /\ k.on # None
           /\ \A f, v : v \in Advice!CategoriesIn(d, f)
                    <=> \E i \in DOMAIN d.fields[f].categories : v = d.fields[f].categories[i]
<1>1. \A i \in DOMAIN d.constraints : d.constraints[i] \in Advice!ToSet(d.constraints)
  BY DEF Advice!ToSet
<1>2. d.constraints \in Seq(Advice!ToSet(d.constraints))
  BY DEF Advice!IsDataset
<1>3. \A k : k \in Advice!Conditions(d) <=> \E i \in DOMAIN d.constraints : k = d.constraints[i] /\ k.on # None
  BY DEF Advice!ToSet, Advice!Conditions
<1>4. \A f, v : v \in Advice!CategoriesIn(d, f)
                    <=> \E i \in DOMAIN d.fields[f].categories : v = d.fields[f].categories[i]
  BY DEF Advice!ToSet, Advice!CategoriesIn
<1>5. \A i \in DOMAIN d.constraints : Advice!IsConstraint(d.constraints[i])
  BY <1>1 DEF Advice!IsDataset
<1>6. ASSUME NEW f \in DOMAIN d.fields
      PROVE  /\ Advice!IsField(d.fields[f]) /\ Len(d.fields[f].categories) \in Nat
             /\ DOMAIN d.fields[f].categories = 1..Len(d.fields[f].categories)
  <2>1. Advice!IsField(d.fields[f])
    BY DEF Advice!IsDataset
  <2>2. d.fields[f].categories \in Seq(Advice!ToSet(d.fields[f].categories))
    BY <2>1 DEF Advice!IsField
  <2> QED BY <2>1, <2>2
<1>7. DOMAIN d.constraints = 1..Len(d.constraints) /\ Len(d.constraints) \in Nat
  BY <1>2
<1> QED BY <1>3, <1>4, <1>5, <1>6, <1>7 DEF Advice!IsDataset

\* What has the shape is a data set.
HasShape(d, e) ==
    /\ e.names = d.names
    /\ e = [names |-> e.names, fields |-> e.fields, constraints |-> e.constraints, allowed |-> e.allowed,
            key |-> e.key, settings |-> e.settings]
    /\ e.settings = [core |-> e.settings.core, locale |-> e.settings.locale]
    /\ e.fields = [f \in DOMAIN d.fields |-> e.fields[f]]
    /\ \A f \in DOMAIN d.fields :
        /\ e.fields[f] = [type |-> e.fields[f].type, sensitive |-> e.fields[f].sensitive,
              identifier |-> e.fields[f].identifier, semantic |-> e.fields[f].semantic,
              categories |-> e.fields[f].categories, local |-> e.fields[f].local]
        /\ e.fields[f].categories = [i \in DOMAIN d.fields[f].categories |-> e.fields[f].categories[i]]
    /\ e.constraints = [i \in DOMAIN d.constraints |-> e.constraints[i]]
    /\ \A i \in DOMAIN d.constraints : Advice!IsConstraint(e.constraints[i])

\* A data set of such parts is one.
LEMMA DatasetIsMade ==
    ASSUME NEW d, NEW e, Advice!IsDataset(d), HasShape(d, e)
    PROVE  Advice!IsDataset(e)
<1> USE DEF HasShape
<1>1. /\ DOMAIN e.fields = DOMAIN d.fields /\ DOMAIN d.fields = Advice!ToSet(d.names) /\ IsFiniteSet(DOMAIN d.fields)
      /\ e.fields = [f \in DOMAIN e.fields |-> e.fields[f]]
  <2>1. DOMAIN e.fields = DOMAIN d.fields
    OBVIOUS
  <2> QED BY <2>1, AdviceCounts DEF Advice!IsDataset
<1>2. ASSUME NEW f \in DOMAIN d.fields PROVE Advice!IsField(e.fields[f])
  <2> DEFINE s == e.fields[f].categories
             n == Len(d.fields[f].categories)
  <2>1. n \in Nat /\ DOMAIN d.fields[f].categories = 1..n
    BY DatasetTells
  <2>2. s = [i \in 1..n |-> s[i]]
    BY <2>1
  <2>3. s \in Seq(Advice!ToSet(s))
    <3> HIDE DEF s, n
    <3>1. \A i \in 1..n : s[i] \in Advice!ToSet(s)
      BY <2>2 DEF Advice!ToSet
    <3> QED BY <2>1, <2>2, <3>1
  <2> QED BY <2>3 DEF Advice!IsField
<1>3. e.constraints \in Seq(Advice!ToSet(e.constraints))
  <2> DEFINE s == e.constraints
             n == Len(d.constraints)
  <2>1. n \in Nat /\ DOMAIN d.constraints = 1..n
    BY DatasetTells
  <2>2. s = [i \in 1..n |-> s[i]]
    BY <2>1
  <2> HIDE DEF s, n
  <2>3. \A i \in 1..n : s[i] \in Advice!ToSet(s)
    BY <2>2 DEF Advice!ToSet
  <2>4. s \in Seq(Advice!ToSet(s))
    BY <2>1, <2>2, <2>3, SMTT(60)
  <2> QED BY <2>4 DEF s
<1>4. \A k \in Advice!ToSet(e.constraints) : Advice!IsConstraint(k)
  <2>1. DOMAIN e.constraints = DOMAIN d.constraints
    OBVIOUS
  <2> QED BY <2>1 DEF Advice!ToSet
<1>5. DOMAIN e.fields = Advice!ToSet(e.names) /\ Advice!IsFiniteSet(DOMAIN e.fields)
  BY <1>1, AdviceCounts
<1> QED BY <1>1, <1>2, <1>3, <1>4, <1>5 DEF Advice!IsDataset

\* What a replacement makes of a constraint.
LEMMA ReconditionedTells ==
    ASSUME NEW k, Advice!IsConstraint(k), NEW map, NEW r, r = Advice!Reconditioned(k, map)
    PROVE  /\ Advice!IsConstraint(r)
           /\ r.type = k.type /\ r.targets = k.targets /\ r.from = k.from /\ r.on = k.on /\ r.local = k.local
           /\ r.equals = IF k.on = None THEN k.equals ELSE Advice!Mapped(map, k.on, k.equals)
<1>1. k = [type |-> k.type, targets |-> k.targets, from |-> k.from, on |-> k.on, equals |-> k.equals, local |-> k.local]
  BY DEF Advice!IsConstraint
<1>2. CASE k.on = None
  <2>1. r = k
    BY <1>2 DEF Advice!Reconditioned
  <2> QED BY <1>2, <2>1
<1>3. CASE k.on # None
  <2> DEFINE v == Advice!Mapped(map, k.on, k.equals)
  <2>1. r = [k EXCEPT !.equals = v]
    BY <1>3 DEF Advice!Reconditioned
  <2> HIDE DEF v
  <2>2. r = [type |-> k.type, targets |-> k.targets, from |-> k.from, on |-> k.on, equals |-> v, local |-> k.local]
    BY <1>1, <2>1
  <2>3. /\ r.type = k.type /\ r.targets = k.targets /\ r.from = k.from /\ r.on = k.on /\ r.local = k.local
        /\ r.equals = v
    BY <2>2
  <2>4. Advice!IsConstraint(r)
    BY <2>2 DEF Advice!IsConstraint
  <2> QED BY <1>3, <2>3, <2>4 DEF v
<1> QED BY <1>2, <1>3

\* And of a field.
IsRecategorised(x, f, map, r) ==
    /\ r.type = x.type /\ r.sensitive = x.sensitive /\ r.identifier = x.identifier
    /\ r.semantic = x.semantic /\ r.local = x.local
    /\ \A i \in DOMAIN x.categories : r.categories[i] = Advice!Mapped(map, f, x.categories[i])
    /\ r.categories = [i \in DOMAIN x.categories |-> r.categories[i]]

\* Only the categories of a field are replaced.
LEMMA RecategorisedTells ==
    ASSUME NEW x, Advice!IsField(x), NEW f, NEW map, NEW r, r = Advice!Recategorised(x, f, map)
    PROVE  IsRecategorised(x, f, map, r)
<1> DEFINE s == [i \in DOMAIN x.categories |-> Advice!Mapped(map, f, x.categories[i])]
<1>1. x = [type |-> x.type, sensitive |-> x.sensitive, identifier |-> x.identifier, semantic |-> x.semantic,
           categories |-> x.categories, local |-> x.local]
  BY DEF Advice!IsField
<1>2. r = [x EXCEPT !.categories = s]
  BY DEF Advice!Recategorised
<1>3. s = [i \in DOMAIN x.categories |-> s[i]]
  OBVIOUS
<1> HIDE DEF s
<1>4. r = [type |-> x.type, sensitive |-> x.sensitive, identifier |-> x.identifier, semantic |-> x.semantic,
           categories |-> s, local |-> x.local]
  BY <1>1, <1>2
<1>5. r.categories = s
  BY <1>4
<1>6. /\ r.type = x.type /\ r.sensitive = x.sensitive /\ r.identifier = x.identifier
      /\ r.semantic = x.semantic /\ r.local = x.local
  BY <1>4
<1> QED BY <1>3, <1>5, <1>6 DEF s, IsRecategorised

\* A field whose categories are replaced is a field.
LEMMA RecategorisedIsField ==
    ASSUME NEW x, Advice!IsField(x), NEW f, NEW map, NEW r, r = Advice!Recategorised(x, f, map)
    PROVE  r = [type |-> r.type, sensitive |-> r.sensitive, identifier |-> r.identifier, semantic |-> r.semantic,
                categories |-> r.categories, local |-> r.local]
<1> DEFINE s == [i \in DOMAIN x.categories |-> Advice!Mapped(map, f, x.categories[i])]
<1>1. x = [type |-> x.type, sensitive |-> x.sensitive, identifier |-> x.identifier, semantic |-> x.semantic,
           categories |-> x.categories, local |-> x.local]
  BY DEF Advice!IsField
<1>2. r = [x EXCEPT !.categories = s]
  BY DEF Advice!Recategorised
<1> HIDE DEF s
<1>3. r = [type |-> x.type, sensitive |-> x.sensitive, identifier |-> x.identifier, semantic |-> x.semantic,
           categories |-> s, local |-> x.local]
  BY <1>1, <1>2
<1> QED BY <1>3

\* A constraint without what is of local use.
LEMMA UnlocatedTells ==
    ASSUME NEW k, Advice!IsConstraint(k), NEW r, r = [k EXCEPT !.local = None]
    PROVE  /\ Advice!IsConstraint(r)
           /\ r.type = k.type /\ r.targets = k.targets /\ r.from = k.from /\ r.on = k.on /\ r.equals = k.equals
           /\ r.local = None
<1>1. k = [type |-> k.type, targets |-> k.targets, from |-> k.from, on |-> k.on, equals |-> k.equals, local |-> k.local]
  BY DEF Advice!IsConstraint
<1>2. r = [type |-> k.type, targets |-> k.targets, from |-> k.from, on |-> k.on, equals |-> k.equals, local |-> None]
  BY <1>1
<1> HIDE <1>1
<1> QED BY <1>2 DEF Advice!IsConstraint

\* What a replacement makes of a data set.
LEMMA ReplacedTells ==
    ASSUME NEW d, Advice!IsDataset(d), NEW map, NEW e, e = Advice!Replaced(d, map)
    PROVE  /\ Advice!IsDataset(e)
           /\ e.names = d.names /\ e.allowed = d.allowed /\ e.key = d.key /\ e.settings = d.settings
           /\ DOMAIN e.fields = DOMAIN d.fields
           /\ \A f \in DOMAIN d.fields : e.fields[f] = Advice!Recategorised(d.fields[f], f, map)
           /\ e.constraints = [i \in DOMAIN d.constraints |-> Advice!Reconditioned(d.constraints[i], map)]
<1>1. /\ d = [names |-> d.names, fields |-> d.fields, constraints |-> d.constraints, allowed |-> d.allowed,
              key |-> d.key, settings |-> d.settings]
      /\ d.settings = [core |-> d.settings.core, locale |-> d.settings.locale]
  BY DEF Advice!IsDataset
<1>2. e = [names |-> d.names, fields |-> [f \in DOMAIN d.fields |-> Advice!Recategorised(d.fields[f], f, map)],
           constraints |-> [i \in DOMAIN d.constraints |-> Advice!Reconditioned(d.constraints[i], map)],
           allowed |-> d.allowed, key |-> d.key, settings |-> d.settings]
  BY <1>1 DEF Advice!Replaced
<1>3. ASSUME NEW i \in DOMAIN d.constraints PROVE Advice!IsConstraint(Advice!Reconditioned(d.constraints[i], map))
  BY DatasetTells, ReconditionedTells
<1>4. ASSUME NEW f \in DOMAIN d.fields, NEW x, x = Advice!Recategorised(d.fields[f], f, map)
      PROVE  /\ x = [type |-> x.type, sensitive |-> x.sensitive, identifier |-> x.identifier, semantic |-> x.semantic,
                     categories |-> x.categories, local |-> x.local]
             /\ x.categories = [i \in DOMAIN d.fields[f].categories |-> x.categories[i]]
  <2>1. Advice!IsField(d.fields[f])
    BY DatasetTells
  <2>2. x.categories = [i \in DOMAIN d.fields[f].categories |-> x.categories[i]]
    BY <1>4, <2>1, RecategorisedTells DEF IsRecategorised
  <2>3. x = [type |-> x.type, sensitive |-> x.sensitive, identifier |-> x.identifier, semantic |-> x.semantic,
                     categories |-> x.categories, local |-> x.local]
    BY <1>4, <2>1, RecategorisedIsField
  <2> QED BY <2>2, <2>3
<1>5. /\ e.fields = [f \in DOMAIN d.fields |-> e.fields[f]]
      /\ \A f \in DOMAIN d.fields : e.fields[f] = Advice!Recategorised(d.fields[f], f, map)
      /\ DOMAIN e.fields = DOMAIN d.fields
      /\ e.constraints = [i \in DOMAIN d.constraints |-> Advice!Reconditioned(d.constraints[i], map)]
      /\ e.constraints = [i \in DOMAIN d.constraints |-> e.constraints[i]]
      /\ e.names = d.names /\ e.allowed = d.allowed /\ e.key = d.key /\ e.settings = d.settings
  BY <1>2
<1>6. \A i \in DOMAIN d.constraints : Advice!IsConstraint(e.constraints[i])
  BY <1>3, <1>5
<1>7. e = [names |-> e.names, fields |-> e.fields, constraints |-> e.constraints, allowed |-> e.allowed,
                key |-> e.key, settings |-> e.settings]
  BY <1>2
<1>8. Advice!IsDataset(e)
  <2>1. \A f \in DOMAIN d.fields :
              /\ e.fields[f] = [type |-> e.fields[f].type, sensitive |-> e.fields[f].sensitive,
                    identifier |-> e.fields[f].identifier, semantic |-> e.fields[f].semantic,
                    categories |-> e.fields[f].categories, local |-> e.fields[f].local]
              /\ e.fields[f].categories = [i \in DOMAIN d.fields[f].categories |-> e.fields[f].categories[i]]
    BY <1>4, <1>5
  <2>2. e.settings = [core |-> e.settings.core, locale |-> e.settings.locale]
    BY <1>1, <1>5
  <2>3. HasShape(d, e)
    BY <1>5, <1>6, <1>7, <2>1, <2>2 DEF HasShape
  <2> QED BY <2>3, DatasetIsMade
<1> QED BY <1>5, <1>8

\* The semantic type of a field that is told.
Known(type) == IF type \in AdviceTypes THEN type ELSE None

\* A field without what is of local use.
IsStripped(x, r) ==
    /\ r.type = x.type /\ r.sensitive = x.sensitive /\ r.identifier = x.identifier
    /\ r.semantic = Known(x.semantic) /\ r.categories = x.categories /\ r.local = None

\* What is stripped of a data set.
LEMMA StrippedTells ==
    ASSUME NEW d, Advice!IsDataset(d), NEW e, e = Advice!Stripped(d)
    PROVE  /\ Advice!IsDataset(e)
           /\ e.names = d.names /\ e.allowed = d.allowed /\ e.key = d.key
           /\ e.settings = [core |-> d.settings.core, locale |-> None]
           /\ DOMAIN e.fields = DOMAIN d.fields
           /\ \A f \in DOMAIN d.fields :
                IsStripped(d.fields[f], e.fields[f])
           /\ e.constraints = [i \in DOMAIN d.constraints |-> [d.constraints[i] EXCEPT !.local = None]]
<1> DEFINE told(field) == [field EXCEPT !.local = None, !.semantic = Known(field.semantic)]
<1>1. /\ d = [names |-> d.names, fields |-> d.fields, constraints |-> d.constraints, allowed |-> d.allowed,
              key |-> d.key, settings |-> d.settings]
      /\ d.settings = [core |-> d.settings.core, locale |-> d.settings.locale]
  BY DEF Advice!IsDataset
<1>2. e = [names |-> d.names, fields |-> [f \in DOMAIN d.fields |-> told(d.fields[f])],
           constraints |-> [i \in DOMAIN d.constraints |-> [d.constraints[i] EXCEPT !.local = None]],
           allowed |-> d.allowed, key |-> d.key, settings |-> [core |-> d.settings.core, locale |-> None]]
  <2>1. e = [d EXCEPT !.settings = [core |-> d.settings.core, locale |-> None],
                  !.fields = [f \in DOMAIN d.fields |-> told(d.fields[f])],
                  !.constraints = [i \in DOMAIN d.constraints |-> [d.constraints[i] EXCEPT !.local = None]]]
    BY Zenon DEF Advice!Stripped, Known
  <2> HIDE DEF told
  <2> QED BY <1>1, <2>1
<1>3. ASSUME NEW i \in DOMAIN d.constraints PROVE Advice!IsConstraint([d.constraints[i] EXCEPT !.local = None])
  <2>1. Advice!IsConstraint(d.constraints[i])
    BY DatasetTells
  <2> QED BY <2>1, UnlocatedTells
<1>4. ASSUME NEW f \in DOMAIN d.fields, NEW x, x = told(d.fields[f])
      PROVE  /\ x = [type |-> x.type, sensitive |-> x.sensitive, identifier |-> x.identifier, semantic |-> x.semantic,
                     categories |-> x.categories, local |-> x.local]
             /\ x.categories = [i \in DOMAIN d.fields[f].categories |-> x.categories[i]]
  <2>1. Advice!IsField(d.fields[f]) /\ DOMAIN d.fields[f].categories = 1..Len(d.fields[f].categories)
    BY DatasetTells
  <2>2. d.fields[f].categories \in Seq(Advice!ToSet(d.fields[f].categories))
    BY <2>1 DEF Advice!IsField
  <2>3. x.categories = d.fields[f].categories
    BY <1>4, <2>1 DEF Advice!IsField
  <2>4. d.fields[f].categories = [i \in DOMAIN d.fields[f].categories |-> d.fields[f].categories[i]]
    BY <2>1, <2>2
  <2> QED BY <1>4, <2>1, <2>3, <2>4 DEF Advice!IsField
<1> HIDE DEF told
<1>5. /\ e.fields = [f \in DOMAIN d.fields |-> e.fields[f]]
      /\ \A f \in DOMAIN d.fields : e.fields[f] = told(d.fields[f])
      /\ DOMAIN e.fields = DOMAIN d.fields
      /\ e.constraints = [i \in DOMAIN d.constraints |-> [d.constraints[i] EXCEPT !.local = None]]
      /\ e.constraints = [i \in DOMAIN d.constraints |-> e.constraints[i]]
      /\ e.names = d.names /\ e.allowed = d.allowed /\ e.key = d.key
      /\ e.settings = [core |-> d.settings.core, locale |-> None]
  BY <1>2
<1>6. \A i \in DOMAIN d.constraints : Advice!IsConstraint(e.constraints[i])
  BY <1>3, <1>5
<1>7. e = [names |-> e.names, fields |-> e.fields, constraints |-> e.constraints, allowed |-> e.allowed,
                key |-> e.key, settings |-> e.settings]
  BY <1>2
<1>8. Advice!IsDataset(e)
  <2>1. \A f \in DOMAIN d.fields :
              /\ e.fields[f] = [type |-> e.fields[f].type, sensitive |-> e.fields[f].sensitive,
                    identifier |-> e.fields[f].identifier, semantic |-> e.fields[f].semantic,
                    categories |-> e.fields[f].categories, local |-> e.fields[f].local]
              /\ e.fields[f].categories = [i \in DOMAIN d.fields[f].categories |-> e.fields[f].categories[i]]
    BY <1>4, <1>5
  <2>2. e.settings = [core |-> e.settings.core, locale |-> e.settings.locale]
    BY <1>5
  <2>3. HasShape(d, e)
    BY <1>5, <1>6, <1>7, <2>1, <2>2 DEF HasShape
  <2> QED BY <2>3, DatasetIsMade
<1>9. ASSUME NEW f \in DOMAIN d.fields
      PROVE  IsStripped(d.fields[f], e.fields[f])
  <2>1. Advice!IsField(d.fields[f])
    BY DatasetTells
  <2> QED BY <1>5, <2>1 DEF told, Advice!IsField, IsStripped
<1> QED BY <1>5, <1>8, <1>9

-----------------------------------------------------------------------------
(* Replacing values.                                                       *)

\* Values that are replaced: those of the categories, and those that conditions
\* ask for.
LEMMA ReplacedValues ==
    ASSUME NEW d, Advice!IsDataset(d), NEW map, NEW e, e = Advice!Replaced(d, map)
    PROVE  /\ \A f \in DOMAIN d.fields : \A v :
                v \in Advice!CategoriesIn(e, f) <=> \E w \in Advice!CategoriesIn(d, f) : v = Advice!Mapped(map, f, w)
           /\ \A k \in Advice!Conditions(e) : \E j \in Advice!Conditions(d) :
                k.on = j.on /\ k.equals = Advice!Mapped(map, j.on, j.equals)
           /\ \A j \in Advice!Conditions(d) : \E k \in Advice!Conditions(e) :
                k.on = j.on /\ k.equals = Advice!Mapped(map, j.on, j.equals)
<1>1. /\ Advice!IsDataset(e) /\ DOMAIN e.fields = DOMAIN d.fields
      /\ \A f \in DOMAIN d.fields : e.fields[f] = Advice!Recategorised(d.fields[f], f, map)
      /\ e.constraints = [i \in DOMAIN d.constraints |-> Advice!Reconditioned(d.constraints[i], map)]
  BY ReplacedTells
<1>2. ASSUME NEW f \in DOMAIN d.fields
      PROVE  \A v : v \in Advice!CategoriesIn(e, f)
                <=> \E w \in Advice!CategoriesIn(d, f) : v = Advice!Mapped(map, f, w)
  <2>1. Advice!IsField(d.fields[f])
    BY DatasetTells
  <2>2. /\ DOMAIN e.fields[f].categories = DOMAIN d.fields[f].categories
        /\ \A i \in DOMAIN d.fields[f].categories :
                e.fields[f].categories[i] = Advice!Mapped(map, f, d.fields[f].categories[i])
    <3> DEFINE x == d.fields[f]
    <3>1. e.fields[f] = Advice!Recategorised(x, f, map)
      BY <1>1
    <3>2. Advice!IsField(x)
      BY <2>1
    <3> HIDE DEF x
    <3>3. IsRecategorised(x, f, map, e.fields[f])
      BY <3>1, <3>2, RecategorisedTells
    <3> QED BY <3>3 DEF x, IsRecategorised
  <2> QED BY <2>2 DEF Advice!CategoriesIn, Advice!ToSet
<1>3. \A i \in DOMAIN d.constraints :
        /\ Advice!IsConstraint(d.constraints[i])
        /\ e.constraints[i].on = d.constraints[i].on
        /\ e.constraints[i].equals = IF d.constraints[i].on = None THEN d.constraints[i].equals
                                     ELSE Advice!Mapped(map, d.constraints[i].on, d.constraints[i].equals)
  <2> SUFFICES ASSUME NEW i \in DOMAIN d.constraints
               PROVE  /\ Advice!IsConstraint(d.constraints[i])
                      /\ e.constraints[i].on = d.constraints[i].on
                      /\ e.constraints[i].equals = IF d.constraints[i].on = None THEN d.constraints[i].equals
                                     ELSE Advice!Mapped(map, d.constraints[i].on, d.constraints[i].equals)
    OBVIOUS
  <2>1. Advice!IsConstraint(d.constraints[i])
    BY DatasetTells
  <2>2. e.constraints[i] = Advice!Reconditioned(d.constraints[i], map)
    BY <1>1
  <2> QED BY <2>1, <2>2, ReconditionedTells
<1>4. /\ \A k : k \in Advice!Conditions(d) <=> \E i \in DOMAIN d.constraints : k = d.constraints[i] /\ k.on # None
      /\ \A k : k \in Advice!Conditions(e) <=> \E i \in DOMAIN d.constraints : k = e.constraints[i] /\ k.on # None
  <2>1. DOMAIN e.constraints = DOMAIN d.constraints
    BY <1>1
  <2>2. \A k : k \in Advice!Conditions(e) <=> \E i \in DOMAIN e.constraints : k = e.constraints[i] /\ k.on # None
    BY <1>1, DatasetTells
  <2>3. \A k : k \in Advice!Conditions(d) <=> \E i \in DOMAIN d.constraints : k = d.constraints[i] /\ k.on # None
    BY DatasetTells
  <2> QED BY <2>1, <2>2, <2>3
<1>5. ASSUME NEW k \in Advice!Conditions(e)
      PROVE  \E j \in Advice!Conditions(d) : k.on = j.on /\ k.equals = Advice!Mapped(map, j.on, j.equals)
  <2>1. PICK i \in DOMAIN d.constraints : k = e.constraints[i] /\ k.on # None
    BY <1>4
  <2>2. d.constraints[i] \in Advice!Conditions(d)
    BY <1>3, <1>4, <2>1
  <2> QED BY <1>3, <2>1, <2>2
<1>6. ASSUME NEW j \in Advice!Conditions(d)
      PROVE  \E k \in Advice!Conditions(e) : k.on = j.on /\ k.equals = Advice!Mapped(map, j.on, j.equals)
  <2>1. PICK i \in DOMAIN d.constraints : j = d.constraints[i] /\ j.on # None
    BY <1>4
  <2>2. e.constraints[i] \in Advice!Conditions(e)
    BY <1>3, <1>4, <2>1
  <2> QED BY <1>3, <2>1, <2>2
<1> QED BY <1>2, <1>5, <1>6

\* What is stripped has the same values.
LEMMA StrippedValues ==
    ASSUME NEW d, Advice!IsDataset(d), NEW e, e = Advice!Stripped(d)
    PROVE  /\ \A f \in DOMAIN d.fields : /\ e.fields[f].categories = d.fields[f].categories
                                         /\ e.fields[f].local = None /\ e.fields[f].semantic \in AdviceTypes \cup {None}
           /\ \A f \in DOMAIN d.fields : Advice!CategoriesIn(e, f) = Advice!CategoriesIn(d, f)
           /\ \A k \in Advice!Conditions(e) : \E j \in Advice!Conditions(d) : k.on = j.on /\ k.equals = j.equals
           /\ \A i \in DOMAIN e.constraints : e.constraints[i].local = None
<1>1. /\ Advice!IsDataset(e) /\ DOMAIN e.fields = DOMAIN d.fields
      /\ \A f \in DOMAIN d.fields :
            IsStripped(d.fields[f], e.fields[f])
      /\ e.constraints = [i \in DOMAIN d.constraints |-> [d.constraints[i] EXCEPT !.local = None]]
  <2>1. Advice!IsDataset(e) /\ DOMAIN e.fields = DOMAIN d.fields
    BY StrippedTells
  <2>2. \A f \in DOMAIN d.fields :
 IsStripped(d.fields[f], e.fields[f])
    BY StrippedTells
  <2>3. e.constraints = [i \in DOMAIN d.constraints |-> [d.constraints[i] EXCEPT !.local = None]]
    BY StrippedTells
  <2> QED BY <2>1, <2>2, <2>3
<1>2. ASSUME NEW f \in DOMAIN d.fields
      PROVE  /\ e.fields[f].categories = d.fields[f].categories
             /\ e.fields[f].local = None /\ e.fields[f].semantic \in AdviceTypes \cup {None}
  BY <1>1 DEF Known, IsStripped
<1>3. \A i \in DOMAIN d.constraints :
        /\ e.constraints[i].local = None /\ e.constraints[i].on = d.constraints[i].on
        /\ e.constraints[i].equals = d.constraints[i].equals
  <2> SUFFICES ASSUME NEW i \in DOMAIN d.constraints
               PROVE  /\ e.constraints[i].local = None /\ e.constraints[i].on = d.constraints[i].on
                      /\ e.constraints[i].equals = d.constraints[i].equals
    OBVIOUS
  <2>1. Advice!IsConstraint(d.constraints[i])
    BY DatasetTells
  <2>2. e.constraints[i] = [d.constraints[i] EXCEPT !.local = None]
    BY <1>1
  <2> QED BY <2>1, <2>2, UnlocatedTells
<1>4. DOMAIN e.constraints = DOMAIN d.constraints
  BY <1>1
<1>5. ASSUME NEW k \in Advice!Conditions(e)
      PROVE  \E j \in Advice!Conditions(d) : k.on = j.on /\ k.equals = j.equals
  <2>1. PICK i \in DOMAIN d.constraints : k = e.constraints[i] /\ k.on # None
    BY <1>1, <1>4, DatasetTells
  <2>2. d.constraints[i] \in Advice!Conditions(d)
    BY <1>3, <2>1, DatasetTells
  <2> QED BY <1>3, <2>1, <2>2
<1>6. \A f \in DOMAIN d.fields : Advice!CategoriesIn(e, f) = Advice!CategoriesIn(d, f)
  BY <1>2 DEF Advice!CategoriesIn
<1> QED BY <1>2, <1>3, <1>4, <1>5, <1>6

\* A profile and a specification that can be told: every condition is on a
\* value that a field has.
Tellable(p, s) ==
    /\ Advice!IsDataset(p) /\ Advice!IsDataset(s) /\ DOMAIN p.fields = DOMAIN s.fields
    /\ \A k \in Advice!Conditions(p) \cup Advice!Conditions(s) :
        k.on \in DOMAIN p.fields /\ k.equals \in ValuesOf(p, s, k.on)

\* A map that has a value for every value.
Maps(map, p, s) ==
    DOMAIN map = DOMAIN p.fields /\ \A f \in DOMAIN p.fields : DOMAIN map[f] = ValuesOf(p, s, f)

\* Categories and what conditions ask for are all values of fields.
LEMMA AllAreValues ==
    ASSUME NEW p, NEW s, Tellable(p, s)
    PROVE  Advice!AllValues(p) \cup Advice!AllValues(s) = UNION {ValuesOf(p, s, f) : f \in DOMAIN p.fields}
  BY DEF Tellable, Advice!AllValues, Advice!AllCategories, ValuesOf

\* Of a data set whose values all have labels, the labels are all that is left.
LEMMA RelabelledTells ==
    ASSUME NEW p, NEW s, Tellable(p, s), NEW map, Maps(map, p, s),
           NEW pp, NEW ss, pp = Advice!Replaced(p, map), ss = Advice!Replaced(s, map)
    PROVE  /\ Tellable(pp, ss) /\ DOMAIN pp.fields = DOMAIN p.fields
           /\ \A f \in DOMAIN p.fields : ValuesOf(pp, ss, f) = {map[f][v] : v \in ValuesOf(p, s, f)}
<1> USE DEF Tellable
<1>1. /\ Advice!IsDataset(pp) /\ Advice!IsDataset(ss)
      /\ DOMAIN pp.fields = DOMAIN p.fields /\ DOMAIN ss.fields = DOMAIN p.fields
  <2>1. Advice!IsDataset(pp) /\ DOMAIN pp.fields = DOMAIN p.fields
    BY ReplacedTells, ZenonT(60)
  <2>2. Advice!IsDataset(ss) /\ DOMAIN ss.fields = DOMAIN s.fields
    BY ReplacedTells, ZenonT(60)
  <2> QED BY <2>1, <2>2
<1>2. ASSUME NEW f \in DOMAIN p.fields
      PROVE  ValuesOf(pp, ss, f) = {map[f][v] : v \in ValuesOf(p, s, f)}
  <2>1. \A v \in ValuesOf(p, s, f) : Advice!Mapped(map, f, v) = map[f][v]
    BY DEF Maps, Advice!Mapped
  <2>2. \A v : v \in Advice!CategoriesIn(pp, f) <=> \E w \in Advice!CategoriesIn(p, f) : v = Advice!Mapped(map, f, w)
    BY ReplacedValues
  <2>3. \A v : v \in Advice!CategoriesIn(ss, f) <=> \E w \in Advice!CategoriesIn(s, f) : v = Advice!Mapped(map, f, w)
    BY ReplacedValues
  <2> QED BY <2>1, <2>2, <2>3 DEF ValuesOf
<1>3. ASSUME NEW d \in {p, s}, NEW k \in Advice!Conditions(Advice!Replaced(d, map))
      PROVE  k.on \in DOMAIN p.fields /\ k.equals \in ValuesOf(pp, ss, k.on)
  <2>1. PICK j \in Advice!Conditions(d) : k.on = j.on /\ k.equals = Advice!Mapped(map, j.on, j.equals)
    BY ReplacedValues
  <2>2. j.on \in DOMAIN p.fields /\ j.equals \in ValuesOf(p, s, j.on)
    OBVIOUS
  <2>3. Advice!Mapped(map, j.on, j.equals) = map[j.on][j.equals]
    BY <2>2 DEF Maps, Advice!Mapped
  <2> QED BY <1>2, <2>1, <2>2, <2>3
<1> QED BY <1>1, <1>2, <1>3

\* What may be told may be told without its local data.
LEMMA StrippedIsTellable ==
    ASSUME NEW p, NEW s, Tellable(p, s), NEW pp, NEW ss, pp = Advice!Stripped(p), ss = Advice!Stripped(s)
    PROVE  /\ Tellable(pp, ss) /\ DOMAIN pp.fields = DOMAIN p.fields
           /\ \A f \in DOMAIN p.fields : ValuesOf(pp, ss, f) = ValuesOf(p, s, f)
<1> USE DEF Tellable
<1>1. /\ Advice!IsDataset(pp) /\ Advice!IsDataset(ss)
      /\ DOMAIN pp.fields = DOMAIN p.fields /\ DOMAIN ss.fields = DOMAIN p.fields
  BY StrippedTells
<1>2. \A f \in DOMAIN p.fields : ValuesOf(pp, ss, f) = ValuesOf(p, s, f)
  BY StrippedValues DEF ValuesOf
<1>3. ASSUME NEW d \in {p, s}, NEW k \in Advice!Conditions(Advice!Stripped(d))
      PROVE  k.on \in DOMAIN p.fields /\ k.equals \in ValuesOf(pp, ss, k.on)
  <2>1. PICK j \in Advice!Conditions(d) : k.on = j.on /\ k.equals = j.equals
    BY StrippedValues
  <2> QED BY <1>2, <2>1
<1> QED BY <1>1, <1>2, <1>3

\* Finitely many values are listed.
LEMMA ValuesAreFinite ==
    ASSUME NEW d, Advice!IsDataset(d)
    PROVE  IsFiniteSet(Advice!AllCategories(d))
<1> DEFINE lists == {Advice!CategoriesIn(d, f) : f \in DOMAIN d.fields}
<1>1. \A w \in lists : IsFiniteSet(w)
  <2>1. ASSUME NEW f \in DOMAIN d.fields PROVE IsFiniteSet(Advice!CategoriesIn(d, f))
    <3>1. d.fields[f].categories \in Seq(Advice!ToSet(d.fields[f].categories))
      BY DEF Advice!IsDataset, Advice!IsField
    <3> QED BY <3>1, ListsAreFinite DEF Advice!CategoriesIn
  <2> QED BY <2>1
<1>2. IsFiniteSet(DOMAIN d.fields)
  BY AdviceCounts DEF Advice!IsDataset
<1>3. [f \in DOMAIN d.fields |-> Advice!CategoriesIn(d, f)] \in Surjection(DOMAIN d.fields, lists)
  BY DEF Surjection
<1>4. IsFiniteSet(lists)
  BY <1>2, <1>3, FS_Surjection
<1> HIDE DEF lists
<1>5. IsFiniteSet(UNION lists)
  BY <1>1, <1>4, FS_UNION
<1> QED BY <1>5 DEF lists, Advice!AllCategories

-----------------------------------------------------------------------------
(* What may be told.                                                       *)

\* What is taken when labels are given.
Taken(q) == Advice!AllCategories(q.profile) \cup Advice!AllCategories(q.spec)

\* The labels of a projection.
LabelsOf(family, q) ==
    [f \in DOMAIN q.profile.fields |-> Advice!Labelling(family, q.profile, q.spec, f, {}, Taken(q))]

\* Labels are given to all values of a request, each field's own.
LEMMA LabelsTell ==
    ASSUME NEW q, Tellable(q.profile, q.spec), NEW family, NEW map, map = LabelsOf(family, q)
    PROVE  /\ Maps(map, q.profile, q.spec)
           /\ \A f \in DOMAIN q.profile.fields :
                OwnLabels(map[f], family, f, ValuesOf(q.profile, q.spec, f), Taken(q))
<1>1. IsFiniteSet(Taken(q))
  <2>1. IsFiniteSet(Advice!AllCategories(q.profile)) /\ IsFiniteSet(Advice!AllCategories(q.spec))
    BY ValuesAreFinite DEF Tellable
  <2> QED BY <2>1, FS_Union DEF Taken
<1>2. ASSUME NEW f \in DOMAIN q.profile.fields
      PROVE  OwnLabels(map[f], family, f, ValuesOf(q.profile, q.spec, f), Taken(q))
  <2>1. map[f] = Advice!Labelling(family, q.profile, q.spec, f, {}, Taken(q))
    BY DEF LabelsOf
  <2>2. f \in DOMAIN q.spec.fields /\ Advice!IsDataset(q.profile) /\ Advice!IsDataset(q.spec)
    BY DEF Tellable
  <2>3. OwnLabels(map[f], family, f, ValuesOf(q.profile, q.spec, f) \ {}, Taken(q))
    BY <1>1, <2>1, <2>2, LabellingTells
  <2>4. ValuesOf(q.profile, q.spec, f) \ {} = ValuesOf(q.profile, q.spec, f)
    OBVIOUS
  <2> QED BY <2>3, <2>4
<1>3. \A f \in DOMAIN q.profile.fields : DOMAIN map[f] = ValuesOf(q.profile, q.spec, f)
  BY <1>2 DEF OwnLabels
<1>4. DOMAIN map = DOMAIN q.profile.fields
  BY DEF LabelsOf
<1> QED BY <1>2, <1>3, <1>4 DEF Maps

\* What a projection is.
LEMMA ProjectIs ==
    ASSUME NEW q, NEW family, NEW r, r = Advice!Project(family, q), NEW map, map = LabelsOf(family, q)
    PROVE  /\ r.told.profile = Advice!Replaced(Advice!Stripped(q.profile), map)
           /\ r.told.spec = Advice!Replaced(Advice!Stripped(q.spec), map)
           /\ r.original = q.spec /\ r.projected = Advice!Stripped(q.spec)
           /\ DOMAIN r.back = DOMAIN map
           /\ \A f \in DOMAIN map : r.back[f] =
                [l \in {map[f][v] : v \in DOMAIN map[f]} |-> CHOOSE v \in DOMAIN map[f] : map[f][v] = l]
<1> DEFINE m == LabelsOf(family, q)
<1>1. r = [told |-> [profile |-> Advice!Replaced(Advice!Stripped(q.profile), map),
                     spec |-> Advice!Replaced(Advice!Stripped(q.spec), map)],
           back |-> [f \in DOMAIN map |-> [l \in Advice!Range(map[f]) |-> CHOOSE v \in DOMAIN map[f] : map[f][v] = l]],
           original |-> q.spec, projected |-> Advice!Stripped(q.spec)]
  <2>1. r = [told |-> [profile |-> Advice!Replaced(Advice!Stripped(q.profile), m),
                     spec |-> Advice!Replaced(Advice!Stripped(q.spec), m)],
             back |-> [f \in DOMAIN m |-> [l \in Advice!Range(m[f]) |-> CHOOSE v \in DOMAIN m[f] : m[f][v] = l]],
             original |-> q.spec, projected |-> Advice!Stripped(q.spec)]
    BY Zenon DEF Advice!Project, LabelsOf, Taken
  <2>2. map = m
    OBVIOUS
  <2> HIDE DEF m
  <2> QED BY <2>1, <2>2
<1>2. \A f \in DOMAIN map : Advice!Range(map[f]) = {map[f][v] : v \in DOMAIN map[f]}
  BY DEF Advice!Range
<1>3. /\ r.told = [profile |-> Advice!Replaced(Advice!Stripped(q.profile), map),
                     spec |-> Advice!Replaced(Advice!Stripped(q.spec), map)]
      /\ r.back = [f \in DOMAIN map |->
            [l \in Advice!Range(map[f]) |-> CHOOSE v \in DOMAIN map[f] : map[f][v] = l]]
      /\ r.original = q.spec /\ r.projected = Advice!Stripped(q.spec)
  BY <1>1
<1>4. /\ DOMAIN r.back = DOMAIN map
      /\ \A f \in DOMAIN map : r.back[f]
            = [l \in Advice!Range(map[f]) |-> CHOOSE v \in DOMAIN map[f] : map[f][v] = l]
  BY <1>3
<1>5. \A f \in DOMAIN map : r.back[f]
        = [l \in {map[f][v] : v \in DOMAIN map[f]} |-> CHOOSE v \in DOMAIN map[f] : map[f][v] = l]
  BY <1>2, <1>4
<1>6. /\ r.told.profile = Advice!Replaced(Advice!Stripped(q.profile), map)
      /\ r.told.spec = Advice!Replaced(Advice!Stripped(q.spec), map)
  BY <1>3
<1> QED BY <1>3, <1>4, <1>5, <1>6

\* What a projection tells: labels of its family, and nothing that is local.
ToldOnly(d, family, values_) ==
    /\ \A v \in Advice!AllValues(d) : Advice!IsLabel(v, {family}) /\ v \notin values_
    /\ d.settings.locale = None /\ \A k \in Advice!ToSet(d.constraints) : k.local = None
    /\ \A f \in DOMAIN d.fields : d.fields[f].local = None /\ d.fields[f].semantic \in AdviceTypes \cup {None}

\* Semantic types and data that are stripped are gone for good.
LEMMA StrippedStays ==
    ASSUME NEW d, Advice!IsDataset(d), NEW map, NEW e, e = Advice!Replaced(Advice!Stripped(d), map)
    PROVE  /\ e.settings.locale = None /\ \A k \in Advice!ToSet(e.constraints) : k.local = None
           /\ \A f \in DOMAIN e.fields : e.fields[f].local = None /\ e.fields[f].semantic \in AdviceTypes \cup {None}
<1> DEFINE t == Advice!Stripped(d)
<1>1. Advice!IsDataset(t) /\ t.settings = [core |-> d.settings.core, locale |-> None] /\ DOMAIN t.fields = DOMAIN d.fields
  BY StrippedTells
<1>2. /\ \A f \in DOMAIN t.fields : t.fields[f].local = None /\ t.fields[f].semantic \in AdviceTypes \cup {None}
      /\ \A i \in DOMAIN t.constraints : t.constraints[i].local = None
  BY <1>1, StrippedValues
<1>3. e = Advice!Replaced(t, map)
  OBVIOUS
<1> HIDE DEF t
<1>4. /\ Advice!IsDataset(e) /\ e.settings = t.settings /\ DOMAIN e.fields = DOMAIN t.fields
      /\ \A f \in DOMAIN t.fields : e.fields[f] = Advice!Recategorised(t.fields[f], f, map)
      /\ e.constraints = [i \in DOMAIN t.constraints |-> Advice!Reconditioned(t.constraints[i], map)]
  BY <1>1, <1>3, ReplacedTells
<1>5. ASSUME NEW f \in DOMAIN e.fields
      PROVE  e.fields[f].local = None /\ e.fields[f].semantic \in AdviceTypes \cup {None}
  <2>1. Advice!IsField(t.fields[f])
    BY <1>1, <1>4, DatasetTells
  <2>2. IsRecategorised(t.fields[f], f, map, e.fields[f])
    BY <1>4, <2>1, RecategorisedTells
  <2> QED BY <1>2, <1>4, <2>2 DEF IsRecategorised
<1>6. ASSUME NEW k \in Advice!ToSet(e.constraints) PROVE k.local = None
  <2>1. PICK i \in DOMAIN t.constraints : k = e.constraints[i]
    BY <1>4 DEF Advice!ToSet
  <2>2. k = Advice!Reconditioned(t.constraints[i], map) /\ Advice!IsConstraint(t.constraints[i])
    BY <1>1, <1>4, <2>1, DatasetTells
  <2>3. k.local = t.constraints[i].local
    BY <2>2, ReconditionedTells
  <2> QED BY <1>2, <2>3
<1> QED BY <1>1, <1>4, <1>5, <1>6

\* The values that are told are the labels.
ValuesTold(q, told, map) ==
    \A f \in DOMAIN q.profile.fields :
        ValuesOf(told.profile, told.spec, f) = {map[f][v] : v \in ValuesOf(q.profile, q.spec, f)}

\* What is told of a request by a projection: labels of its own for all values.
IsProjected(told, family, q) ==
    /\ Tellable(told.profile, told.spec) /\ DOMAIN told.profile.fields = DOMAIN q.profile.fields
    /\ ValuesTold(q, told, LabelsOf(family, q))
    /\ \A d \in {told.profile, told.spec} :
        ToldOnly(d, family, Advice!AllValues(q.profile) \cup Advice!AllValues(q.spec))

\* A projection has labels only, and its way back.
LEMMA ProjectTells ==
    ASSUME NEW q, Tellable(q.profile, q.spec), NEW family, NEW r, r = Advice!Project(family, q)
    PROVE  IsProjected(r.told, family, q)
<1> DEFINE map == LabelsOf(family, q)
           p == Advice!Stripped(q.profile)
           s == Advice!Stripped(q.spec)
           told == r.told
<1>1. told.profile = Advice!Replaced(p, map) /\ told.spec = Advice!Replaced(s, map)
  BY ProjectIs
<1>2. Tellable(p, s) /\ DOMAIN p.fields = DOMAIN q.profile.fields
      /\ \A f \in DOMAIN p.fields : ValuesOf(p, s, f) = ValuesOf(q.profile, q.spec, f)
  BY StrippedIsTellable
<1>3. Maps(map, p, s)
  <2>1. Maps(map, q.profile, q.spec)
    BY LabelsTell
  <2> QED BY <1>2, <2>1 DEF Maps
<1>4. \A f \in DOMAIN q.profile.fields : OwnLabels(map[f], family, f, ValuesOf(q.profile, q.spec, f), Taken(q))
  BY LabelsTell
<1> HIDE DEF map, told
<1>5. /\ Tellable(told.profile, told.spec) /\ DOMAIN told.profile.fields = DOMAIN p.fields
      /\ \A f \in DOMAIN p.fields : ValuesOf(told.profile, told.spec, f) = {map[f][v] : v \in ValuesOf(p, s, f)}
  <2> HIDE DEF p, s
  <2> QED BY <1>1, <1>2, <1>3, RelabelledTells
<1>6. \A f \in DOMAIN q.profile.fields :
        ValuesOf(told.profile, told.spec, f) = {map[f][v] : v \in ValuesOf(q.profile, q.spec, f)}
  <2> HIDE DEF p, s
  <2> QED BY <1>2, <1>5
<1>7. Advice!AllValues(q.profile) \cup Advice!AllValues(q.spec) \subseteq Taken(q)
  <2>1. Advice!AllValues(q.profile) \cup Advice!AllValues(q.spec)
            = UNION {ValuesOf(q.profile, q.spec, f) : f \in DOMAIN q.profile.fields}
    BY AllAreValues
  <2>2. \A f \in DOMAIN q.profile.fields : ValuesOf(q.profile, q.spec, f) \subseteq Taken(q)
    BY DEF ValuesOf, Taken, Advice!AllCategories, Tellable
  <2> QED BY <2>1, <2>2
<1>8. \A v \in Advice!AllValues(told.profile) \cup Advice!AllValues(told.spec) :
        Advice!IsLabel(v, {family}) /\ v \notin Taken(q)
  <2>1. Advice!AllValues(told.profile) \cup Advice!AllValues(told.spec)
            = UNION {ValuesOf(told.profile, told.spec, f) : f \in DOMAIN told.profile.fields}
    <3> HIDE DEF p, s
    <3> QED BY <1>5, AllAreValues
  <2> SUFFICES ASSUME NEW v \in Advice!AllValues(told.profile) \cup Advice!AllValues(told.spec)
               PROVE  Advice!IsLabel(v, {family}) /\ v \notin Taken(q)
    OBVIOUS
  <2>2. PICK f \in DOMAIN told.profile.fields : v \in ValuesOf(told.profile, told.spec, f)
    BY <2>1
  <2>3. f \in DOMAIN q.profile.fields
    <3> HIDE DEF p, s
    <3> QED BY <1>2, <1>5
  <2>4. PICK w \in ValuesOf(q.profile, q.spec, f) : v = map[f][w]
    BY <1>6, <2>2, <2>3
  <2> QED BY <1>4, <2>3, <2>4 DEF OwnLabels
<1>9. ASSUME NEW d \in {told.profile, told.spec}
      PROVE  ToldOnly(d, family, Advice!AllValues(q.profile) \cup Advice!AllValues(q.spec))
  <2>1. /\ d.settings.locale = None /\ \A k \in Advice!ToSet(d.constraints) : k.local = None
        /\ \A f \in DOMAIN d.fields : d.fields[f].local = None /\ d.fields[f].semantic \in AdviceTypes \cup {None}
    <3>1. CASE d = told.profile
      <4>1. d = Advice!Replaced(Advice!Stripped(q.profile), map) /\ Advice!IsDataset(q.profile)
        BY <1>1, <3>1 DEF Tellable
      <4> QED BY <4>1, StrippedStays
    <3>2. CASE d = told.spec
      <4>1. d = Advice!Replaced(Advice!Stripped(q.spec), map) /\ Advice!IsDataset(q.spec)
        BY <1>1, <3>2 DEF Tellable
      <4> QED BY <4>1, StrippedStays
    <3> QED BY <3>1, <3>2
  <2> QED BY <1>7, <1>8, <2>1 DEF ToldOnly
<1>10. DOMAIN told.profile.fields = DOMAIN q.profile.fields
  <2> HIDE DEF p, s
  <2> QED BY <1>2, <1>5
<1>11. ValuesTold(q, told, map)
  BY <1>6 DEF ValuesTold
<1> QED BY <1>5, <1>9, <1>10, <1>11 DEF map, told, IsProjected

-----------------------------------------------------------------------------

\* A request that is made is of a specification that fits the profile.
LEMMA BuildTells ==
    ASSUME NEW p, Advice!IsDataset(p), NEW s, Advice!IsDataset(s),
           NEW q, q = Advice!Build(p, s, Advice!NothingKept(p)), q # None
    PROVE  /\ Advice!FitsProfile(p, s) /\ Tellable(p, s)
           /\ \E map : /\ Maps(map, p, s) /\ q.profile = Advice!Replaced(p, map) /\ q.spec = Advice!Replaced(s, map)
           /\ Tellable(q.profile, q.spec) /\ q = [profile |-> q.profile, spec |-> q.spec]
<1> DEFINE kept == Advice!NothingKept(p)
           map == Advice!Sanitizing(p, s, kept)
           taken == Advice!AllCategories(p) \cup Advice!AllCategories(s) \cup UNION Advice!Range(kept)
           found(f) == IF f \in p.allowed \cup s.allowed
                       THEN [v \in Advice!CategoriesIn(p, f) \cup Advice!CategoriesIn(s, f) |-> v]
                       ELSE Advice!Labelling("a", p, s, f, kept[f], taken)
<1>1. /\ Advice!FitsProfile(p, s) /\ Advice!Represented(p, map) /\ Advice!Represented(s, map)
      /\ q = [profile |-> Advice!Replaced(p, map), spec |-> Advice!Replaced(s, map)]
  <2> HIDE DEF map
  <2>1. q = IF Advice!FitsProfile(p, s) /\ Advice!Represented(p, map) /\ Advice!Represented(s, map)
            THEN [profile |-> Advice!Replaced(p, map), spec |-> Advice!Replaced(s, map)] ELSE None
    BY Zenon DEF Advice!Build, map
  <2> QED BY <2>1
<1>2. DOMAIN p.fields = DOMAIN s.fields
  BY <1>1 DEF Advice!FitsProfile, Advice!IsDataset
<1>3. kept = [f \in DOMAIN p.fields |-> {}]
  BY DEF Advice!NothingKept
<1>4. map = [f \in DOMAIN p.fields |->
                [v \in DOMAIN found(f) \cup kept[f] |-> IF v \in kept[f] THEN v ELSE found(f)[v]]]
  BY Zenon DEF Advice!Sanitizing
<1> HIDE DEF kept, map
<1>5. IsFiniteSet(taken)
  <2>1. UNION Advice!Range(kept) = {}
    BY <1>3 DEF Advice!Range
  <2>2. taken = Advice!AllCategories(p) \cup Advice!AllCategories(s)
    BY <2>1
  <2> HIDE DEF taken
  <2> QED BY <2>2, ValuesAreFinite, FS_Union
<1> HIDE DEF taken
<1>6. ASSUME NEW f \in DOMAIN p.fields PROVE DOMAIN map[f] = ValuesOf(p, s, f)
  <2>1. DOMAIN map[f] = DOMAIN found(f)
    <3> HIDE DEF found
    <3> QED BY <1>3, <1>4
  <2>2. CASE f \in p.allowed \cup s.allowed
    BY <2>1, <2>2 DEF ValuesOf
  <2>3. CASE f \notin p.allowed \cup s.allowed
    <3>1. found(f) = Advice!Labelling("a", p, s, f, {}, taken)
      BY <1>3, <2>3
    <3>2. OwnLabels(found(f), "a", f, ValuesOf(p, s, f) \ {}, taken)
      <4> HIDE DEF found
      <4> QED BY <1>2, <1>5, <3>1, LabellingTells
    <3> HIDE DEF found
    <3> QED BY <2>1, <3>2 DEF OwnLabels
  <2> QED BY <2>2, <2>3
<1>7. DOMAIN map = DOMAIN p.fields
  BY <1>4
<1>8. Maps(map, p, s)
  BY <1>6, <1>7 DEF Maps
<1>9. Tellable(p, s)
  <2>1. ASSUME NEW k \in Advice!Conditions(p) \cup Advice!Conditions(s)
        PROVE  k.on \in DOMAIN p.fields /\ k.equals \in ValuesOf(p, s, k.on)
    <3>1. k.on \in DOMAIN map /\ k.equals \in DOMAIN map[k.on]
      BY <1>1 DEF Advice!Represented
    <3> QED BY <1>6, <1>7, <3>1
  <2> QED BY <1>2, <2>1 DEF Tellable
<1>10. Tellable(q.profile, q.spec)
  <2>1. q.profile = Advice!Replaced(p, map) /\ q.spec = Advice!Replaced(s, map)
    BY <1>1
  <2> QED BY <1>8, <1>9, <2>1, RelabelledTells
<1> QED BY <1>1, <1>8, <1>9, <1>10

\* Data sets whose parts are equal are equal.
FieldsEqual(x, y) ==
    /\ x.type = y.type /\ x.sensitive = y.sensitive /\ x.identifier = y.identifier
    /\ x.semantic = y.semantic /\ x.local = y.local /\ x.categories = y.categories
ConstraintsEqual(k, j) ==
    /\ k.type = j.type /\ k.targets = j.targets /\ k.from = j.from /\ k.on = j.on
    /\ k.equals = j.equals /\ k.local = j.local

\* Fields of equal parts are equal.
LEMMA FieldsAgree ==
    ASSUME NEW x, NEW y, Advice!IsField(x), Advice!IsField(y), FieldsEqual(x, y)
    PROVE  x = y
  BY DEF Advice!IsField, FieldsEqual

\* Constraints of equal parts are equal.
LEMMA ConstraintsAgree ==
    ASSUME NEW k, NEW j, Advice!IsConstraint(k), Advice!IsConstraint(j), ConstraintsEqual(k, j)
    PROVE  k = j
  BY DEF Advice!IsConstraint, ConstraintsEqual

\* So are data sets.
LEMMA DatasetsAgree ==
    ASSUME NEW d, NEW e, Advice!IsDataset(d), Advice!IsDataset(e),
           d.names = e.names, d.allowed = e.allowed, d.key = e.key, d.settings = e.settings,
           DOMAIN d.fields = DOMAIN e.fields, \A f \in DOMAIN d.fields : FieldsEqual(d.fields[f], e.fields[f]),
           Len(d.constraints) = Len(e.constraints),
           \A i \in DOMAIN d.constraints : ConstraintsEqual(d.constraints[i], e.constraints[i])
    PROVE  d = e
<1>1. \A f \in DOMAIN d.fields : d.fields[f] = e.fields[f]
  <2> SUFFICES ASSUME NEW f \in DOMAIN d.fields PROVE d.fields[f] = e.fields[f]
    OBVIOUS
  <2>1. Advice!IsField(d.fields[f]) /\ Advice!IsField(e.fields[f])
    BY DatasetTells
  <2> QED BY <2>1, FieldsAgree
<1>2. d.fields = e.fields
  <2>1. d.fields = [f \in DOMAIN d.fields |-> d.fields[f]] /\ e.fields = [f \in DOMAIN e.fields |-> e.fields[f]]
    BY DEF Advice!IsDataset
  <2> QED BY <1>1, <2>1
<1>3. \A i \in DOMAIN d.constraints : d.constraints[i] = e.constraints[i]
  <2> SUFFICES ASSUME NEW i \in DOMAIN d.constraints PROVE d.constraints[i] = e.constraints[i]
    OBVIOUS
  <2>0. i \in DOMAIN e.constraints
    BY DatasetTells
  <2>1. Advice!IsConstraint(d.constraints[i]) /\ Advice!IsConstraint(e.constraints[i])
    BY <2>0, DatasetTells
  <2> QED BY <2>1, ConstraintsAgree
<1>4. d.constraints = e.constraints
  <2> DEFINE s == d.constraints
             t == e.constraints
  <2>1. s \in Seq(Advice!ToSet(s)) /\ t \in Seq(Advice!ToSet(t))
    BY DEF Advice!IsDataset
  <2>2. Len(s) = Len(t) /\ \A i \in 1..Len(s) : s[i] = t[i]
    BY <1>3, <2>1
  <2> HIDE DEF s, t
  <2>3. s = t
    BY <2>1, <2>2
  <2> QED BY <2>3 DEF s, t
<1>5. /\ d = [names |-> d.names, fields |-> d.fields, constraints |-> d.constraints, allowed |-> d.allowed,
              key |-> d.key, settings |-> d.settings]
      /\ e = [names |-> e.names, fields |-> e.fields, constraints |-> e.constraints, allowed |-> e.allowed,
              key |-> e.key, settings |-> e.settings]
  BY DEF Advice!IsDataset
<1> QED BY <1>2, <1>4, <1>5

\* Labels become values again.
Undoes(back, map, q) ==
    \A f \in DOMAIN q.profile.fields : \A v \in ValuesOf(q.profile, q.spec, f) :
        Advice!Mapped(back, f, Advice!Mapped(map, f, v)) = v

\* The way back of a projection makes every label its value.
LEMMA LabelsReturn ==
    ASSUME NEW q, Tellable(q.profile, q.spec), NEW family, NEW r, r = Advice!Project(family, q),
           NEW map, map = LabelsOf(family, q)
    PROVE  Undoes(r.back, map, q)
<1> SUFFICES ASSUME NEW f \in DOMAIN q.profile.fields, NEW v \in ValuesOf(q.profile, q.spec, f)
             PROVE  Advice!Mapped(r.back, f, Advice!Mapped(map, f, v)) = v
  BY DEF Undoes
<1>1. Maps(map, q.profile, q.spec) /\ OwnLabels(map[f], family, f, ValuesOf(q.profile, q.spec, f), Taken(q))
  BY LabelsTell
<1>2. /\ DOMAIN r.back = DOMAIN map
      /\ \A g \in DOMAIN map : r.back[g] =
            [l \in {map[g][w] : w \in DOMAIN map[g]} |-> CHOOSE w \in DOMAIN map[g] : map[g][w] = l]
  BY ProjectIs
<1>3. DOMAIN map = DOMAIN q.profile.fields /\ DOMAIN map[f] = ValuesOf(q.profile, q.spec, f)
  BY <1>1 DEF Maps
<1>4. Advice!Mapped(map, f, v) = map[f][v]
  BY <1>3 DEF Advice!Mapped
<1>5. \A w \in DOMAIN map[f] : map[f][w] = map[f][v] => w = v
  BY <1>1, <1>3 DEF OwnLabels
<1>6. r.back[f] = [l \in {map[f][w] : w \in DOMAIN map[f]} |-> CHOOSE w \in DOMAIN map[f] : map[f][w] = l]
  BY <1>2, <1>3
<1> HIDE <1>1, <1>2
<1>7. (CHOOSE w \in DOMAIN map[f] : map[f][w] = map[f][v]) = v
  BY <1>3, <1>5
<1>8. map[f][v] \in {map[f][w] : w \in DOMAIN map[f]}
  BY <1>3
<1>9. map[f][v] \in DOMAIN r.back[f] /\ r.back[f][map[f][v]] = v
  BY <1>6, <1>7, <1>8
<1>10. f \in DOMAIN r.back
  BY <1>2, <1>3
<1> QED BY <1>4, <1>9, <1>10 DEF Advice!Mapped

\* What was told, restored, is as it was before labels were given.
LEMMA ToldReturns ==
    ASSUME NEW q, Tellable(q.profile, q.spec), NEW family, NEW r, r = Advice!Project(family, q)
    PROVE  Advice!Replaced(r.told.spec, r.back) = r.projected
<1> DEFINE map == LabelsOf(family, q)
           t == Advice!Stripped(q.spec)
           e == r.told.spec
           d == Advice!Replaced(e, r.back)
<1>1. e = Advice!Replaced(t, map) /\ r.projected = t
  BY ProjectIs
<1>2. Advice!IsDataset(q.spec) /\ Advice!IsDataset(t) /\ DOMAIN t.fields = DOMAIN q.profile.fields
  <2>1. Advice!IsDataset(q.spec) /\ DOMAIN q.spec.fields = DOMAIN q.profile.fields
    BY DEF Tellable
  <2> QED BY <2>1, StrippedTells
<1>3. \A f \in DOMAIN q.profile.fields : \A v \in ValuesOf(q.profile, q.spec, f) :
        Advice!Mapped(r.back, f, Advice!Mapped(map, f, v)) = v
  <2>1. Undoes(r.back, LabelsOf(family, q), q)
    BY LabelsReturn
  <2> QED BY <2>1 DEF Undoes
<1>4. \A f \in DOMAIN t.fields : Advice!CategoriesIn(t, f) \subseteq ValuesOf(q.profile, q.spec, f)
  <2>1. \A f \in DOMAIN q.spec.fields : Advice!CategoriesIn(t, f) = Advice!CategoriesIn(q.spec, f)
    BY <1>2, StrippedValues
  <2>2. DOMAIN q.spec.fields = DOMAIN q.profile.fields
    BY DEF Tellable
  <2> QED BY <1>2, <2>1, <2>2 DEF ValuesOf
<1>5. \A k \in Advice!Conditions(t) : k.on \in DOMAIN q.profile.fields /\ k.equals \in ValuesOf(q.profile, q.spec, k.on)
  <2>1. \A k \in Advice!Conditions(t) : \E j \in Advice!Conditions(q.spec) : k.on = j.on /\ k.equals = j.equals
    BY <1>2, StrippedValues
  <2> QED BY <2>1 DEF Tellable
<1> HIDE DEF map, t
<1>6. /\ Advice!IsDataset(e)
      /\ e.names = t.names /\ e.allowed = t.allowed /\ e.key = t.key /\ e.settings = t.settings
      /\ DOMAIN e.fields = DOMAIN t.fields
      /\ \A f \in DOMAIN t.fields : e.fields[f] = Advice!Recategorised(t.fields[f], f, map)
      /\ e.constraints = [i \in DOMAIN t.constraints |-> Advice!Reconditioned(t.constraints[i], map)]
  BY <1>1, <1>2, ReplacedTells
<1> HIDE DEF e
<1>7. /\ Advice!IsDataset(d)
      /\ d.names = e.names /\ d.allowed = e.allowed /\ d.key = e.key /\ d.settings = e.settings
      /\ DOMAIN d.fields = DOMAIN e.fields
      /\ \A f \in DOMAIN e.fields : d.fields[f] = Advice!Recategorised(e.fields[f], f, r.back)
      /\ d.constraints = [i \in DOMAIN e.constraints |-> Advice!Reconditioned(e.constraints[i], r.back)]
  BY <1>6, ReplacedTells
<1> HIDE DEF d
<1>8. ASSUME NEW f \in DOMAIN d.fields PROVE FieldsEqual(d.fields[f], t.fields[f])
  <2>1. f \in DOMAIN e.fields /\ f \in DOMAIN t.fields
    BY <1>6, <1>7
  <2>2. Advice!IsField(t.fields[f]) /\ Advice!IsField(e.fields[f]) /\ Advice!IsField(d.fields[f])
    BY <1>2, <1>6, <1>7, <2>1, DatasetTells
  <2>3. e.fields[f] = Advice!Recategorised(t.fields[f], f, map)
    BY <1>6, <2>1
  <2>4. d.fields[f] = Advice!Recategorised(e.fields[f], f, r.back)
    BY <1>7, <2>1
  <2> DEFINE x == t.fields[f]
             y == e.fields[f]
             z == d.fields[f]
  <2>5. IsRecategorised(x, f, map, y) /\ IsRecategorised(y, f, r.back, z)
    BY <2>2, <2>3, <2>4, RecategorisedTells
  <2>6. \A i \in DOMAIN x.categories : x.categories[i] \in ValuesOf(q.profile, q.spec, f)
    BY <1>4, <2>1 DEF Advice!CategoriesIn, Advice!ToSet
  <2>7. f \in DOMAIN q.profile.fields
    BY <1>2, <2>1
  <2>8. x.categories = [i \in DOMAIN x.categories |-> x.categories[i]]
    <3>1. x.categories \in Seq(Advice!ToSet(x.categories))
      BY <2>2 DEF Advice!IsField
    <3> HIDE DEF x
    <3> QED BY <3>1
  <2> HIDE DEF x, y, z
  <2>9. \A i \in DOMAIN x.categories : z.categories[i] = x.categories[i]
    <3> SUFFICES ASSUME NEW i \in DOMAIN x.categories PROVE z.categories[i] = x.categories[i]
      OBVIOUS
    <3>1. DOMAIN y.categories = DOMAIN x.categories /\ y.categories[i] = Advice!Mapped(map, f, x.categories[i])
      BY <2>5 DEF IsRecategorised
    <3>2. z.categories[i] = Advice!Mapped(r.back, f, y.categories[i])
      BY <2>5, <3>1 DEF IsRecategorised
    <3> QED BY <1>3, <2>6, <2>7, <3>1, <3>2
  <2>10. z.categories = x.categories
    <3>1. DOMAIN y.categories = DOMAIN x.categories /\ z.categories = [i \in DOMAIN y.categories |-> z.categories[i]]
      BY <2>5 DEF IsRecategorised
    <3> QED BY <2>8, <2>9, <3>1
  <2>11. FieldsEqual(z, x)
    BY <2>5, <2>10 DEF IsRecategorised, FieldsEqual
  <2> QED BY <2>11 DEF x, z
<1>9. DOMAIN d.constraints = DOMAIN t.constraints /\ DOMAIN e.constraints = DOMAIN t.constraints
  BY <1>6, <1>7
<1>10. Len(d.constraints) = Len(t.constraints)
  <2>1. DOMAIN d.constraints = 1..Len(d.constraints) /\ Len(d.constraints) \in Nat
    BY <1>7, DatasetTells
  <2>2. DOMAIN t.constraints = 1..Len(t.constraints) /\ Len(t.constraints) \in Nat
    BY <1>2, DatasetTells
  <2> DEFINE m == Len(d.constraints)
             n == Len(t.constraints)
  <2>3. m \in Nat /\ n \in Nat /\ 1..m = 1..n
    BY <1>9, <2>1, <2>2
  <2> HIDE DEF m, n
  <2>4. m = n
    BY <2>3
  <2> QED BY <2>4 DEF m, n
<1>11. ASSUME NEW i \in DOMAIN d.constraints PROVE ConstraintsEqual(d.constraints[i], t.constraints[i])
  <2>1. Advice!IsConstraint(t.constraints[i]) /\ Advice!IsConstraint(e.constraints[i])
    BY <1>2, <1>6, <1>9, DatasetTells
  <2>2. e.constraints[i] = Advice!Reconditioned(t.constraints[i], map)
    BY <1>6, <1>9
  <2>3. d.constraints[i] = Advice!Reconditioned(e.constraints[i], r.back)
    BY <1>7, <1>9
  <2> DEFINE x == t.constraints[i]
             y == e.constraints[i]
             z == d.constraints[i]
  <2>4. x.on # None => x.on \in DOMAIN q.profile.fields /\ x.equals \in ValuesOf(q.profile, q.spec, x.on)
    <3>1. x.on # None => x \in Advice!Conditions(t)
      BY <1>2, <1>9, DatasetTells
    <3> QED BY <1>5, <3>1
  <2>5. /\ y.type = x.type /\ y.targets = x.targets /\ y.from = x.from /\ y.on = x.on /\ y.local = x.local
        /\ y.equals = IF x.on = None THEN x.equals ELSE Advice!Mapped(map, x.on, x.equals)
    BY <2>1, <2>2, ReconditionedTells
  <2>6. /\ z.type = y.type /\ z.targets = y.targets /\ z.from = y.from /\ z.on = y.on /\ z.local = y.local
        /\ z.equals = IF y.on = None THEN y.equals ELSE Advice!Mapped(r.back, y.on, y.equals)
    BY <2>1, <2>3, ReconditionedTells
  <2> HIDE DEF x, y, z
  <2>7. ConstraintsEqual(z, x)
    BY <1>3, <2>4, <2>5, <2>6 DEF ConstraintsEqual
  <2> QED BY <2>7 DEF x, z
<1>12. d = t
  <2>1. /\ d.names = t.names /\ d.allowed = t.allowed /\ d.key = t.key /\ d.settings = t.settings
        /\ DOMAIN d.fields = DOMAIN t.fields
    BY <1>6, <1>7
  <2> QED BY <1>2, <1>7, <1>8, <1>10, <1>11, <2>1, DatasetsAgree
<1> QED BY <1>1, <1>12 DEF d, e

\* A field to which its local data returned.
IsReturned(was, told, is, e) ==
    /\ e.type = is.type /\ e.sensitive = is.sensitive /\ e.identifier = is.identifier /\ e.categories = is.categories
    /\ e.semantic = Advice!Returned(was.semantic, told.semantic, is.semantic)
    /\ e.local = Advice!Returned(was.local, told.local, is.local)

IsReturnedAs(is, semantic, local, e) ==
    /\ e.type = is.type /\ e.sensitive = is.sensitive /\ e.identifier = is.identifier
    /\ e.categories = is.categories /\ e.semantic = semantic /\ e.local = local

\* A field whose local data has returned is a field.
LEMMA ReturnedIsField ==
    ASSUME NEW is, Advice!IsField(is), NEW semantic, NEW local,
           NEW e, e = [is EXCEPT !.semantic = semantic, !.local = local]
    PROVE  Advice!IsField(e) /\ IsReturnedAs(is, semantic, local, e)
<1>1. is = [type |-> is.type, sensitive |-> is.sensitive, identifier |-> is.identifier, semantic |-> is.semantic,
            categories |-> is.categories, local |-> is.local]
  BY DEF Advice!IsField
<1>2. e = [type |-> is.type, sensitive |-> is.sensitive, identifier |-> is.identifier, semantic |-> semantic,
           categories |-> is.categories, local |-> local]
  BY <1>1
<1>3. is.categories \in Seq(Advice!ToSet(is.categories))
  BY DEF Advice!IsField
<1> HIDE <1>1
<1>4. /\ e.type = is.type /\ e.sensitive = is.sensitive /\ e.identifier = is.identifier
      /\ e.categories = is.categories /\ e.semantic = semantic /\ e.local = local
  BY <1>2
<1>5. e = [type |-> e.type, sensitive |-> e.sensitive, identifier |-> e.identifier, semantic |-> e.semantic,
           categories |-> e.categories, local |-> e.local]
  BY <1>2
<1> QED BY <1>3, <1>4, <1>5 DEF Advice!IsField, IsReturnedAs

\* What local data returns to.
Returns(d, r, e) ==
    /\ e.names = d.names /\ e.allowed = d.allowed /\ e.key = d.key
    /\ e.settings = Advice!Returned(r.original.settings, r.projected.settings, d.settings)
    /\ DOMAIN e.fields = DOMAIN d.fields
    /\ \A f \in DOMAIN d.fields :
         IF f \notin DOMAIN r.original.fields THEN e.fields[f] = d.fields[f]
         ELSE IsReturned(r.original.fields[f], r.projected.fields[f], d.fields[f], e.fields[f])
    /\ e.constraints = Advice!ConstraintsBack(d, r)

\* Local data returns to every field and constraint that was told otherwise.
LEMMA LocalBackTells ==
    ASSUME NEW d, Advice!IsDataset(d), NEW r, Advice!IsDataset(r.original), r.projected = Advice!Stripped(r.original),
           NEW e, e = Advice!LocalBack(d, r)
    PROVE  Advice!IsDataset(e) /\ Returns(d, r, e)
<1> DEFINE o == r.original
           t == r.projected
           back(was, told, is) ==
                [is EXCEPT !.semantic = Advice!Returned(was.semantic, told.semantic, is.semantic),
                           !.local = Advice!Returned(was.local, told.local, is.local)]
           settings == Advice!Returned(o.settings, t.settings, d.settings)
           fields == [f \in DOMAIN d.fields |->
                        IF f \notin DOMAIN o.fields THEN d.fields[f]
                        ELSE back(o.fields[f], t.fields[f], d.fields[f])]
<1>1. /\ d = [names |-> d.names, fields |-> d.fields, constraints |-> d.constraints, allowed |-> d.allowed,
              key |-> d.key, settings |-> d.settings]
      /\ d.settings = [core |-> d.settings.core, locale |-> d.settings.locale]
  BY DEF Advice!IsDataset
<1>2. e = [d EXCEPT !.settings = settings, !.fields = fields, !.constraints = Advice!ConstraintsBack(d, r)]
  BY Zenon DEF Advice!LocalBack
<1>3. ASSUME NEW f \in DOMAIN d.fields
      PROVE  /\ Advice!IsField(fields[f])
             /\ fields[f].categories = d.fields[f].categories
             /\ IF f \notin DOMAIN o.fields THEN fields[f] = d.fields[f]
                ELSE IsReturned(o.fields[f], t.fields[f], d.fields[f], fields[f])
  <2>1. Advice!IsField(d.fields[f])
    BY DatasetTells
  <2>2. CASE f \notin DOMAIN o.fields
    BY <2>1, <2>2
  <2>3. CASE f \in DOMAIN o.fields
    <3> DEFINE is == d.fields[f]
               semantic == Advice!Returned(o.fields[f].semantic, t.fields[f].semantic, is.semantic)
               local == Advice!Returned(o.fields[f].local, t.fields[f].local, is.local)
               x == fields[f]
    <3>1. x = [is EXCEPT !.semantic = semantic, !.local = local]
      BY <2>3
    <3>2. Advice!IsField(is)
      BY <2>1
    <3> HIDE DEF is, semantic, local, x, fields
    <3>3. Advice!IsField(x) /\ IsReturnedAs(is, semantic, local, x)
      BY <3>1, <3>2, ReturnedIsField
    <3> QED BY <2>3, <3>3 DEF is, semantic, local, x, IsReturned, IsReturnedAs
  <2> QED BY <2>2, <2>3
<1>4. settings = [core |-> settings.core, locale |-> settings.locale]
  <2>1. o.settings = [core |-> o.settings.core, locale |-> o.settings.locale]
    BY DEF Advice!IsDataset
  <2> QED BY <1>1, <2>1 DEF Advice!Returned
<1>5. DOMAIN t.constraints = DOMAIN o.constraints
  <2>1. Advice!IsDataset(o) /\ t = Advice!Stripped(o)
    OBVIOUS
  <2> HIDE DEF o, t
  <2>2. t.constraints = [i \in DOMAIN o.constraints |-> [o.constraints[i] EXCEPT !.local = None]]
    BY <2>1, StrippedTells
  <2> QED BY <2>2
<1>6. ASSUME NEW i \in DOMAIN d.constraints PROVE Advice!IsConstraint(Advice!ConstraintsBack(d, r)[i])
  <2>1. Advice!IsConstraint(d.constraints[i])
    BY DatasetTells
  <2>2. CASE i \in DOMAIN t.constraints /\ d.constraints[i] = t.constraints[i]
    <3>1. Advice!ConstraintsBack(d, r)[i] = o.constraints[i] /\ i \in DOMAIN o.constraints
      BY <1>5, <2>2 DEF Advice!ConstraintsBack
    <3> QED BY <3>1, DatasetTells
  <2>3. CASE ~(i \in DOMAIN t.constraints /\ d.constraints[i] = t.constraints[i])
    <3>1. Advice!ConstraintsBack(d, r)[i] = d.constraints[i]
      BY <2>3 DEF Advice!ConstraintsBack
    <3> QED BY <2>1, <3>1
  <2> QED BY <2>2, <2>3
<1>7. DOMAIN fields = DOMAIN d.fields
  OBVIOUS
<1>8. /\ fields = [f \in DOMAIN d.fields |-> fields[f]]
      /\ Advice!ConstraintsBack(d, r) = [i \in DOMAIN d.constraints |-> Advice!ConstraintsBack(d, r)[i]]
  BY DEF Advice!ConstraintsBack
<1> HIDE DEF settings, fields
<1>9. e = [names |-> d.names, fields |-> fields, constraints |-> Advice!ConstraintsBack(d, r), allowed |-> d.allowed,
           key |-> d.key, settings |-> settings]
  BY <1>1, <1>2
<1>10. /\ e.names = d.names /\ e.fields = fields /\ e.constraints = Advice!ConstraintsBack(d, r)
       /\ e.allowed = d.allowed /\ e.key = d.key /\ e.settings = settings
       /\ e = [names |-> e.names, fields |-> e.fields, constraints |-> e.constraints, allowed |-> e.allowed,
               key |-> e.key, settings |-> e.settings]
  BY <1>9
<1>11. Advice!IsDataset(e)
  <2>1. \A f \in DOMAIN d.fields :
              /\ e.fields[f] = [type |-> e.fields[f].type, sensitive |-> e.fields[f].sensitive,
                    identifier |-> e.fields[f].identifier, semantic |-> e.fields[f].semantic,
                    categories |-> e.fields[f].categories, local |-> e.fields[f].local]
              /\ e.fields[f].categories = [i \in DOMAIN d.fields[f].categories |-> e.fields[f].categories[i]]
    <3> SUFFICES ASSUME NEW f \in DOMAIN d.fields, NEW x, x = e.fields[f]
                 PROVE  /\ x = [type |-> x.type, sensitive |-> x.sensitive, identifier |-> x.identifier,
                                semantic |-> x.semantic, categories |-> x.categories, local |-> x.local]
                        /\ x.categories = [i \in DOMAIN d.fields[f].categories |-> x.categories[i]]
      OBVIOUS
    <3>1. Advice!IsField(x) /\ x.categories = d.fields[f].categories
      BY <1>3, <1>10
    <3>2. x.categories \in Seq(Advice!ToSet(x.categories))
      BY <3>1 DEF Advice!IsField
    <3> DEFINE s == x.categories
    <3>3. s = [i \in DOMAIN s |-> s[i]]
      <4> HIDE DEF s
      <4>1. s \in Seq(Advice!ToSet(s))
        BY <3>2 DEF s
      <4> QED BY <4>1
    <3>4. DOMAIN s = DOMAIN d.fields[f].categories
      BY <3>1
    <3> QED BY <3>1, <3>3, <3>4 DEF Advice!IsField
  <2>2. e.settings = [core |-> e.settings.core, locale |-> e.settings.locale]
    BY <1>4, <1>10
  <2>3. e.fields = [f \in DOMAIN d.fields |-> e.fields[f]]
    BY <1>8, <1>10
  <2>4. e.constraints = [i \in DOMAIN d.constraints |-> e.constraints[i]]
    BY <1>8, <1>10
  <2>5. \A i \in DOMAIN d.constraints : Advice!IsConstraint(e.constraints[i])
    BY <1>6, <1>10
  <2>6. e.names = d.names
    BY <1>10
  <2>7. e = [names |-> e.names, fields |-> e.fields, constraints |-> e.constraints, allowed |-> e.allowed,
             key |-> e.key, settings |-> e.settings]
    BY <1>10
  <2> HIDE DEF o, t, back
  <2>8. HasShape(d, e)
    BY <2>1, <2>2, <2>3, <2>4, <2>5, <2>6, <2>7 DEF HasShape
  <2> QED BY <2>8, DatasetIsMade
<1> QED BY <1>3, <1>7, <1>10, <1>11 DEF settings, Returns

\* Local data is as it was.
LocalKept(was, e) ==
    \A f \in DOMAIN was.fields \cap DOMAIN e.fields :
        /\ was.fields[f].local # None => e.fields[f].local = was.fields[f].local
        /\ was.fields[f].semantic \notin AdviceTypes \cup {None} => e.fields[f].semantic = was.fields[f].semantic

\* No label is left.
NoLabels(a, e, q, told) ==
    \A f \in DOMAIN q.profile.fields \cap DOMAIN e.fields : \A w \in Advice!CategoriesIn(e, f) :
        \/ w \in ValuesOf(q.profile, q.spec, f)
        \/ w \in Advice!CategoriesIn(a, f) /\ w \notin ValuesOf(told.profile, told.spec, f)

\* What is restored has the local data that was not told, and no label that was.
LEMMA RestoreTells ==
    ASSUME NEW q, Tellable(q.profile, q.spec), NEW family, NEW r, r = Advice!Project(family, q),
           NEW a, Advice!IsDataset(a), NEW e, e = Advice!Restore(a, r), e # None
    PROVE  /\ Advice!IsDataset(e) /\ DOMAIN e.fields = DOMAIN a.fields
           /\ LocalKept(q.spec, e) /\ NoLabels(a, e, q, r.told)
<1> DEFINE d == Advice!Replaced(a, r.back)
           map == LabelsOf(family, q)
<1>1. e = Advice!LocalBack(d, r)
  BY DEF Advice!Restore
<1>2. /\ Advice!IsDataset(d) /\ DOMAIN d.fields = DOMAIN a.fields
      /\ \A f \in DOMAIN a.fields : \A v :
            v \in Advice!CategoriesIn(d, f) <=> \E w \in Advice!CategoriesIn(a, f) : v = Advice!Mapped(r.back, f, w)
  <2>1. Advice!IsDataset(d) /\ DOMAIN d.fields = DOMAIN a.fields
    BY ReplacedTells, ZenonT(60)
  <2>2. \A f \in DOMAIN a.fields : \A v :
            v \in Advice!CategoriesIn(d, f) <=> \E w \in Advice!CategoriesIn(a, f) : v = Advice!Mapped(r.back, f, w)
    BY ReplacedValues
  <2> QED BY <2>1, <2>2
<1>3. r.original = q.spec /\ r.projected = Advice!Stripped(q.spec) /\ Advice!IsDataset(q.spec)
  <2>1. Advice!IsDataset(q.spec)
    BY DEF Tellable
  <2> QED BY <2>1, ProjectIs
<1> HIDE DEF d
<1>4. /\ Advice!IsDataset(e) /\ DOMAIN e.fields = DOMAIN d.fields
      /\ \A f \in DOMAIN d.fields :
            IF f \notin DOMAIN r.original.fields THEN e.fields[f] = d.fields[f]
            ELSE IsReturned(r.original.fields[f], r.projected.fields[f], d.fields[f], e.fields[f])
  BY <1>1, <1>2, <1>3, LocalBackTells, SMTT(40) DEF Returns
<1>5. LocalKept(q.spec, e)
  <2> SUFFICES ASSUME NEW f \in DOMAIN q.spec.fields \cap DOMAIN e.fields
               PROVE  /\ q.spec.fields[f].local # None => e.fields[f].local = q.spec.fields[f].local
                      /\ q.spec.fields[f].semantic \notin AdviceTypes \cup {None}
                            => e.fields[f].semantic = q.spec.fields[f].semantic
    BY DEF LocalKept
  <2>1. IsReturned(q.spec.fields[f], r.projected.fields[f], d.fields[f], e.fields[f])
    BY <1>3, <1>4
  <2>2. IsStripped(q.spec.fields[f], r.projected.fields[f])
    BY <1>3, StrippedTells
  <2> QED BY <2>1, <2>2 DEF IsReturned, IsStripped, Known, Advice!Returned
<1>6. NoLabels(a, e, q, r.told)
  <2> SUFFICES ASSUME NEW f \in DOMAIN q.profile.fields \cap DOMAIN e.fields, NEW w \in Advice!CategoriesIn(e, f)
               PROVE  \/ w \in ValuesOf(q.profile, q.spec, f)
                      \/ w \in Advice!CategoriesIn(a, f) /\ w \notin ValuesOf(r.told.profile, r.told.spec, f)
    BY DEF NoLabels
  <2>1. w \in Advice!CategoriesIn(d, f)
    BY <1>4 DEF IsReturned, Advice!CategoriesIn
  <2>2. PICK u \in Advice!CategoriesIn(a, f) : w = Advice!Mapped(r.back, f, u)
    BY <1>2, <1>4, <2>1
  <2>3. Maps(map, q.profile, q.spec)
    BY LabelsTell
  <2>4. /\ DOMAIN r.back = DOMAIN map
        /\ \A g \in DOMAIN map : r.back[g] =
              [l \in {map[g][v] : v \in DOMAIN map[g]} |-> CHOOSE v \in DOMAIN map[g] : map[g][v] = l]
    BY ProjectIs
  <2>5. ValuesOf(r.told.profile, r.told.spec, f) = {map[f][v] : v \in ValuesOf(q.profile, q.spec, f)}
    <3>1. IsProjected(r.told, family, q)
      BY ProjectTells
    <3> QED BY <3>1 DEF IsProjected, ValuesTold
  <2> HIDE DEF map
  <2>6. DOMAIN r.back[f] = ValuesOf(r.told.profile, r.told.spec, f) /\ f \in DOMAIN r.back
    BY <2>3, <2>4, <2>5 DEF Maps
  <2>7. CASE u \in DOMAIN r.back[f]
    <3>1. w = r.back[f][u]
      BY <2>2, <2>6, <2>7 DEF Advice!Mapped
    <3>2. \E v \in DOMAIN map[f] : map[f][v] = u
      BY <2>3, <2>5, <2>6, <2>7 DEF Maps
    <3>3. r.back[f][u] = CHOOSE v \in DOMAIN map[f] : map[f][v] = u
      <4> DEFINE L == {map[f][v] : v \in DOMAIN map[f]}
      <4>1. f \in DOMAIN map
        BY <2>3 DEF Maps
      <4>2. r.back[f] = [l \in L |-> CHOOSE v \in DOMAIN map[f] : map[f][v] = l]
        BY <2>4, <4>1
      <4>3. u \in L
        BY <3>2
      <4> HIDE DEF L
      <4> QED BY <4>2, <4>3
    <3> QED BY <2>3, <3>1, <3>2, <3>3 DEF Maps
  <2>8. CASE u \notin DOMAIN r.back[f]
    BY <2>2, <2>6, <2>8 DEF Advice!Mapped
  <2> QED BY <2>7, <2>8
<1> QED BY <1>2, <1>4, <1>5, <1>6

\* What was told, restored, is what was asked.
LEMMA RestoreReturns ==
    ASSUME NEW q, Tellable(q.profile, q.spec), NEW family, NEW r, r = Advice!Project(family, q)
    PROVE  Advice!Restore(r.told.spec, r) = q.spec
<1> DEFINE d == r.projected
           o == q.spec
           e == Advice!LocalBack(d, r)
<1>1. Advice!Replaced(r.told.spec, r.back) = d
  BY ToldReturns
<1>2. Advice!IsDataset(o) /\ r.original = o /\ d = Advice!Stripped(o) /\ Advice!IsDataset(d)
  <2>1. Advice!IsDataset(q.spec)
    BY DEF Tellable
  <2>2. r.original = o /\ d = Advice!Stripped(o)
    BY ProjectIs
  <2> QED BY <2>1, <2>2, StrippedTells
<1>3. Advice!Untouched(d, r)
  BY DEF Advice!Untouched
<1>4. Advice!Restore(r.told.spec, r) = e
  <2> DEFINE x == Advice!Replaced(r.told.spec, r.back)
  <2>1. Advice!Restore(r.told.spec, r) = IF Advice!Untouched(x, r) THEN Advice!LocalBack(x, r) ELSE None
    BY Zenon DEF Advice!Restore
  <2>2. x = d
    BY <1>1
  <2> HIDE DEF x
  <2> QED BY <1>3, <2>1, <2>2
<1>5. /\ d.names = o.names /\ d.allowed = o.allowed /\ d.key = o.key
      /\ DOMAIN d.fields = DOMAIN o.fields
      /\ \A f \in DOMAIN o.fields : IsStripped(o.fields[f], d.fields[f])
  BY <1>2, StrippedTells, ZenonT(60)
<1>6. d.constraints = [i \in DOMAIN o.constraints |-> [o.constraints[i] EXCEPT !.local = None]]
  BY <1>2, StrippedTells
<1> HIDE DEF d, o
<1>7. /\ Advice!IsDataset(e)
      /\ e.names = d.names /\ e.allowed = d.allowed /\ e.key = d.key
      /\ e.settings = Advice!Returned(o.settings, d.settings, d.settings)
      /\ DOMAIN e.fields = DOMAIN d.fields
      /\ \A f \in DOMAIN d.fields :
            IF f \notin DOMAIN o.fields THEN e.fields[f] = d.fields[f]
            ELSE IsReturned(o.fields[f], d.fields[f], d.fields[f], e.fields[f])
      /\ e.constraints = Advice!ConstraintsBack(d, r)
  <2>1. Advice!IsDataset(r.original) /\ r.projected = Advice!Stripped(r.original) /\ d = r.projected /\ r.original = o
    BY <1>2 DEF d
  <2> HIDE DEF e
  <2>2. e = Advice!LocalBack(d, r)
    BY DEF e
  <2>3. Advice!IsDataset(e) /\ Returns(d, r, e)
    BY <1>2, <2>1, <2>2, LocalBackTells
  <2> QED BY <2>1, <2>3 DEF Returns
<1>8. ASSUME NEW f \in DOMAIN e.fields PROVE FieldsEqual(e.fields[f], o.fields[f])
  <2>1. IsReturned(o.fields[f], d.fields[f], d.fields[f], e.fields[f]) /\ IsStripped(o.fields[f], d.fields[f])
    BY <1>5, <1>7
  <2> QED BY <2>1 DEF IsReturned, IsStripped, FieldsEqual, Advice!Returned
<1>9. e.constraints = [i \in DOMAIN o.constraints |-> o.constraints[i]]
  <2>1. Advice!ConstraintsBack(d, r) = [i \in DOMAIN d.constraints |-> o.constraints[i]]
    BY <1>2 DEF Advice!ConstraintsBack, d
  <2>2. DOMAIN d.constraints = DOMAIN o.constraints
    BY <1>6
  <2> QED BY <1>7, <2>1, <2>2
<1>10. e.constraints = o.constraints
  <2>1. o.constraints \in Seq(Advice!ToSet(o.constraints))
    BY <1>2 DEF Advice!IsDataset
  <2> DEFINE s == o.constraints
  <2>2. s = [i \in DOMAIN s |-> s[i]]
    <3> HIDE DEF s
    <3>1. s \in Seq(Advice!ToSet(s))
      BY <2>1 DEF s
    <3> QED BY <3>1
  <2> QED BY <1>9, <2>2
<1>11. \A i \in DOMAIN e.constraints : ConstraintsEqual(e.constraints[i], o.constraints[i])
  BY <1>10 DEF ConstraintsEqual
<1>12. e.settings = o.settings
  BY <1>7 DEF Advice!Returned
<1>13. e = o
  <2> HIDE DEF e
  <2>1. Len(e.constraints) = Len(o.constraints)
    BY <1>10
  <2>2. e.names = o.names /\ e.allowed = o.allowed /\ e.key = o.key /\ DOMAIN e.fields = DOMAIN o.fields
    BY <1>5, <1>7
  <2> QED BY <1>2, <1>7, <1>8, <1>11, <1>12, <2>1, <2>2, DatasetsAgree
<1> QED BY <1>4, <1>13 DEF o

-----------------------------------------------------------------------------
(* Exchanges with a provider.                                              *)

\* What a call asks, and what is told of it.
AsksOf(t, e) ==
    /\ e.asked # None
    /\ Advice!FitsProfile(t.profile, t.spec) /\ Tellable(t.profile, t.spec)
    /\ e.asked = Advice!Build(t.profile, t.spec, Advice!NothingKept(t.profile))
    /\ Tellable(e.asked.profile, e.asked.spec) /\ Tellable(e.given.profile, e.given.spec)
    /\ IF t.via = "exchange" THEN e.outer = Advice!Project("a", e.asked) /\ e.given = e.outer.told
       ELSE e.given = e.asked
    /\ e.inner = Advice!Project("p", e.given)

\* A request and its projections may be told.
LEMMA TellingTells ==
    ASSUME NEW t \in AdviceTasks, t.kind = "advise", Advice!Telling(t).asked # None
    PROVE  AsksOf(t, Advice!Telling(t))
<1> DEFINE e == Advice!Telling(t)
           asked == Advice!Build(t.profile, t.spec, Advice!NothingKept(t.profile))
           outer == IF asked # None /\ t.via = "exchange" THEN Advice!Project("a", asked) ELSE None
           given == IF outer # None THEN outer.told ELSE asked
           inner == IF given # None THEN Advice!Project("p", given) ELSE None
<1>1. e = [asked |-> asked, outer |-> outer, given |-> given, inner |-> inner]
  BY Zenon DEF Advice!Telling
<1>2. Advice!IsDataset(t.profile) /\ Advice!IsDataset(t.spec) /\ t.via \in {"exchange", "direct"}
  BY AdviceAssumption DEF Advice!TasksAssumption
<1>3. e.given # None /\ (t.via = "exchange" => e.outer # None) /\ e.inner # None
  BY AdviceAssumption DEF Advice!NoneAssumption
<1> HIDE DEF asked, outer, given, inner
<1>4. e.asked = asked /\ e.outer = outer /\ e.given = given /\ e.inner = inner
  <2> HIDE DEF e
  <2> QED BY <1>1
<1> HIDE DEF e
<1>5. asked # None
  BY <1>4 DEF e
<1>6. Advice!FitsProfile(t.profile, t.spec) /\ Tellable(t.profile, t.spec) /\ Tellable(asked.profile, asked.spec)
  BY <1>2, <1>5, BuildTells DEF asked
<1>7. t.via # "exchange" => given = asked
  BY DEF given, outer
<1>8. t.via = "exchange" => outer = Advice!Project("a", asked) /\ given = outer.told
  BY <1>3, <1>4, <1>5 DEF given, outer
<1>9. Tellable(given.profile, given.spec)
  <2>1. ASSUME NEW r, r = Advice!Project("a", asked) PROVE Tellable(r.told.profile, r.told.spec)
    <3>1. IsProjected(r.told, "a", asked)
      BY <1>6, <2>1, ProjectTells
    <3> QED BY <3>1 DEF IsProjected
  <2> QED BY <1>6, <1>7, <1>8, <2>1
<1>10. inner = Advice!Project("p", given)
  BY <1>3, <1>4 DEF inner
<1> QED BY <1>4, <1>5, <1>6, <1>7, <1>8, <1>9, <1>10 DEF e, AsksOf, asked

\* What a provider may answer, and what is parsed of it.
Restored(c) == Advice!Restore(Advice!Parsed(c), Advice!Inner(c))
Proposed(c) == answer[c] \in Advice!Responses(c) /\ Advice!Parsed(c) # None /\ Restored(c) # None
Accepted(c) ==
    /\ Advice!Valid(Advice!OfClient(c), Restored(c))
    /\ IF job[c].via = "exchange"
       THEN /\ proposal[c] = Advice!Restore(Restored(c), Advice!Outer(c))
            /\ proposal[c] # None /\ Advice!Valid(Advice!Asked(c), proposal[c])
       ELSE proposal[c] = Restored(c)

ProposalOf(c) ==
    /\ step[c] = "answered" => answer[c] \in Advice!Responses(c)
    /\ step[c] = "judged" /\ meta[c].status = "completed" => Proposed(c) /\ proposal[c] = Restored(c)
    /\ step[c] = "done" /\ outcome[c].accepted => Proposed(c) /\ Accepted(c)

AdviceInv ==
    /\ RunInv /\ proposal = [c \in AdviceCalls |-> proposal[c]]
    /\ job \in AdviceAssignments
    /\ \A c \in AdviceCalls : job[c].kind = "advise" => exchange[c] = Advice!Telling(job[c]) /\ ProposalOf(c)

\* Calls begin with what they ask, and with no answer.
LEMMA AdviceBegins == Advice!Init => AdviceInv
<1> SUFFICES ASSUME Advice!Init PROVE AdviceInv
  OBVIOUS
<1>1. RunInv
  BY RunsBegin
<1>2. proposal = [c \in AdviceCalls |-> proposal[c]] /\ job \in AdviceAssignments
  BY DEF Advice!Init
<1>3. ASSUME NEW c \in AdviceCalls, job[c].kind = "advise" PROVE exchange[c] = Advice!Telling(job[c]) /\ ProposalOf(c)
  <2>1. exchange[c] = Advice!Telling(job[c]) /\ step[c] = "new"
    BY <1>3 DEF Advice!Init
  <2> QED BY <2>1 DEF ProposalOf
<1> QED BY <1>1, <1>2, <1>3 DEF AdviceInv

\* A step of one call leaves the others' proposals where they are.
Ours(c) ==
    /\ client' = client /\ job' = job /\ exchange' = exchange
    /\ proposal' = [d \in AdviceCalls |-> proposal'[d]]
    /\ \A d \in AdviceCalls \ {c} :
        /\ step'[d] = step[d] /\ answer'[d] = answer[d] /\ meta'[d] = meta[d] /\ outcome'[d] = outcome[d]
        /\ proposal'[d] = proposal[d]

\* A step of another call changes nothing that a call has been offered.
LEMMA OfferedKept ==
    ASSUME NEW d \in AdviceCalls, client' = client, job' = job, exchange' = exchange, answer'[d] = answer[d]
    PROVE  /\ Proposed(d)' = Proposed(d) /\ Restored(d)' = Restored(d) /\ Advice!Responses(d)' = Advice!Responses(d)
           /\ Advice!Parsed(d)' = Advice!Parsed(d)
<1>1. /\ Advice!Inner(d)' = Advice!Inner(d) /\ Advice!OfClient(d)' = Advice!OfClient(d)
      /\ Advice!Outer(d)' = Advice!Outer(d) /\ Advice!Asked(d)' = Advice!Asked(d)
  BY DEF Advice!Inner, Advice!OfClient, Advice!Outer, Advice!Asked
<1>2. Advice!Parsed(d)' = Advice!Parsed(d)
  BY <1>1 DEF Advice!Parsed
<1>3. Advice!Responses(d)' = Advice!Responses(d)
  BY <1>1 DEF Advice!Responses
<1>4. Restored(d)' = Restored(d)
  BY <1>1, <1>2 DEF Restored
<1> QED BY <1>2, <1>3, <1>4 DEF Proposed

\* A step of a call keeps what the others have been offered.
LEMMA OtherOffersKept ==
    ASSUME AdviceInv, RunInv', NEW c \in AdviceCalls, Ours(c), job[c].kind = "advise" => ProposalOf(c)' PROVE AdviceInv'
<1>1. ASSUME NEW d \in AdviceCalls \ {c}, job[d].kind = "advise" PROVE ProposalOf(d)'
  <2>1. /\ client' = client /\ job' = job /\ exchange' = exchange
        /\ step'[d] = step[d] /\ answer'[d] = answer[d] /\ meta'[d] = meta[d] /\ outcome'[d] = outcome[d]
        /\ proposal'[d] = proposal[d]
    BY <1>1 DEF Ours
  <2>2. ProposalOf(d)
    BY <1>1 DEF AdviceInv
  <2>3. Proposed(d)' = Proposed(d) /\ Restored(d)' = Restored(d) /\ Advice!Responses(d)' = Advice!Responses(d)
    BY <1>1, <2>1, OfferedKept
  <2>4. Accepted(d)' = Accepted(d)
    BY <2>1, <2>3 DEF Accepted, Advice!OfClient, Advice!Outer, Advice!Asked
  <2> QED BY <2>1, <2>2, <2>3, <2>4 DEF ProposalOf
<1>2. \A d \in AdviceCalls : job'[d].kind = "advise" => exchange'[d] = Advice!Telling(job[d])
  BY DEF Ours, AdviceInv
<1>3. job' = job /\ job \in AdviceAssignments /\ proposal' = [d \in AdviceCalls |-> proposal'[d]]
  BY DEF Ours, AdviceInv
<1>4. ASSUME NEW d \in AdviceCalls, job'[d].kind = "advise"
      PROVE  exchange'[d] = Advice!Telling(job'[d]) /\ ProposalOf(d)'
  BY <1>1, <1>2, <1>3, <1>4
<1>5. \A d \in AdviceCalls : Advice!Telling(job[d])' = Advice!Telling(job'[d])
  BY <1>3
<1> QED BY <1>3, <1>4, <1>5 DEF AdviceInv

\* No call is judged complete but by what was proposed.
LEMMA CompletedTells ==
    ASSUME AdviceInv, NEW c \in AdviceCalls, job[c].kind = "advise", step[c] = "answered",
           Advice!Status(c) = "completed"
    PROVE  Proposed(c)
<1>1. answer[c] \in Advice!Responses(c)
  BY DEF AdviceInv, ProposalOf
<1>2. ~(answer[c].form = "cut") /\ ~(answer[c].form = "filtered") /\ answer[c].form \notin {"garbled", "oversize"}
  BY DEF Advice!Status
<1>3. Advice!Parsed(c) # None /\ Advice!Restore(Advice!Parsed(c), Advice!Inner(c)) # None
  BY <1>2 DEF Advice!Status
<1> QED BY <1>1, <1>3 DEF Proposed, Restored

\* Sending changes no exchange.
LEMMA SendOffers == ASSUME AdviceInv, NEW c \in AdviceCalls, Advice!Send(c) PROVE AdviceInv'
<1>1. /\ RunInv' /\ RunShapes /\ proposal = [d \in AdviceCalls |-> proposal[d]]
  BY SendRuns DEF AdviceInv, RunInv
<1>2. Ours(c)
  BY <1>1 DEF Advice!Send, Advice!Goes, Ours, RunShapes
<1>3. \/ step'[c] = "done" /\ outcome'[c].accepted = FALSE
      \/ step'[c] = "sent"
      \/ step'[c] = "judged" /\ meta'[c].status = "preflight_rejected"
  <2>1. CASE Advice!Goes(c, "done") /\ outcome' = [outcome EXCEPT ![c] = [accepted |-> FALSE, meta |-> None]]
    BY <1>1, <2>1 DEF Advice!Goes, RunShapes
  <2>2. CASE Advice!Goes(c, "sent") /\ UNCHANGED outcome
    BY <1>1, <2>2 DEF Advice!Goes, RunShapes
  <2>3. CASE /\ Advice!Goes(c, "judged") /\ UNCHANGED outcome
             /\ meta' = [meta EXCEPT ![c] = [call |-> c, status |-> "preflight_rejected", usage |-> None]]
    BY <1>1, <2>3 DEF Advice!Goes, RunShapes
  <2> QED BY <2>1, <2>2, <2>3 DEF Advice!Send
<1>4. ProposalOf(c)'
  BY <1>3 DEF ProposalOf
<1> QED BY <1>1, <1>2, <1>4, OtherOffersKept

\* An answer is one of those that the request may have.
LEMMA AttemptOffers == ASSUME AdviceInv, NEW c \in AdviceCalls, Advice!Attempt(c) PROVE AdviceInv'
<1>1. /\ RunInv' /\ RunShapes /\ proposal = [d \in AdviceCalls |-> proposal[d]]
  BY AttemptRuns DEF AdviceInv, RunInv
<1>2. Ours(c)
  BY <1>1 DEF Advice!Attempt, Advice!Goes, Ours, RunShapes
<1>3. \/ step'[c] = "answered" /\ answer'[c] \in Advice!Responses(c)
      \/ step'[c] \in {"waiting", "failed"}
  <2>1. CASE \E a \in Advice!Responses(c) : answer' = [answer EXCEPT ![c] = a] /\ Advice!Goes(c, "answered")
    BY <1>1, <2>1 DEF Advice!Goes, RunShapes
  <2>2. CASE \E e \in Advice!Errors :
            /\ answer' = [answer EXCEPT ![c] = Advice!Bare(e)]
            /\ Advice!Goes(c, IF client = "gigachat" /\ tries[c] < AdviceRetries /\ Advice!Retried(e)
                              THEN "waiting" ELSE "failed")
    BY <1>1, <2>2 DEF Advice!Goes, RunShapes
  <2> QED BY <2>1, <2>2 DEF Advice!Attempt
<1>4. Advice!Responses(c)' = Advice!Responses(c)
  BY DEF Advice!Attempt, Advice!Responses, Advice!Inner
<1>5. ProposalOf(c)'
  BY <1>3, <1>4 DEF ProposalOf
<1> QED BY <1>1, <1>2, <1>5, OtherOffersKept

\* Waiting forgets an answer that was an error.
LEMMA WaitOffers == ASSUME AdviceInv, NEW c \in AdviceCalls, Advice!Wait(c) PROVE AdviceInv'
<1>1. /\ RunInv' /\ RunShapes /\ proposal = [d \in AdviceCalls |-> proposal[d]]
  BY WaitRuns DEF AdviceInv, RunInv
<1>2. Ours(c) /\ step'[c] = "sent"
  BY <1>1 DEF Advice!Wait, Advice!Goes, Ours, RunShapes
<1>3. ProposalOf(c)'
  BY <1>2 DEF ProposalOf
<1> QED BY <1>1, <1>2, <1>3, OtherOffersKept

\* A proposal is made of the answer to its own request.
LEMMA JudgeOffers == ASSUME AdviceInv, NEW c \in AdviceCalls, Advice!Judge(c) PROVE AdviceInv'
<1>1. /\ RunInv' /\ RunShapes /\ proposal = [d \in AdviceCalls |-> proposal[d]]
  BY JudgeRuns DEF AdviceInv, RunInv
<1>2. Ours(c) /\ step'[c] = "judged" /\ answer' = answer
  BY <1>1 DEF Advice!Judge, Advice!Goes, Ours, RunShapes
<1> DEFINE status == IF step[c] = "failed" THEN Advice!StatusOf(answer[c].form) ELSE Advice!Status(c)
<1>3. /\ step[c] \in {"answered", "failed"} /\ meta'[c].status = status
      /\ proposal'[c] = IF status # "completed" THEN None
                        ELSE IF job[c].kind = "rank" THEN answer[c].ranks
                             ELSE Advice!Restore(Advice!Parsed(c), Advice!Inner(c))
  BY <1>1 DEF Advice!Judge, RunShapes
<1>4. step[c] = "failed" => status # "completed"
  BY DEF Advice!StatusOf
<1> HIDE DEF status
<1>5. ASSUME job[c].kind = "advise" PROVE ProposalOf(c)'
  <2>1. SUFFICES ASSUME status = "completed" PROVE Proposed(c)' /\ proposal'[c] = Restored(c)'
    BY <1>2, <1>3 DEF ProposalOf
  <2>2. step[c] = "answered" /\ Advice!Status(c) = "completed"
    BY <1>3, <1>4, <2>1 DEF status
  <2>3. Proposed(c)
    BY <1>5, <2>2, CompletedTells
  <2>4. proposal'[c] = Restored(c)
    BY <1>3, <1>5, <2>1 DEF Restored
  <2>5. Proposed(c)' = Proposed(c) /\ Restored(c)' = Restored(c)
    BY <1>2, OfferedKept DEF Ours
  <2> QED BY <2>3, <2>4, <2>5
<1> QED BY <1>1, <1>2, <1>5, OtherOffersKept

\* What is accepted is valid for the request and for what the client was given.
LEMMA ConcludeOffers == ASSUME AdviceInv, NEW c \in AdviceCalls, Advice!Conclude(c) PROVE AdviceInv'
<1>1. /\ RunInv' /\ RunShapes /\ proposal = [d \in AdviceCalls |-> proposal[d]]
  BY ConcludeRuns DEF AdviceInv, RunInv
<1>2. Ours(c) /\ step[c] = "judged" /\ step'[c] = "done" /\ answer' = answer
  BY <1>1 DEF Advice!Conclude, Advice!Goes, Ours, RunShapes
<1>3. /\ outcome'[c].accepted = Advice!Accepts(c)
      /\ proposal'[c] = IF ~Advice!Accepts(c) THEN None
                        ELSE IF job[c].kind = "advise" /\ job[c].via = "exchange"
                             THEN Advice!Restore(proposal[c], Advice!Outer(c)) ELSE proposal[c]
  BY <1>1 DEF Advice!Conclude, RunShapes
<1>4. ASSUME job[c].kind = "advise" PROVE ProposalOf(c)'
  <2>1. SUFFICES ASSUME Advice!Accepts(c) PROVE Proposed(c)' /\ Accepted(c)'
    BY <1>2, <1>3 DEF ProposalOf
  <2>2. /\ meta[c].status = "completed" /\ Advice!Valid(Advice!OfClient(c), proposal[c])
        /\ job[c].via = "exchange" =>
                /\ Advice!Restore(proposal[c], Advice!Outer(c)) # None
                /\ Advice!Valid(Advice!Asked(c), Advice!Restore(proposal[c], Advice!Outer(c)))
    BY <1>4, <2>1 DEF Advice!Accepts
  <2>3. Proposed(c) /\ proposal[c] = Restored(c)
    BY <1>2, <1>4, <2>2 DEF AdviceInv, ProposalOf
  <2>4. Proposed(c)' = Proposed(c) /\ Restored(c)' = Restored(c)
    BY <1>2, OfferedKept DEF Ours
  <2>5. /\ Advice!OfClient(c)' = Advice!OfClient(c) /\ Advice!Outer(c)' = Advice!Outer(c)
        /\ Advice!Asked(c)' = Advice!Asked(c) /\ job' = job
    BY <1>2 DEF Ours, Advice!OfClient, Advice!Outer, Advice!Asked
  <2>6. Accepted(c)'
    <3>1. CASE job[c].via = "exchange"
      <4>1. proposal'[c] = Advice!Restore(Restored(c), Advice!Outer(c))
        BY <1>3, <1>4, <2>1, <2>3, <3>1
      <4> QED BY <2>2, <2>3, <2>4, <2>5, <3>1, <4>1 DEF Accepted
    <3>2. CASE job[c].via # "exchange"
      <4>1. proposal'[c] = Restored(c)
        BY <1>3, <1>4, <2>1, <2>3, <3>2
      <4> QED BY <2>2, <2>3, <2>4, <2>5, <3>2, <4>1 DEF Accepted
    <3> QED BY <3>1, <3>2
  <2> QED BY <2>3, <2>4, <2>6
<1> QED BY <1>1, <1>2, <1>4, OtherOffersKept

\* Every step keeps it.
LEMMA AdviceStep == ASSUME AdviceInv, Advice!Next PROVE AdviceInv'
  BY SendOffers, AttemptOffers, WaitOffers, JudgeOffers, ConcludeOffers DEF Advice!Next, Advice!Step

\* The invariant of an advisor's calls.
AdviceHolds == which = "advice" => AdviceInv

\* So it holds for good.
LEMMA AdviceInvariant == SynthesisSpec => []AdviceHolds
<1>1. SynthesisInit => AdviceHolds
  BY AdviceBegins DEF SynthesisInit, AdviceHolds
<1>2. AdviceHolds /\ [SynthesisNext]_all => AdviceHolds'
  <2> SUFFICES ASSUME AdviceHolds, [SynthesisNext]_all PROVE AdviceHolds'
    OBVIOUS
  <2>1. CASE which = "advice" /\ Advice!Next /\ UNCHANGED which
    BY <2>1, AdviceStep DEF AdviceHolds
  <2>2. CASE which # "advice" /\ UNCHANGED which
    BY <2>2 DEF AdviceHolds
  <2>3. CASE UNCHANGED all
    <3> SUFFICES ASSUME which = "advice" PROVE AdviceInv'
      BY <2>3 DEF AdviceHolds, all
    <3>1. /\ client' = client /\ job' = job /\ exchange' = exchange /\ proposal' = proposal
          /\ step' = step /\ answer' = answer /\ meta' = meta /\ outcome' = outcome
      BY <2>3 DEF all, shared, ofAdvice
    <3>2. AdviceInv
      BY DEF AdviceHolds
    <3>3. RunInv'
      BY <2>3, <3>2, ZenonT(60) DEF all, shared, ofAdvice, AdviceInv, RunInv, RunShapes, RunOf, Waits, ToldOf
    <3>4. \A c \in AdviceCalls : Ours(c)
      BY <3>1, <3>2 DEF Ours, AdviceInv
    <3>5. ASSUME NEW c \in AdviceCalls, job[c].kind = "advise" PROVE ProposalOf(c)'
      <4>1. ProposalOf(c)
        BY <3>2, <3>5 DEF AdviceInv
      <4>2. Proposed(c)' = Proposed(c) /\ Restored(c)' = Restored(c) /\ Advice!Responses(c)' = Advice!Responses(c)
        BY <3>1, OfferedKept
      <4>3. Accepted(c)' = Accepted(c)
        BY <3>1, <4>2 DEF Accepted, Advice!OfClient, Advice!Outer, Advice!Asked
      <4> QED BY <3>1, <4>1, <4>2, <4>3 DEF ProposalOf
    <3>6. CASE AdviceCalls = {}
      BY <3>1, <3>2, <3>3, <3>6 DEF AdviceInv
    <3>7. CASE AdviceCalls # {}
      <4>1. PICK c \in AdviceCalls : TRUE
        BY <3>7
      <4> QED BY <3>2, <3>3, <3>4, <3>5, <4>1, OtherOffersKept
    <3> QED BY <3>6, <3>7
  <2> QED BY <2>1, <2>2, <2>3 DEF SynthesisNext
<1> QED BY <1>1, <1>2, PTL DEF SynthesisSpec

\* What a call is for, and what was told of it.
LEMMA CallAsks ==
    ASSUME AdviceInv, NEW c \in AdviceCalls, Advice!Advising(c)
    PROVE  AsksOf(job[c], exchange[c]) /\ exchange[c] = Advice!Telling(job[c]) /\ job[c] \in AdviceTasks
<1>1. job[c].kind = "advise" /\ exchange[c].asked # None
  BY DEF Advice!Advising, Advice!Asked
<1>2. exchange[c] = Advice!Telling(job[c])
  BY <1>1 DEF AdviceInv
<1>3. job[c] \in AdviceTasks
  BY AdviceAssumption DEF AdviceInv, Advice!AssignmentsAssumption
<1> QED BY <1>1, <1>2, <1>3, TellingTells

\* What is sent is a projection, so it has labels only.
LEMMA OnlyLabelsAreTold == AdviceInv => Advice!NothingLocalIsTold
<1> SUFFICES ASSUME AdviceInv, NEW c \in AdviceCalls, Advice!Advising(c),
                    NEW d \in {Advice!Inner(c).told.profile, Advice!Inner(c).told.spec}
             PROVE  ToldOnly(d, "p", Advice!AllValues(Advice!OfClient(c).profile)
                                        \cup Advice!AllValues(Advice!OfClient(c).spec))
  BY DEF Advice!NothingLocalIsTold, ToldOnly
<1>1. AsksOf(job[c], exchange[c])
  BY CallAsks
<1> DEFINE q == exchange[c].given
           r == exchange[c].inner
<1>2. Tellable(q.profile, q.spec) /\ r = Advice!Project("p", q)
  BY <1>1 DEF AsksOf
<1>3. d \in {r.told.profile, r.told.spec}
  BY DEF Advice!Inner
<1> HIDE DEF q, r
<1>4. ToldOnly(d, "p", Advice!AllValues(q.profile) \cup Advice!AllValues(q.spec))
  <2>1. IsProjected(r.told, "p", q)
    BY <1>2, ProjectTells
  <2> QED BY <1>3, <2>1 DEF IsProjected
<1> QED BY <1>4 DEF q, Advice!OfClient

\* Whatever a profile has, what is told of it is only counted, allowed or a
\* label.
THEOREM PrivateValuesStayIn == SynthesisSpec => []NothingPrivateIsTold
<1>1. DatabaseHolds /\ FolderHolds /\ AdviceHolds => NothingPrivateIsTold
  BY OnlyLabelsAreTold, FolderInvTells DEF DatabaseHolds, FolderHolds, AdviceHolds, DatabaseInv, NothingPrivateIsTold
<1> QED BY <1>1, DatabaseInvariant, FolderInvariant, AdviceInvariant, PTL

\* What a provider answers is a data set, or nothing is made of it.
LEMMA AnswerTells ==
    ASSUME AdviceInv, NEW c \in AdviceCalls, Advice!Advising(c), Proposed(c)
    PROVE  /\ Advice!IsDataset(Advice!Parsed(c))
           /\ answer[c].spec = Advice!Inner(c).told.spec => Advice!Parsed(c) = Advice!Inner(c).told.spec
<1>1. /\ AsksOf(job[c], exchange[c]) /\ exchange[c] = Advice!Telling(job[c])
      /\ job[c] \in AdviceTasks /\ job[c].kind = "advise"
  BY CallAsks DEF Advice!Advising
<1> DEFINE t == exchange[c].inner.told.spec
           given == exchange[c].given
           edits == AdviceEdits(t)
<1>2. Advice!IsDataset(t) /\ Advice!IsDataset(given.spec)
  <2>1. Tellable(given.profile, given.spec) /\ exchange[c].inner = Advice!Project("p", given)
    BY <1>1 DEF AsksOf
  <2> HIDE DEF given
  <2>2. ASSUME NEW r, r = Advice!Project("p", given) PROVE Tellable(r.told.profile, r.told.spec)
    <3>1. IsProjected(r.told, "p", given)
      BY <2>1, <2>2, ProjectTells
    <3> QED BY <3>1 DEF IsProjected
  <2> QED BY <2>1, <2>2 DEF Tellable
<1>3. None \notin edits \cup {t, given.spec} /\ exchange[c].inner # None
  <2>1. Advice!Telling(job[c]).asked # None
    BY <1>1 DEF AsksOf
  <2> QED BY <1>1, <2>1, AdviceAssumption DEF Advice!NoneAssumption
<1>4. \A e \in edits : Advice!IsDataset(e)
  <2>1. job[c] \in {u \in AdviceTasks : u.kind = "advise" /\ Advice!Telling(u).inner # None}
    BY <1>1, <1>3
  <2>2. \A e \in AdviceEdits(Advice!Telling(job[c]).inner.told.spec) : Advice!IsDataset(e)
    BY <2>1, AdviceAssumption DEF Advice!EditsAssumption
  <2> QED BY <1>1, <2>2
<1> HIDE DEF edits
<1>5. \/ answer[c].form \in {"garbled", "cut", "filtered", "oversize"}
      \/ answer[c].form = "unfit" /\ answer[c].spec = None
      \/ answer[c].form = "proposal" /\ answer[c].spec \in {t} \cup edits
  <2> DEFINE bare(form) == [form |-> form, spec |-> None, ranks |-> <<>>, binds |-> FALSE]
             a == answer[c]
  <2>1. \/ \E form \in {"garbled", "cut", "filtered", "oversize"} : a = bare(form)
        \/ a = [bare("unfit") EXCEPT !.binds = TRUE]
        \/ a = [bare("proposal") EXCEPT !.spec = t]
        \/ \E s \in edits : a = [bare("proposal") EXCEPT !.spec = s, !.binds = TRUE]
    BY <1>1 DEF Proposed, Advice!Responses, Advice!Bare, Advice!Inner, edits
  <2>2. CASE \E form \in {"garbled", "cut", "filtered", "oversize"} : a = bare(form)
    <3>1. PICK form \in {"garbled", "cut", "filtered", "oversize"} : a = bare(form)
      BY <2>2
    <3>2. a.form = form
      BY <3>1
    <3> QED BY <3>2
  <2>3. CASE a = [bare("unfit") EXCEPT !.binds = TRUE]
    <3>1. a = [form |-> "unfit", spec |-> None, ranks |-> <<>>, binds |-> TRUE]
      BY <2>3
    <3> QED BY <3>1
  <2>4. CASE a = [bare("proposal") EXCEPT !.spec = t]
    <3> HIDE DEF t
    <3>1. a = [form |-> "proposal", spec |-> t, ranks |-> <<>>, binds |-> FALSE]
      BY <2>4
    <3>2. a.form = "proposal" /\ a.spec = t
      BY <3>1
    <3> QED BY <3>2 DEF t
  <2>5. CASE \E s \in edits : a = [bare("proposal") EXCEPT !.spec = s, !.binds = TRUE]
    <3>1. PICK s \in edits : a = [bare("proposal") EXCEPT !.spec = s, !.binds = TRUE]
      BY <2>5
    <3>2. a = [form |-> "proposal", spec |-> s, ranks |-> <<>>, binds |-> TRUE]
      BY <3>1
    <3>3. a.form = "proposal" /\ a.spec = s
      BY <3>2
    <3> QED BY <3>1, <3>3
  <2> QED BY <2>1, <2>2, <2>3, <2>4, <2>5
<1>6. CASE answer[c].form = "proposal"
  <2>1. Advice!Parsed(c) = answer[c].spec
    BY <1>6 DEF Advice!Parsed
  <2> QED BY <1>2, <1>4, <1>5, <1>6, <2>1 DEF Advice!Inner
<1>7. CASE answer[c].form = "unfit"
  <2>1. Advice!Parsed(c) = given.spec
    BY <1>7 DEF Proposed, Advice!Parsed, Advice!OfClient
  <2> QED BY <1>2, <1>3, <1>5, <1>7, <2>1 DEF Advice!Inner
<1>8. CASE answer[c].form \in {"garbled", "cut", "filtered", "oversize"}
  <2>1. Advice!Parsed(c) = None
    BY <1>8 DEF Advice!Parsed
  <2> QED BY <2>1 DEF Proposed
<1> QED BY <1>5, <1>6, <1>7, <1>8

\* A specification that is valid keeps settings, fields and what the profile marks.
LEMMA ValidTells ==
    ASSUME NEW q, Tellable(q.profile, q.spec), NEW e, Advice!IsDataset(e), Advice!Valid(q, e)
    PROVE  /\ e.settings = q.spec.settings /\ DOMAIN e.fields = DOMAIN q.spec.fields
           /\ \A f \in DOMAIN q.spec.fields :
                q.profile.fields[f].sensitive => e.fields[f].sensitive /\ e.fields[f].categories = <<>>
<1>1. /\ Advice!SchemaKept(q.spec, e) /\ Advice!SettingsKept(q.spec, e)
      /\ Advice!FitsProfile(q.profile, e)
  BY DEF Advice!Valid
<1>2. e.settings = q.spec.settings
  BY <1>1 DEF Advice!SettingsKept
<1>3. DOMAIN e.fields = DOMAIN q.spec.fields
  <2>1. e.names = q.spec.names
    BY <1>1 DEF Advice!SchemaKept
  <2>2. DOMAIN e.fields = Advice!ToSet(e.names) /\ DOMAIN q.spec.fields = Advice!ToSet(q.spec.names)
    BY DEF Advice!IsDataset, Tellable
  <2> QED BY <2>1, <2>2
<1>4. \A f \in DOMAIN e.fields :
        q.profile.fields[f].sensitive => e.fields[f].sensitive /\ e.fields[f].categories = <<>>
  BY <1>1 DEF Advice!FitsProfile
<1> QED BY <1>2, <1>3, <1>4

\* What is accepted is what was asked for, with all that was not told.
LEMMA AcceptedIsRestored == AdviceInv => Advice!AdviceIsRestored
<1> SUFFICES ASSUME AdviceInv, NEW c \in AdviceCalls, step[c] = "done", Advice!Advising(c), outcome[c].accepted
             PROVE  LET spec == proposal[c] was == Advice!Asked(c).spec marked == Advice!Asked(c).profile IN
                    /\ answer[c].spec = Advice!Inner(c).told.spec => spec = was
                    /\ spec.settings = was.settings /\ DOMAIN spec.fields = DOMAIN was.fields
                    /\ \A f \in DOMAIN was.fields :
                        /\ was.fields[f].local # None => spec.fields[f].local = was.fields[f].local
                        /\ was.fields[f].semantic \notin AdviceTypes \cup {None} =>
                            spec.fields[f].semantic = was.fields[f].semantic
                        /\ marked.fields[f].sensitive => spec.fields[f].sensitive /\ spec.fields[f].categories = <<>>
                        /\ Advice!CategoriesIn(spec, f) \cap Advice!CategoriesIn(Advice!Inner(c).told.spec, f)
                            \subseteq Advice!CategoriesIn(marked, f) \cup Advice!CategoriesIn(was, f)
  BY Zenon DEF Advice!AdviceIsRestored
<1> DEFINE asked == exchange[c].asked
           given == exchange[c].given
           inner == exchange[c].inner
           outer == exchange[c].outer
           a == Advice!Parsed(c)
           x == Restored(c)
           spec == proposal[c]
           through == job[c].via = "exchange"
<1>1. /\ Advice!Asked(c) = asked /\ Advice!OfClient(c) = given /\ Advice!Inner(c) = inner /\ Advice!Outer(c) = outer
  BY DEF Advice!Asked, Advice!OfClient, Advice!Inner, Advice!Outer
<1>2. AsksOf(job[c], exchange[c]) /\ job[c].kind = "advise"
  BY CallAsks DEF Advice!Advising
<1>3. /\ Tellable(asked.profile, asked.spec) /\ Tellable(given.profile, given.spec)
      /\ inner = Advice!Project("p", given)
      /\ IF through THEN outer = Advice!Project("a", asked) /\ given = outer.told ELSE given = asked
  BY <1>2 DEF AsksOf
<1>4. Proposed(c) /\ Accepted(c)
  BY <1>2 DEF AdviceInv, ProposalOf
<1>5. Advice!IsDataset(a) /\ (answer[c].spec = inner.told.spec => a = inner.told.spec)
  BY <1>1, <1>4, AnswerTells
<1>6. /\ x = Advice!Restore(a, inner) /\ x # None
      /\ Advice!Valid(given, x)
      /\ IF through THEN spec = Advice!Restore(x, outer) /\ spec # None /\ Advice!Valid(asked, spec) ELSE spec = x
  BY <1>1, <1>4 DEF Proposed, Accepted, Restored
<1> HIDE DEF asked, given, inner, outer, a, x, spec, through
<1>7. Advice!IsDataset(x) /\ DOMAIN x.fields = DOMAIN a.fields /\ LocalKept(given.spec, x) /\ NoLabels(a, x, given, inner.told)
  BY <1>3, <1>5, <1>6, RestoreTells
<1>8. a = inner.told.spec => x = given.spec
  BY <1>3, <1>6, RestoreReturns
<1>9. through => Advice!IsDataset(spec) /\ DOMAIN spec.fields = DOMAIN x.fields
                  /\ LocalKept(asked.spec, spec) /\ NoLabels(x, spec, asked, outer.told)
  BY <1>3, <1>6, <1>7, RestoreTells
<1>10. through /\ x = outer.told.spec => spec = asked.spec
  BY <1>3, <1>6, RestoreReturns
<1>11. /\ Advice!IsDataset(spec) /\ LocalKept(asked.spec, spec) /\ Advice!Valid(asked, spec)
       /\ a = inner.told.spec => spec = asked.spec
  <2>1. CASE through
    BY <1>3, <1>6, <1>8, <1>9, <1>10, <2>1
  <2>2. CASE ~through
    BY <1>3, <1>6, <1>7, <1>8, <2>2
  <2> QED BY <2>1, <2>2
<1>12. /\ spec.settings = asked.spec.settings /\ DOMAIN spec.fields = DOMAIN asked.spec.fields
       /\ \A f \in DOMAIN asked.spec.fields :
            asked.profile.fields[f].sensitive => spec.fields[f].sensitive /\ spec.fields[f].categories = <<>>
  BY <1>3, <1>11, ValidTells
<1>13. DOMAIN asked.profile.fields = DOMAIN asked.spec.fields
  BY <1>3 DEF Tellable
<1>14. ASSUME NEW f \in DOMAIN asked.spec.fields, NEW w \in Advice!CategoriesIn(spec, f),
              w \in Advice!CategoriesIn(inner.told.spec, f)
       PROVE  w \in ValuesOf(asked.profile, asked.spec, f)
  <2>1. w \in ValuesOf(inner.told.profile, inner.told.spec, f)
    BY <1>14 DEF ValuesOf
  <2>2. CASE ~through
    BY <1>3, <1>6, <1>7, <1>12, <1>13, <2>1, <2>2 DEF NoLabels
  <2>3. CASE through
    <3>1. w \in ValuesOf(asked.profile, asked.spec, f)
          \/ (w \in Advice!CategoriesIn(x, f) /\ w \notin ValuesOf(outer.told.profile, outer.told.spec, f))
      BY <1>9, <1>12, <1>13, <2>3 DEF NoLabels
    <3>2. DOMAIN given.profile.fields = DOMAIN asked.profile.fields
      <4>1. ASSUME NEW r, r = Advice!Project("a", asked) PROVE DOMAIN r.told.profile.fields = DOMAIN asked.profile.fields
        <5>1. IsProjected(r.told, "a", asked)
          BY <1>3, <4>1, ProjectTells
        <5> QED BY <5>1 DEF IsProjected
      <4> QED BY <1>3, <2>3, <4>1
    <3>3. f \in DOMAIN given.profile.fields \cap DOMAIN x.fields
      BY <1>9, <1>12, <1>13, <2>3, <3>2
    <3>4. w \in Advice!CategoriesIn(x, f) => w \in ValuesOf(given.profile, given.spec, f)
      BY <1>7, <2>1, <3>3 DEF NoLabels
    <3> QED BY <1>3, <2>3, <3>1, <3>4
  <2> QED BY <2>2, <2>3
<1>15. ASSUME NEW f \in DOMAIN asked.spec.fields
       PROVE  /\ asked.spec.fields[f].local # None => spec.fields[f].local = asked.spec.fields[f].local
              /\ asked.spec.fields[f].semantic \notin AdviceTypes \cup {None} =>
                    spec.fields[f].semantic = asked.spec.fields[f].semantic
  BY <1>11, <1>12 DEF LocalKept
<1>16. answer[c].spec = inner.told.spec => spec = asked.spec
  BY <1>5, <1>11
<1> QED BY <1>1, <1>12, <1>14, <1>15, <1>16 DEF ValuesOf, spec

-----------------------------------------------------------------------------
(* A request that is made again.                                           *)

\* A label whose first form is not taken has no suffix.
LEMMA FreshLabel ==
    ASSUME NEW family, NEW f, NEW i, NEW taken, IsFiniteSet(taken), <<family, f, i, 0>> \notin taken
    PROVE  Advice!Label(family, f, i, taken) = <<family, f, i, 0>>
<1> DEFINE free == {k \in 0..Cardinality(taken) : <<family, f, i, k>> \notin taken}
           k == CHOOSE x \in free : \A j \in free : x <= j
<1>1. 0 \in free /\ free \in SUBSET Nat
  <2>1. Cardinality(taken) \in Nat
    BY FS_CardinalityType
  <2> DEFINE n == Cardinality(taken)
  <2>2. n \in Nat
    BY <2>1
  <2> HIDE DEF n
  <2>3. 0 \in 0..n /\ 0..n \in SUBSET Nat
    BY <2>2
  <2> QED BY <2>3 DEF n
<1>2. Advice!Label(family, f, i, taken) = <<family, f, i, k>>
  BY AdviceCounts DEF Advice!Label
<1> HIDE DEF free
<1>3. k = 0
  <2>1. \A j \in free : 0 <= j
    BY <1>1
  <2>2. \E x \in free : \A j \in free : x <= j
    BY <1>1, <2>1
  <2>3. k \in free /\ \A j \in free : k <= j
    BY <2>2
  <2>4. k <= 0 /\ k \in Nat
    BY <1>1, <2>3
  <2> HIDE DEF k
  <2> QED BY <2>4
<1> QED BY <1>2, <1>3

\* The values that stand before a value in a list.
Before(values_, listed, v) == {w \in values_ : Advice!First(listed, w) < Advice!First(listed, v)}

\* A list without repetitions has as many values before each as it has places,
\* and all of them before what only comes after.
LEMMA PlacesTell ==
    ASSUME NEW W, NEW a \in Seq(W), NEW b \in Seq(W), \A i, j \in DOMAIN a : a[i] = a[j] => i = j,
           NEW values_, Advice!ToSet(a) \subseteq values_, values_ \subseteq Advice!ToSet(a \o b), IsFiniteSet(values_)
    PROVE  /\ \A i \in 1..Len(a) : Cardinality(Before(values_, a \o b, a[i])) = i - 1
           /\ \A v \in values_ \ Advice!ToSet(a) :
                Cardinality(Before(values_, a \o b, v)) \in Nat /\ Len(a) <= Cardinality(Before(values_, a \o b, v))
<1> DEFINE listed == a \o b
           n == Len(a)
<1>1. /\ listed \in Seq(W) /\ n \in Nat /\ DOMAIN a = 1..n /\ DOMAIN listed = 1..Len(listed) /\ Len(listed) \in Nat
      /\ n <= Len(listed) /\ \A i \in 1..n : listed[i] = a[i]
  OBVIOUS
<1>2. values_ \subseteq Advice!ToSet(listed)
  OBVIOUS
<1> HIDE DEF listed, n
<1>3. \A v \in values_ : /\ Advice!First(listed, v) \in Nat /\ Advice!First(listed, v) \in DOMAIN listed
                         /\ listed[Advice!First(listed, v)] = v
  BY <1>1, <1>2, FirstTells
<1>4. ASSUME NEW i \in 1..n PROVE Advice!First(listed, a[i]) = i /\ a[i] \in values_
  <2>1. a[i] \in Advice!ToSet(a)
    BY <1>1 DEF Advice!ToSet
  <2>2. a[i] \in values_
    BY <2>1
  <2> DEFINE m == CHOOSE k \in DOMAIN listed : listed[k] = a[i] /\ \A j \in DOMAIN listed : listed[j] = a[i] => k <= j
  <2>3. \A j \in DOMAIN listed : listed[j] = a[i] => i <= j
    <3> SUFFICES ASSUME NEW j \in DOMAIN listed, listed[j] = a[i], ~(i <= j) PROVE FALSE
      OBVIOUS
    <3>1. j \in 1..n /\ i \in Nat /\ j \in Nat
      BY <1>1
    <3>2. a[j] = a[i]
      BY <1>1, <3>1
    <3> QED BY <1>1, <3>1, <3>2
  <2>4. i \in DOMAIN listed /\ listed[i] = a[i]
    BY <1>1
  <2>5. m \in DOMAIN listed /\ listed[m] = a[i] /\ \A j \in DOMAIN listed : listed[j] = a[i] => m <= j
    BY <2>3, <2>4
  <2>6. m = i
    <3>1. i <= m /\ m <= i
      BY <2>3, <2>4, <2>5
    <3>2. m \in Nat /\ i \in Nat
      BY <1>1, <2>5
    <3> HIDE DEF m
    <3> QED BY <3>1, <3>2
  <2>7. Advice!First(listed, a[i]) = m
    BY Zenon DEF Advice!First
  <2> QED BY <2>2, <2>6, <2>7
<1>5. ASSUME NEW v \in values_ \ Advice!ToSet(a) PROVE n < Advice!First(listed, v)
  <2>1. Advice!First(listed, v) \in Nat /\ Advice!First(listed, v) \in DOMAIN listed /\ listed[Advice!First(listed, v)] = v
    BY <1>3
  <2> SUFFICES ASSUME ~(n < Advice!First(listed, v)) PROVE FALSE
    OBVIOUS
  <2>2. Advice!First(listed, v) \in 1..n
    BY <1>1, <2>1
  <2>3. v = a[Advice!First(listed, v)]
    BY <1>1, <2>1, <2>2
  <2> QED BY <1>1, <2>2, <2>3 DEF Advice!ToSet
<1>6. \A v \in values_ : (v \in Advice!ToSet(a) <=> \E i \in 1..n : v = a[i])
  BY <1>1 DEF Advice!ToSet
<1>7. ASSUME NEW i \in 1..n PROVE Cardinality(Before(values_, listed, a[i])) = i - 1
  <2> DEFINE g == [j \in 1..(i - 1) |-> a[j]]
             B == Before(values_, listed, a[i])
  <2>1. \A j \in 1..(i - 1) : j \in 1..n /\ j < i
    BY <1>1
  <2>2. \A j \in 1..(i - 1) : a[j] \in B
    BY <1>4, <2>1 DEF Before
  <2>3. \A w \in B : \E j \in 1..(i - 1) : a[j] = w
    <3> SUFFICES ASSUME NEW w \in B PROVE \E j \in 1..(i - 1) : a[j] = w
      OBVIOUS
    <3>1. w \in values_ /\ Advice!First(listed, w) < i
      BY <1>4 DEF Before
    <3>2. w \in Advice!ToSet(a)
      <4> SUFFICES ASSUME w \notin Advice!ToSet(a) PROVE FALSE
        OBVIOUS
      <4>1. n < Advice!First(listed, w)
        BY <1>5, <3>1
      <4> QED BY <1>1, <1>3, <3>1, <4>1
    <3>3. PICK j \in 1..n : w = a[j]
      BY <1>6, <3>1, <3>2
    <3>4. j < i
      BY <1>4, <3>1, <3>3
    <3>5. j \in 1..(i - 1)
      BY <1>1, <3>3, <3>4
    <3> QED BY <3>3, <3>5
  <2>4. \A j, k \in 1..(i - 1) : a[j] = a[k] => j = k
    BY <1>1, <2>1
  <2> HIDE DEF B
  <2>5. g \in Bijection(1..(i - 1), B)
    BY <2>2, <2>3, <2>4 DEF Bijection, Injection, Surjection, IsInjective
  <2>6. IsFiniteSet(1..(i - 1)) /\ Cardinality(1..(i - 1)) = i - 1
    <3>1. i - 1 \in Nat
      BY <1>1
    <3> DEFINE m == i - 1
    <3>2. m \in Nat
      BY <3>1
    <3> HIDE DEF m
    <3>3. IsFiniteSet(1..m) /\ Cardinality(1..m) = m
      BY <3>2, FS_Interval
    <3> QED BY <3>3 DEF m
  <2>7. Cardinality(B) = Cardinality(1..(i - 1))
    <3>1. ExistsBijection(1..(i - 1), B)
      BY <2>5 DEF ExistsBijection
    <3> DEFINE spots == 1..(i - 1)
    <3>2. ExistsBijection(spots, B) /\ IsFiniteSet(spots)
      BY <2>6, <3>1
    <3> HIDE DEF g, spots
    <3>3. Cardinality(B) = Cardinality(spots)
      BY <3>2, FS_Bijection
    <3> QED BY <3>3 DEF spots
  <2> QED BY <2>6, <2>7 DEF B
<1>8. ASSUME NEW v \in values_ \ Advice!ToSet(a)
      PROVE  Cardinality(Before(values_, listed, v)) \in Nat /\ n <= Cardinality(Before(values_, listed, v))
  <2> DEFINE B == Before(values_, listed, v)
             g == [j \in 1..n |-> a[j]]
  <2>1. IsFiniteSet(B)
    BY FS_Subset DEF Before
  <2>2. \A j \in 1..n : a[j] \in B
    <3> SUFFICES ASSUME NEW j \in 1..n PROVE a[j] \in B
      OBVIOUS
    <3>1. Advice!First(listed, a[j]) = j /\ a[j] \in values_ /\ n < Advice!First(listed, v)
      BY <1>4, <1>5
    <3>2. j < Advice!First(listed, v)
      BY <1>1, <1>3, <3>1
    <3> QED BY <3>1, <3>2 DEF Before
  <2> HIDE DEF B
  <2>3. g \in [1..n -> B] /\ \A j, k \in 1..n : g[j] = g[k] => j = k
    BY <1>1, <2>2
  <2>4. IsFiniteSet(1..n) /\ Cardinality(1..n) = n
    BY <1>1, FS_Interval
  <2>5. Cardinality(B) \in Nat
    BY <2>1, FS_CardinalityType
  <2>6. ~(Cardinality(B) < Cardinality(1..n))
    <3> SUFFICES ASSUME Cardinality(B) < Cardinality(1..n) PROVE FALSE
      OBVIOUS
    <3> DEFINE spots == 1..n
    <3>1. g \in [spots -> B] /\ IsFiniteSet(spots) /\ Cardinality(B) < Cardinality(spots) /\ \A j, k \in spots : j # k => g[j] # g[k]
      BY <2>3, <2>4
    <3> HIDE DEF g, spots
    <3>2. \E j, k \in spots : j # k /\ g[j] = g[k]
      BY <2>1, <3>1, FS_PigeonHole
    <3> QED BY <3>1, <3>2
  <2> QED BY <1>1, <2>4, <2>5, <2>6 DEF B
<1> QED BY <1>7, <1>8 DEF listed, n

\* Values of the profile get labels of their places if those are free; what only
\* the specification has gets one of a later place.
LabelledByPlace(m, a, f, taken, others) ==
    /\ \A i \in DOMAIN a : <<"a", f, i - 1, 0>> \notin taken => m[a[i]] = <<"a", f, i - 1, 0>>
    /\ \A v \in others : \E j \in Nat : Len(a) <= j /\ m[v] = Advice!Label("a", f, j, taken)

\* The labels of a field tell the place at which its value is first listed.
LEMMA PlacesAreLabelled ==
    ASSUME NEW p, NEW s, Advice!IsDataset(p), Advice!IsDataset(s), NEW f, f \in DOMAIN p.fields, f \in DOMAIN s.fields,
           NEW a, a = p.fields[f].categories, \A i, j \in DOMAIN a : a[i] = a[j] => i = j,
           NEW skip, Advice!CategoriesIn(p, f) \cap skip = {}, NEW taken, IsFiniteSet(taken),
           NEW m, m = Advice!Labelling("a", p, s, f, skip, taken)
    PROVE  LabelledByPlace(m, a, f, taken, (ValuesOf(p, s, f) \ skip) \ Advice!CategoriesIn(p, f))
<1> DEFINE b == s.fields[f].categories
           listed == a \o b
           known == Advice!ToSet(listed) \ skip
           before(v) == {w \in known : Advice!First(listed, w) < Advice!First(listed, v)}
           W == Advice!ToSet(a) \cup Advice!ToSet(b)
<1>1. a \in Seq(Advice!ToSet(a)) /\ b \in Seq(Advice!ToSet(b))
  BY DEF Advice!IsDataset, Advice!IsField
<1>2. ValuesOf(p, s, f) = W /\ Advice!CategoriesIn(p, f) = Advice!ToSet(a)
  BY DEF ValuesOf, Advice!CategoriesIn
<1>3. m = [v \in known |-> Advice!Label("a", f, Cardinality(before(v)), taken)]
  <2> DEFINE x == p.fields[f].categories
             l == x \o b
             k == Advice!ToSet(l) \ skip
             u(v) == {w \in k : Advice!First(l, w) < Advice!First(l, v)}
  <2>1. Advice!Labelling("a", p, s, f, skip, taken) = [v \in k |-> Advice!Label("a", f, Cardinality(u(v)), taken)]
    BY AdviceCounts, Zenon DEF Advice!Labelling
  <2>2. x = a
    OBVIOUS
  <2> HIDE DEF x
  <2> QED BY <2>1, <2>2
<1> HIDE DEF b
<1>4. a \in Seq(W) /\ b \in Seq(W)
  BY <1>1
<1>5. Advice!ToSet(listed) = W
  <2> HIDE DEF W
  <2>1. /\ DOMAIN listed = 1..(Len(a) + Len(b))
        /\ \A i \in 1..(Len(a) + Len(b)) : listed[i] = IF i <= Len(a) THEN a[i] ELSE b[i - Len(a)]
        /\ Len(a) \in Nat /\ Len(b) \in Nat /\ DOMAIN a = 1..Len(a) /\ DOMAIN b = 1..Len(b)
    BY <1>4
  <2> HIDE DEF listed
  <2>2. ASSUME NEW v PROVE v \in Advice!ToSet(listed) <=> v \in Advice!ToSet(a) \cup Advice!ToSet(b)
    <3>1. ASSUME v \in Advice!ToSet(listed) PROVE v \in Advice!ToSet(a) \cup Advice!ToSet(b)
      <4>1. PICK i \in DOMAIN listed : v = listed[i]
        BY <3>1 DEF Advice!ToSet
      <4>2. i \in 1..(Len(a) + Len(b)) /\ v = IF i <= Len(a) THEN a[i] ELSE b[i - Len(a)]
        BY <2>1, <4>1
      <4>3. CASE i <= Len(a)
        <5>1. i \in DOMAIN a /\ v = a[i]
          BY <2>1, <4>2, <4>3
        <5> QED BY <5>1 DEF Advice!ToSet
      <4>4. CASE ~(i <= Len(a))
        <5>1. i - Len(a) \in DOMAIN b /\ v = b[i - Len(a)]
          BY <2>1, <4>2, <4>4
        <5> QED BY <5>1 DEF Advice!ToSet
      <4> QED BY <4>3, <4>4
    <3>2. ASSUME v \in Advice!ToSet(a) PROVE v \in Advice!ToSet(listed)
      <4>1. PICK i \in DOMAIN a : v = a[i]
        BY <3>2 DEF Advice!ToSet
      <4> QED BY <2>1, <4>1 DEF Advice!ToSet
    <3>3. ASSUME v \in Advice!ToSet(b) PROVE v \in Advice!ToSet(listed)
      <4>1. PICK i \in DOMAIN b : v = b[i]
        BY <3>3 DEF Advice!ToSet
      <4>2. i + Len(a) \in 1..(Len(a) + Len(b)) /\ ~(i + Len(a) <= Len(a)) /\ (i + Len(a)) - Len(a) = i
        <5> DEFINE n == Len(a)
                   k == Len(b)
        <5>1. n \in Nat /\ k \in Nat /\ i \in 1..k
          BY <2>1, <4>1
        <5> HIDE DEF n, k
        <5>2. i + n \in 1..(n + k) /\ ~(i + n <= n) /\ (i + n) - n = i
          BY <5>1
        <5> QED BY <5>2 DEF n, k
      <4> DEFINE k == i + Len(a)
      <4>3. k \in 1..(Len(a) + Len(b)) /\ ~(k <= Len(a)) /\ k - Len(a) = i
        BY <4>2
      <4> HIDE DEF k
      <4>4. k \in DOMAIN listed /\ listed[k] = v
        BY <2>1, <4>1, <4>3
      <4> QED BY <4>4 DEF Advice!ToSet
    <3> QED BY <3>1, <3>2, <3>3
  <2> QED BY <2>2 DEF W
<1>6. IsFiniteSet(known) /\ Advice!ToSet(a) \subseteq known /\ known \subseteq Advice!ToSet(listed)
  <2>1. IsFiniteSet(W)
    BY <1>1, ListsAreFinite, FS_Union
  <2>2. known \subseteq W
    BY <1>5
  <2>3. IsFiniteSet(known)
    <3> HIDE DEF W, known
    <3> QED BY <2>1, <2>2, FS_Subset
  <2> QED BY <1>2, <1>5, <2>3
<1> HIDE DEF W
<1>7. /\ \A i \in 1..Len(a) : Cardinality(Before(known, listed, a[i])) = i - 1
      /\ \A v \in known \ Advice!ToSet(a) :
            Cardinality(Before(known, listed, v)) \in Nat /\ Len(a) <= Cardinality(Before(known, listed, v))
  <2> HIDE DEF known
  <2> QED BY <1>4, <1>6, PlacesTell, SMTT(40)
<1>8. DOMAIN a = 1..Len(a)
  BY <1>1
<1>9. \A v : before(v) = Before(known, listed, v)
  BY DEF Before
<1> HIDE DEF before
<1>10. ASSUME NEW i \in DOMAIN a, <<"a", f, i - 1, 0>> \notin taken PROVE m[a[i]] = <<"a", f, i - 1, 0>>
  <2>1. a[i] \in known
    <3>1. a[i] \in Advice!ToSet(a)
      BY DEF Advice!ToSet
    <3> HIDE DEF known
    <3> QED BY <1>6, <3>1
  <2> HIDE DEF known
  <2>2. m[a[i]] = Advice!Label("a", f, i - 1, taken)
    BY <1>3, <1>7, <1>8, <1>9, <2>1
  <2>3. Advice!Label("a", f, i - 1, taken) = <<"a", f, i - 1, 0>>
    BY <1>10, FreshLabel
  <2> QED BY <2>2, <2>3
<1>11. ASSUME NEW v \in (ValuesOf(p, s, f) \ skip) \ Advice!CategoriesIn(p, f)
       PROVE  \E j \in Nat : Len(a) <= j /\ m[v] = Advice!Label("a", f, j, taken)
  <2>1. v \in known \ Advice!ToSet(a)
    BY <1>2, <1>5
  <2> HIDE DEF known
  <2> QED BY <1>3, <1>7, <1>9, <2>1
<1> QED BY <1>10, <1>11 DEF LabelledByPlace

\* A request whose values look like no labels.
IsPlain(p, s) ==
    /\ \A v \in Advice!AllValues(p) \cup Advice!AllValues(s) : ~Advice!IsLabel(v, {"a"})
    /\ \A f \in DOMAIN p.fields : \A i, j \in DOMAIN p.fields[f].categories :
        p.fields[f].categories[i] = p.fields[f].categories[j] => i = j
    /\ \A k \in Advice!Conditions(p) : k.equals \in Advice!CategoriesIn(p, k.on)

Allowed(p, s, f) == f \in p.allowed \cup s.allowed

\* The labels of a request: the profile's values in their places, each with the
\* place in it.
Placing(m, p, s, f) ==
    IF Allowed(p, s, f) THEN \A v \in ValuesOf(p, s, f) : m[v] = v
    ELSE /\ \A i \in DOMAIN p.fields[f].categories : m[p.fields[f].categories[i]] = <<"a", f, i - 1, 0>>
         /\ \A v \in ValuesOf(p, s, f) \ Advice!CategoriesIn(p, f) :
                \E j \in Nat : Len(p.fields[f].categories) <= j /\ m[v] = <<"a", f, j, 0>>

Placings(map, p, s) ==
    /\ Maps(map, p, s)
    /\ \A f \in DOMAIN p.fields :
        /\ Placing(map[f], p, s, f)
        /\ \A v, w \in ValuesOf(p, s, f) : map[f][v] = map[f][w] => v = w

\* A request of plain values is told in labels of places.
LEMMA RequestPlaces ==
    ASSUME NEW p, NEW s, Tellable(p, s), IsPlain(p, s),
           NEW map, map = Advice!Sanitizing(p, s, Advice!NothingKept(p))
    PROVE  Placings(map, p, s)
<1> DEFINE kept == Advice!NothingKept(p)
           taken == Advice!AllCategories(p) \cup Advice!AllCategories(s) \cup UNION Advice!Range(kept)
           found(f) == IF f \in p.allowed \cup s.allowed
                       THEN [v \in Advice!CategoriesIn(p, f) \cup Advice!CategoriesIn(s, f) |-> v]
                       ELSE Advice!Labelling("a", p, s, f, kept[f], taken)
<1>1. Advice!IsDataset(p) /\ Advice!IsDataset(s) /\ DOMAIN p.fields = DOMAIN s.fields
  BY DEF Tellable
<1>2. kept = [f \in DOMAIN p.fields |-> {}]
  BY DEF Advice!NothingKept
<1>3. map = [f \in DOMAIN p.fields |->
                [v \in DOMAIN found(f) \cup kept[f] |-> IF v \in kept[f] THEN v ELSE found(f)[v]]]
  BY Zenon DEF Advice!Sanitizing
<1> HIDE DEF kept
<1>4. IsFiniteSet(taken) /\ \A v \in taken : ~Advice!IsLabel(v, {"a"})
  <2>1. UNION Advice!Range(kept) = {}
    BY <1>2 DEF Advice!Range
  <2>2. taken = Advice!AllCategories(p) \cup Advice!AllCategories(s)
    BY <2>1
  <2> HIDE DEF taken
  <2>3. IsFiniteSet(taken)
    BY <1>1, <2>2, ValuesAreFinite, FS_Union
  <2> QED BY <2>2, <2>3 DEF IsPlain, Advice!AllValues
<1> HIDE DEF taken
<1>5. \A f, i : <<"a", f, i, 0>> \notin taken
  <2>1. \A f, i : Advice!IsLabel(<<"a", f, i, 0>>, {"a"})
    BY DEF Advice!IsLabel
  <2> QED BY <1>4, <2>1
<1>6. ASSUME NEW f \in DOMAIN p.fields
      PROVE  /\ DOMAIN map[f] = ValuesOf(p, s, f) /\ Placing(map[f], p, s, f)
             /\ \A v, w \in ValuesOf(p, s, f) : map[f][v] = map[f][w] => v = w
  <2>1. DOMAIN map[f] = DOMAIN found(f) /\ \A v \in DOMAIN found(f) : map[f][v] = found(f)[v]
    <3> DEFINE u == found(f)
               none == kept[f]
    <3>1. none = {}
      BY <1>2
    <3>2. map[f] = [v \in DOMAIN u \cup none |-> IF v \in none THEN v ELSE u[v]]
      <4> HIDE DEF found, none
      <4> QED BY <1>3 DEF none
    <3> HIDE DEF u, none
    <3>3. DOMAIN map[f] = DOMAIN u /\ \A v \in DOMAIN u : map[f][v] = u[v]
      BY <3>1, <3>2
    <3> QED BY <3>3 DEF u
  <2>2. CASE Allowed(p, s, f)
    <3>1. found(f) = [v \in ValuesOf(p, s, f) |-> v]
      BY <2>2 DEF Allowed, ValuesOf
    <3> HIDE DEF found
    <3> QED BY <2>1, <2>2, <3>1 DEF Placing
  <2>3. CASE ~Allowed(p, s, f)
    <3> DEFINE a == p.fields[f].categories
               m == found(f)
    <3>1. m = Advice!Labelling("a", p, s, f, {}, taken)
      BY <1>2, <2>3 DEF Allowed
    <3> HIDE DEF m
    <3>2. OwnLabels(m, "a", f, ValuesOf(p, s, f) \ {}, taken)
      BY <1>1, <1>4, <3>1, LabellingTells
    <3>3. ValuesOf(p, s, f) \ {} = ValuesOf(p, s, f) /\ Advice!CategoriesIn(p, f) \cap {} = {}
      OBVIOUS
    <3>4. \A i, j \in DOMAIN a : a[i] = a[j] => i = j
      BY DEF IsPlain
    <3>a. a = p.fields[f].categories /\ f \in DOMAIN s.fields
      BY <1>1
    <3> HIDE DEF a
    <3>b. LabelledByPlace(m, a, f, taken, (ValuesOf(p, s, f) \ {}) \ Advice!CategoriesIn(p, f))
      BY <1>1, <1>4, <3>1, <3>3, <3>4, <3>a, PlacesAreLabelled
    <3>5. /\ \A i \in DOMAIN a : <<"a", f, i - 1, 0>> \notin taken => m[a[i]] = <<"a", f, i - 1, 0>>
          /\ \A v \in (ValuesOf(p, s, f) \ {}) \ Advice!CategoriesIn(p, f) :
                \E j \in Nat : Len(a) <= j /\ m[v] = Advice!Label("a", f, j, taken)
      BY <3>b DEF LabelledByPlace
    <3>6. \A j : Advice!Label("a", f, j, taken) = <<"a", f, j, 0>>
      BY <1>4, <1>5, FreshLabel
    <3>7. DOMAIN map[f] = ValuesOf(p, s, f) /\ \A v \in ValuesOf(p, s, f) : map[f][v] = m[v]
      BY <2>1, <3>2, <3>3 DEF OwnLabels, m
    <3>8. \A v, w \in ValuesOf(p, s, f) : map[f][v] = map[f][w] => v = w
      BY <3>2, <3>3, <3>7 DEF OwnLabels
    <3>9. \A i \in DOMAIN a : a[i] \in ValuesOf(p, s, f)
      BY DEF a, ValuesOf, Advice!CategoriesIn, Advice!ToSet
    <3>10. \A i \in DOMAIN a : map[f][a[i]] = <<"a", f, i - 1, 0>>
      BY <1>5, <3>5, <3>7, <3>9
    <3>11. \A v \in ValuesOf(p, s, f) \ Advice!CategoriesIn(p, f) :
                \E j \in Nat : Len(a) <= j /\ map[f][v] = <<"a", f, j, 0>>
      BY <3>3, <3>5, <3>6, <3>7
    <3> QED BY <2>3, <3>7, <3>8, <3>10, <3>11 DEF Placing, a
  <2> QED BY <2>2, <2>3
<1>7. DOMAIN map = DOMAIN p.fields
  BY <1>3
<1> QED BY <1>6, <1>7 DEF Placings, Maps

\* What a replacement makes of a data set, in short.
IsReplaced(d, map, e) ==
    /\ Advice!IsDataset(e)
    /\ e.names = d.names /\ e.allowed = d.allowed /\ e.key = d.key /\ e.settings = d.settings
    /\ DOMAIN e.fields = DOMAIN d.fields
    /\ \A f \in DOMAIN d.fields : e.fields[f] = Advice!Recategorised(d.fields[f], f, map)
    /\ e.constraints = [i \in DOMAIN d.constraints |-> Advice!Reconditioned(d.constraints[i], map)]

\* A replacement makes of a data set what it should.
LEMMA ReplacedIs == ASSUME NEW d, Advice!IsDataset(d), NEW map PROVE IsReplaced(d, map, Advice!Replaced(d, map))
<1> DEFINE e == Advice!Replaced(d, map)
<1>1. e = Advice!Replaced(d, map)
  OBVIOUS
<1> HIDE DEF e
<1>2. IsReplaced(d, map, e)
  BY <1>1, ReplacedTells DEF IsReplaced
<1> QED BY <1>1, <1>2

\* The way back that a request shows to who has its profile.
BackOf(p, q) ==
    [f \in DOMAIN p.fields |->
        [l \in {q.profile.fields[f].categories[i] : i \in Advice!Placed(p, q, f)} |->
            p.fields[f].categories[CHOOSE i \in Advice!Placed(p, q, f) : q.profile.fields[f].categories[i] = l]]]

\* On this way a value of the profile returns, and what only the specification
\* has stays a label.
Among(p, map, f, v) == IF v \in Advice!CategoriesIn(p, f) THEN v ELSE map[f][v]

WayBack(back, map, p, s) ==
    \A f \in DOMAIN p.fields : \A v \in ValuesOf(p, s, f) :
        Advice!Mapped(back, f, map[f][v]) = Among(p, map, f, v)

\* Labels of places return the values that stand there, and the other labels stay.
LEMMA PlacesReturn ==
    ASSUME NEW p, NEW s, Tellable(p, s), IsPlain(p, s), NEW map, Placings(map, p, s),
           NEW q, q.profile = Advice!Replaced(p, map), NEW back, back = BackOf(p, q)
    PROVE  WayBack(back, map, p, s)
<1> SUFFICES ASSUME NEW f \in DOMAIN p.fields, NEW v \in ValuesOf(p, s, f)
             PROVE  Advice!Mapped(back, f, map[f][v]) = Among(p, map, f, v)
  BY DEF WayBack
<1> DEFINE a == p.fields[f].categories
           b == q.profile.fields[f].categories
           placed == Advice!Placed(p, q, f)
           m == map[f]
<1>1. Advice!IsDataset(p) /\ DOMAIN a = 1..Len(a) /\ Len(a) \in Nat
  BY DatasetTells DEF Tellable
<1>2. \A i \in DOMAIN a : a[i] \in ValuesOf(p, s, f)
  BY DEF ValuesOf, Advice!CategoriesIn, Advice!ToSet
<1>3. DOMAIN b = DOMAIN a /\ \A i \in DOMAIN a : b[i] = m[a[i]]
  <2> DEFINE x == p.fields[f]
             z == q.profile.fields[f]
  <2>1. z = Advice!Recategorised(x, f, map) /\ Advice!IsField(x)
    <3>1. IsReplaced(p, map, q.profile)
      BY <1>1, ReplacedIs
    <3> QED BY <1>1, <3>1, DatasetTells DEF IsReplaced
  <2>2. a = x.categories /\ b = z.categories
    OBVIOUS
  <2> HIDE DEF x, z
  <2>3. IsRecategorised(x, f, map, z)
    BY <2>1, RecategorisedTells
  <2>4. DOMAIN b = DOMAIN a /\ \A i \in DOMAIN a : b[i] = Advice!Mapped(map, f, a[i])
    BY <2>2, <2>3 DEF IsRecategorised
  <2>5. \A i \in DOMAIN a : Advice!Mapped(map, f, a[i]) = m[a[i]]
    BY <1>2 DEF Placings, Maps, Advice!Mapped
  <2> QED BY <2>4, <2>5
<1>4. placed = {i \in DOMAIN a : Advice!IsLabel(b[i], {"a"}) /\ b[i][2] = f /\ b[i][3] = i - 1}
  BY <1>3 DEF Advice!Placed
<1>5. back[f] = [l \in {b[i] : i \in placed} |-> a[CHOOSE i \in placed : b[i] = l]] /\ f \in DOMAIN back
  <2>1. BackOf(p, q)[f] = [l \in {b[i] : i \in placed} |-> a[CHOOSE i \in placed : b[i] = l]] /\ f \in DOMAIN BackOf(p, q)
    BY DEF BackOf
  <2> QED BY <2>1
<1>6. Placing(m, p, s, f)
  BY DEF Placings
<1>7. v \in Advice!CategoriesIn(p, f) <=> \E i \in DOMAIN a : v = a[i]
  BY <1>1, DatasetTells
<1> HIDE DEF b, placed
<1>8. CASE Allowed(p, s, f)
  <2>1. m[v] = v /\ \A i \in DOMAIN a : b[i] = a[i]
    BY <1>2, <1>3, <1>6, <1>8 DEF Placing
  <2>2. \A i \in DOMAIN a : ~Advice!IsLabel(a[i], {"a"})
    <3>1. \A i \in DOMAIN a : a[i] \in Advice!AllValues(p)
      BY DEF Advice!AllValues, Advice!AllCategories, Advice!CategoriesIn, Advice!ToSet
    <3> QED BY <3>1 DEF IsPlain
  <2>3. placed = {}
    BY <1>4, <2>1, <2>2
  <2>4. DOMAIN back[f] = {}
    BY <1>5, <2>3
  <2>5. Advice!Mapped(back, f, m[v]) = v
    BY <2>1, <2>4 DEF Advice!Mapped
  <2> QED BY <2>1, <2>5 DEF Among
<1>9. CASE ~Allowed(p, s, f)
  <2>1. \A i \in DOMAIN a : b[i] = <<"a", f, i - 1, 0>>
    BY <1>3, <1>6, <1>9 DEF Placing
  <2>2. placed = DOMAIN a
    <3>1. \A i : Advice!IsLabel(<<"a", f, i - 1, 0>>, {"a"})
      BY DEF Advice!IsLabel
    <3>2. ASSUME NEW i \in DOMAIN a PROVE Advice!IsLabel(b[i], {"a"}) /\ b[i][2] = f /\ b[i][3] = i - 1
      BY <2>1, <3>1, SMTT(40)
    <3> QED BY <1>4, <3>2
  <2>3. ASSUME NEW i \in DOMAIN a, v = a[i] PROVE Advice!Mapped(back, f, m[v]) = v
    <3>1. m[v] = b[i] /\ m[v] \in {b[j] : j \in placed}
      BY <1>3, <2>2, <2>3
    <3>2. \A j \in placed : b[j] = b[i] => j = i
      <4> SUFFICES ASSUME NEW j \in placed, b[j] = b[i] PROVE j = i
        OBVIOUS
      <4>1. b[j][3] = j - 1 /\ b[i][3] = i - 1
        BY <2>1, <2>2
      <4>2. i \in Nat /\ j \in Nat
        BY <1>1, <2>2
      <4> QED BY <4>1, <4>2
    <3>3. (CHOOSE j \in placed : b[j] = b[i]) = i
      BY <2>2, <3>2
    <3>4. back[f][b[i]] = a[i] /\ b[i] \in DOMAIN back[f]
      BY <1>5, <3>1, <3>3
    <3> QED BY <1>5, <2>3, <3>1, <3>4 DEF Advice!Mapped
  <2>4. ASSUME v \notin Advice!CategoriesIn(p, f) PROVE Advice!Mapped(back, f, m[v]) = m[v]
    <3>1. PICK j \in Nat : Len(a) <= j /\ m[v] = <<"a", f, j, 0>>
      BY <1>6, <1>9, <2>4 DEF Placing
    <3>2. \A i \in placed : b[i] # m[v]
      <4> SUFFICES ASSUME NEW i \in placed, b[i] = m[v] PROVE FALSE
        OBVIOUS
      <4>1. b[i][3] = i - 1 /\ m[v][3] = j
        BY <2>1, <2>2, <3>1
      <4>2. i \in Nat /\ i <= Len(a)
        BY <1>1, <2>2
      <4> QED BY <1>1, <3>1, <4>1, <4>2
    <3>3. m[v] \notin DOMAIN back[f]
      BY <1>5, <3>2
    <3> QED BY <3>3 DEF Advice!Mapped
  <2> QED BY <1>7, <2>3, <2>4 DEF Among
<1> QED BY <1>8, <1>9

\* Labels that stay are those of what only the specification has.
KeepsOthers(kept, map, p, s) ==
    /\ DOMAIN kept = DOMAIN p.fields
    /\ \A f \in DOMAIN p.fields : \A l : l \in kept[f] <=>
            \E v \in Advice!CategoriesIn(s, f) : v \notin Advice!CategoriesIn(p, f) /\ l = map[f][v]

\* The labels that are kept are those of what only the specification has.
LEMMA OthersStay ==
    ASSUME NEW p, NEW s, Tellable(p, s), NEW map, Placings(map, p, s),
           NEW q, q.profile = Advice!Replaced(p, map), q.spec = Advice!Replaced(s, map),
           NEW kept, kept = Advice!KeptLabels(q)
    PROVE  KeepsOthers(kept, map, p, s)
<1>1. Advice!IsDataset(p) /\ Advice!IsDataset(s) /\ DOMAIN s.fields = DOMAIN p.fields
  BY DEF Tellable
<1>2. DOMAIN q.spec.fields = DOMAIN p.fields
  <2>1. IsReplaced(s, map, q.spec)
    BY <1>1, ReplacedIs
  <2> QED BY <1>1, <2>1 DEF IsReplaced
<1>3. DOMAIN kept = DOMAIN p.fields
  BY <1>2 DEF Advice!KeptLabels
<1>4. ASSUME NEW f \in DOMAIN p.fields, NEW l
      PROVE  l \in kept[f] <=>
                \E v \in Advice!CategoriesIn(s, f) : v \notin Advice!CategoriesIn(p, f) /\ l = map[f][v]
  <2>1. \A w \in ValuesOf(p, s, f) : Advice!Mapped(map, f, w) = map[f][w]
    BY DEF Placings, Maps, Advice!Mapped
  <2>2. l \in kept[f] <=> l \in Advice!CategoriesIn(q.spec, f) /\ l \notin Advice!CategoriesIn(q.profile, f)
    BY <1>2 DEF Advice!KeptLabels
  <2>3. l \in Advice!CategoriesIn(q.spec, f) <=> \E w \in Advice!CategoriesIn(s, f) : l = Advice!Mapped(map, f, w)
    BY <1>1, ReplacedValues
  <2>4. l \in Advice!CategoriesIn(q.profile, f) <=> \E w \in Advice!CategoriesIn(p, f) : l = Advice!Mapped(map, f, w)
    BY <1>1, ReplacedValues
  <2>5. \A v, w \in ValuesOf(p, s, f) : map[f][v] = map[f][w] => v = w
    BY DEF Placings
  <2>6. \A w \in Advice!CategoriesIn(s, f) \cup Advice!CategoriesIn(p, f) : w \in ValuesOf(p, s, f)
    BY DEF ValuesOf
  <2> QED BY <2>1, <2>2, <2>3, <2>4, <2>5, <2>6
<1> QED BY <1>3, <1>4 DEF KeepsOthers

\* The specification that is told of, on its way back.
SpecBack(s2, map, p, s) ==
    /\ Advice!IsDataset(s2) /\ DOMAIN s2.fields = DOMAIN p.fields /\ s2.allowed = s.allowed
    /\ \A f \in DOMAIN p.fields : \A l : l \in Advice!CategoriesIn(s2, f) <=>
            \E v \in Advice!CategoriesIn(s, f) : l = Among(p, map, f, v)

\* A specification that is told of comes back with the values of the profile and kept labels.
LEMMA SpecComesBack ==
    ASSUME NEW p, NEW s, Tellable(p, s), NEW map, Placings(map, p, s), NEW back, WayBack(back, map, p, s),
           NEW t, t = Advice!Replaced(s, map), NEW s2, s2 = Advice!Replaced(t, back)
    PROVE  SpecBack(s2, map, p, s)
<1>1. Advice!IsDataset(s) /\ DOMAIN s.fields = DOMAIN p.fields
  BY DEF Tellable
<1>2. Advice!IsDataset(t) /\ DOMAIN t.fields = DOMAIN s.fields /\ t.allowed = s.allowed
  <2>1. IsReplaced(s, map, t)
    BY <1>1, ReplacedIs
  <2> QED BY <2>1 DEF IsReplaced
<1>3. Advice!IsDataset(s2) /\ DOMAIN s2.fields = DOMAIN t.fields /\ s2.allowed = t.allowed
  <2>1. IsReplaced(t, back, s2)
    BY <1>2, ReplacedIs
  <2> QED BY <2>1 DEF IsReplaced
<1>4. ASSUME NEW f \in DOMAIN p.fields, NEW l
      PROVE  l \in Advice!CategoriesIn(s2, f) <=> \E v \in Advice!CategoriesIn(s, f) : l = Among(p, map, f, v)
  <2>1. \A v \in Advice!CategoriesIn(s, f) : /\ Advice!Mapped(map, f, v) = map[f][v]
                                             /\ Advice!Mapped(back, f, map[f][v]) = Among(p, map, f, v)
    BY DEF Placings, Maps, Advice!Mapped, ValuesOf, WayBack
  <2>2. \A v : v \in Advice!CategoriesIn(s2, f) <=> \E w \in Advice!CategoriesIn(t, f) : v = Advice!Mapped(back, f, w)
    BY <1>1, <1>2, ReplacedValues
  <2>3. \A v : v \in Advice!CategoriesIn(t, f) <=> \E w \in Advice!CategoriesIn(s, f) : v = Advice!Mapped(map, f, w)
    BY <1>1, ReplacedValues
  <2> QED BY <2>1, <2>2, <2>3
<1> QED BY <1>1, <1>2, <1>3, <1>4 DEF SpecBack

\* A request that is made again has the labels that it had.
AsBefore(again, map, p, s) ==
    /\ DOMAIN again = DOMAIN p.fields
    /\ \A f \in DOMAIN p.fields : \A v \in ValuesOf(p, s, f) :
        Among(p, map, f, v) \in DOMAIN again[f] /\ again[f][Among(p, map, f, v)] = map[f][v]

\* Projecting what came back gives every value the label that it had before.
LEMMA PlacesStay ==
    ASSUME NEW p, NEW s, Tellable(p, s), IsPlain(p, s), NEW map, Placings(map, p, s),
           NEW s2, SpecBack(s2, map, p, s), NEW kept, KeepsOthers(kept, map, p, s),
           NEW again, again = Advice!Sanitizing(p, s2, kept)
    PROVE  AsBefore(again, map, p, s)
<1> DEFINE taken == Advice!AllCategories(p) \cup Advice!AllCategories(s2) \cup UNION Advice!Range(kept)
           found(f) == IF f \in p.allowed \cup s2.allowed
                       THEN [v \in Advice!CategoriesIn(p, f) \cup Advice!CategoriesIn(s2, f) |-> v]
                       ELSE Advice!Labelling("a", p, s2, f, kept[f], taken)
<1>1. /\ Advice!IsDataset(p) /\ Advice!IsDataset(s) /\ Advice!IsDataset(s2)
      /\ DOMAIN s.fields = DOMAIN p.fields /\ DOMAIN s2.fields = DOMAIN p.fields /\ s2.allowed = s.allowed
  BY DEF Tellable, SpecBack
<1>2. again = [f \in DOMAIN p.fields |->
                [v \in DOMAIN found(f) \cup kept[f] |-> IF v \in kept[f] THEN v ELSE found(f)[v]]]
  BY Zenon DEF Advice!Sanitizing
<1>3. \A f \in DOMAIN p.fields : \A v \in ValuesOf(p, s, f) : ~Advice!IsLabel(v, {"a"})
  BY DEF IsPlain, Advice!AllValues, Advice!AllCategories, ValuesOf, Tellable
<1>4. \A f, j : Advice!IsLabel(<<"a", f, j, 0>>, {"a"})
  BY DEF Advice!IsLabel
<1>5. ASSUME NEW g \in DOMAIN p.fields, NEW v \in ValuesOf(p, s, g), v \notin Advice!CategoriesIn(p, g),
             NEW f \in DOMAIN p.fields, ~Allowed(p, s, f), NEW i \in DOMAIN p.fields[f].categories
      PROVE  map[g][v] # <<"a", f, i - 1, 0>>
  <2>1. Placing(map[g], p, s, g)
    BY DEF Placings
  <2>2. CASE Allowed(p, s, g)
    <3>1. map[g][v] = v
      BY <2>1, <2>2 DEF Placing
    <3> QED BY <1>3, <1>4, <3>1
  <2>3. CASE ~Allowed(p, s, g)
    <3> DEFINE n == Len(p.fields[g].categories)
    <3>1. PICK j \in Nat : n <= j /\ map[g][v] = <<"a", g, j, 0>>
      BY <1>5, <2>1, <2>3 DEF Placing
    <3>2. g = f => i \in Nat /\ i <= n /\ n \in Nat
      BY <1>1, DatasetTells
    <3> HIDE DEF n
    <3> SUFFICES ASSUME map[g][v] = <<"a", f, i - 1, 0>> PROVE FALSE
      OBVIOUS
    <3>3. g = f /\ j = i - 1
      <4>1. <<"a", g, j, 0>>[2] = g /\ <<"a", g, j, 0>>[3] = j
        OBVIOUS
      <4>2. <<"a", f, i - 1, 0>>[2] = f /\ <<"a", f, i - 1, 0>>[3] = i - 1
        OBVIOUS
      <4> QED BY <3>1, <4>1, <4>2
    <3> QED BY <3>1, <3>2, <3>3
  <2> QED BY <2>2, <2>3
<1>6. \A f \in DOMAIN p.fields : Advice!CategoriesIn(p, f) \cap kept[f] = {}
  <2> SUFFICES ASSUME NEW f \in DOMAIN p.fields, NEW l \in Advice!CategoriesIn(p, f), l \in kept[f] PROVE FALSE
    OBVIOUS
  <2>1. PICK v \in Advice!CategoriesIn(s, f) : v \notin Advice!CategoriesIn(p, f) /\ l = map[f][v]
    BY DEF KeepsOthers
  <2>2. v \in ValuesOf(p, s, f) /\ l \in ValuesOf(p, s, f) /\ v # l /\ Placing(map[f], p, s, f)
    BY <2>1 DEF ValuesOf, Placings
  <2>3. CASE Allowed(p, s, f)
    BY <2>1, <2>2, <2>3 DEF Placing
  <2>4. CASE ~Allowed(p, s, f)
    <3>1. PICK j \in Nat : map[f][v] = <<"a", f, j, 0>>
      BY <2>1, <2>2, <2>4 DEF Placing
    <3> QED BY <1>3, <1>4, <2>1, <2>2, <3>1
  <2> QED BY <2>3, <2>4
<1>7. ASSUME NEW f \in DOMAIN p.fields, ~Allowed(p, s, f), NEW i \in DOMAIN p.fields[f].categories
      PROVE  <<"a", f, i - 1, 0>> \notin taken
  <2> DEFINE l == <<"a", f, i - 1, 0>>
  <2>1. \A g \in DOMAIN p.fields : l \notin kept[g]
    <3> SUFFICES ASSUME NEW g \in DOMAIN p.fields, l \in kept[g] PROVE FALSE
      OBVIOUS
    <3> HIDE DEF l
    <3>1. PICK v \in Advice!CategoriesIn(s, g) : v \notin Advice!CategoriesIn(p, g) /\ l = map[g][v]
      BY DEF KeepsOthers
    <3>2. v \in ValuesOf(p, s, g)
      BY DEF ValuesOf
    <3> QED BY <1>5, <1>7, <3>1, <3>2 DEF l
  <2>2. \A g \in DOMAIN p.fields : \A v \in ValuesOf(p, s, g) : v # l
    BY <1>3, <1>4
  <2>3. \A g \in DOMAIN p.fields : l \notin Advice!CategoriesIn(s2, g)
    <3> SUFFICES ASSUME NEW g \in DOMAIN p.fields, l \in Advice!CategoriesIn(s2, g) PROVE FALSE
      OBVIOUS
    <3> HIDE DEF l
    <3>1. PICK v \in Advice!CategoriesIn(s, g) : l = Among(p, map, g, v)
      BY DEF SpecBack
    <3>2. v \in ValuesOf(p, s, g)
      BY DEF ValuesOf
    <3>3. v \notin Advice!CategoriesIn(p, g) /\ l = map[g][v]
      BY <2>2, <3>1, <3>2 DEF Among
    <3> QED BY <1>5, <1>7, <3>2, <3>3 DEF l
  <2>4. \A g \in DOMAIN p.fields : l \notin Advice!CategoriesIn(p, g)
    BY <2>2 DEF ValuesOf
  <2> HIDE DEF l
  <2>5. l \notin Advice!AllCategories(p) /\ l \notin Advice!AllCategories(s2)
    BY <1>1, <2>3, <2>4 DEF Advice!AllCategories
  <2>6. l \notin UNION Advice!Range(kept)
    BY <2>1 DEF Advice!Range, KeepsOthers
  <2>7. l \notin taken
    BY <2>5, <2>6
  <2> QED BY <2>7 DEF l
<1>8. IsFiniteSet(taken)
  <2>1. \A f \in DOMAIN p.fields : IsFiniteSet(kept[f])
    <3> SUFFICES ASSUME NEW f \in DOMAIN p.fields PROVE IsFiniteSet(kept[f])
      OBVIOUS
    <3> DEFINE others == Advice!CategoriesIn(s, f) \ Advice!CategoriesIn(p, f)
    <3>1. IsFiniteSet(Advice!CategoriesIn(s, f))
      <4>1. Advice!IsField(s.fields[f])
        BY <1>1, DatasetTells
      <4> QED BY <4>1, ListsAreFinite DEF Advice!IsField, Advice!CategoriesIn
    <3>2. IsFiniteSet(others)
      BY <3>1, FS_Subset
    <3>3. [v \in others |-> map[f][v]] \in Surjection(others, kept[f])
      <4>1. \A l : l \in kept[f] <=> \E v \in others : l = map[f][v]
        BY DEF KeepsOthers
      <4> HIDE DEF others
      <4> QED BY <4>1 DEF Surjection
    <3> HIDE DEF others
    <3> QED BY <3>2, <3>3, FS_Surjection
  <2> DEFINE lists == Advice!Range(kept)
  <2>2. \A w \in lists : IsFiniteSet(w)
    BY <2>1 DEF Advice!Range, KeepsOthers
  <2>3. IsFiniteSet(DOMAIN kept)
    BY <1>1, AdviceCounts DEF Advice!IsDataset, KeepsOthers
  <2>4. [f \in DOMAIN kept |-> kept[f]] \in Surjection(DOMAIN kept, lists)
    BY DEF Surjection, Advice!Range
  <2>5. IsFiniteSet(lists)
    BY <2>3, <2>4, FS_Surjection
  <2> HIDE DEF lists
  <2>6. IsFiniteSet(UNION lists)
    BY <2>2, <2>5, FS_UNION
  <2>7. IsFiniteSet(Advice!AllCategories(p)) /\ IsFiniteSet(Advice!AllCategories(s2))
    BY <1>1, ValuesAreFinite
  <2>8. taken = (Advice!AllCategories(p) \cup Advice!AllCategories(s2)) \cup (UNION lists)
    BY DEF lists
  <2> HIDE DEF taken
  <2> QED BY <2>6, <2>7, <2>8, FS_Union
<1> HIDE DEF taken
<1>9. ASSUME NEW f \in DOMAIN p.fields, NEW v \in ValuesOf(p, s, f)
      PROVE  Among(p, map, f, v) \in DOMAIN again[f] /\ again[f][Among(p, map, f, v)] = map[f][v]
  <2> DEFINE u == found(f)
             k == kept[f]
             w == Among(p, map, f, v)
  <2>1. again[f] = [x \in DOMAIN u \cup k |-> IF x \in k THEN x ELSE u[x]]
    <3> HIDE DEF found
    <3> QED BY <1>2
  <2>2. Placing(map[f], p, s, f)
    BY DEF Placings
  <2>3. CASE v \notin Advice!CategoriesIn(p, f)
    <3>1. w = map[f][v]
      BY <2>3 DEF Among
    <3>2. w \in k
      <4>1. v \in Advice!CategoriesIn(s, f)
        BY <2>3 DEF ValuesOf
      <4> QED BY <2>3, <3>1, <4>1 DEF KeepsOthers
    <3> HIDE DEF u, k, w
    <3>3. w \in DOMAIN again[f] /\ again[f][w] = w
      BY <2>1, <3>2
    <3> QED BY <3>1, <3>3 DEF w
  <2>4. CASE v \in Advice!CategoriesIn(p, f)
    <3>1. w = v /\ v \notin k
      BY <1>6, <2>4 DEF Among
    <3>2. v \in DOMAIN u /\ u[v] = map[f][v]
      <4>1. CASE Allowed(p, s, f)
        <5>1. u = [x \in Advice!CategoriesIn(p, f) \cup Advice!CategoriesIn(s2, f) |-> x]
          BY <1>1, <4>1 DEF Allowed
        <5>2. map[f][v] = v
          BY <2>2, <4>1 DEF Placing
        <5> HIDE DEF u
        <5> QED BY <2>4, <5>1, <5>2
      <4>2. CASE ~Allowed(p, s, f)
        <5> DEFINE a == p.fields[f].categories
        <5>1. u = Advice!Labelling("a", p, s2, f, k, taken)
          BY <1>1, <4>2 DEF Allowed
        <5>2. Advice!CategoriesIn(p, f) \cap k = {} /\ f \in DOMAIN s2.fields
          BY <1>1, <1>6
        <5>3. a = p.fields[f].categories /\ \A i, j \in DOMAIN a : a[i] = a[j] => i = j
          BY DEF IsPlain
        <5>4. \A i \in DOMAIN a : <<"a", f, i - 1, 0>> \notin taken /\ map[f][a[i]] = <<"a", f, i - 1, 0>>
          BY <1>7, <2>2, <4>2 DEF Placing
        <5>5. PICK i \in DOMAIN a : v = a[i]
          BY <1>1, <2>4, DatasetTells
        <5> HIDE DEF a, u, k
        <5>6. LabelledByPlace(u, a, f, taken, (ValuesOf(p, s2, f) \ k) \ Advice!CategoriesIn(p, f))
          BY <1>1, <1>8, <5>1, <5>2, <5>3, PlacesAreLabelled
        <5>7. OwnLabels(u, "a", f, ValuesOf(p, s2, f) \ k, taken)
          BY <1>1, <1>8, <5>1, <5>2, LabellingTells
        <5>8. u[v] = map[f][v]
          BY <5>4, <5>5, <5>6 DEF LabelledByPlace
        <5>9. v \in DOMAIN u
          BY <2>4, <3>1, <5>7 DEF OwnLabels, ValuesOf
        <5> QED BY <5>8, <5>9
      <4> QED BY <4>1, <4>2
    <3> HIDE DEF u, k
    <3>3. v \in DOMAIN again[f] /\ again[f][v] = map[f][v]
      BY <2>1, <3>1, <3>2
    <3> QED BY <3>1, <3>3
  <2> QED BY <2>3, <2>4
<1>10. DOMAIN again = DOMAIN p.fields
  BY <1>2
<1> QED BY <1>9, <1>10 DEF AsBefore

\* Two data sets that become the same when each has its values replaced.
FieldsAlike(x, f, m, y, n) ==
    /\ x.type = y.type /\ x.sensitive = y.sensitive /\ x.identifier = y.identifier
    /\ x.semantic = y.semantic /\ x.local = y.local /\ DOMAIN x.categories = DOMAIN y.categories
    /\ \A i \in DOMAIN x.categories : Advice!Mapped(m, f, x.categories[i]) = Advice!Mapped(n, f, y.categories[i])
ConstraintsAlike(k, m, j, n) ==
    /\ k.type = j.type /\ k.targets = j.targets /\ k.from = j.from /\ k.on = j.on /\ k.local = j.local
    /\ k.on = None => k.equals = j.equals
    /\ k.on # None => Advice!Mapped(m, k.on, k.equals) = Advice!Mapped(n, j.on, j.equals)
Alike(d, m, e, n) ==
    /\ d.names = e.names /\ d.allowed = e.allowed /\ d.key = e.key /\ d.settings = e.settings
    /\ DOMAIN d.fields = DOMAIN e.fields /\ Len(d.constraints) = Len(e.constraints)
    /\ \A f \in DOMAIN d.fields : FieldsAlike(d.fields[f], f, m, e.fields[f], n)
    /\ \A i \in DOMAIN d.constraints : ConstraintsAlike(d.constraints[i], m, e.constraints[i], n)

\* Data sets alike in this way are replaced by the same data set.
LEMMA ReplacedAlike ==
    ASSUME NEW d, Advice!IsDataset(d), NEW e, Advice!IsDataset(e), NEW m, NEW n, Alike(d, m, e, n)
    PROVE  Advice!Replaced(d, m) = Advice!Replaced(e, n)
<1> DEFINE x == Advice!Replaced(d, m)
           y == Advice!Replaced(e, n)
<1>1. IsReplaced(d, m, x) /\ IsReplaced(e, n, y)
  BY ReplacedIs
<1> HIDE DEF x, y
<1>2. /\ Advice!IsDataset(x) /\ Advice!IsDataset(y) /\ DOMAIN x.fields = DOMAIN d.fields /\ DOMAIN y.fields = DOMAIN d.fields
      /\ x.names = y.names /\ x.allowed = y.allowed /\ x.key = y.key /\ x.settings = y.settings
  BY <1>1 DEF IsReplaced, Alike
<1>3. ASSUME NEW f \in DOMAIN x.fields PROVE FieldsEqual(x.fields[f], y.fields[f])
  <2> DEFINE a == d.fields[f]
             b == e.fields[f]
             v == x.fields[f]
             w == y.fields[f]
  <2>1. Advice!IsField(a) /\ Advice!IsField(b)
    BY <1>2, DatasetTells DEF Alike
  <2>2. v = Advice!Recategorised(a, f, m) /\ w = Advice!Recategorised(b, f, n) /\ FieldsAlike(a, f, m, b, n)
    BY <1>1, <1>2 DEF IsReplaced, Alike
  <2> HIDE DEF a, b, v, w
  <2>3. IsRecategorised(a, f, m, v) /\ IsRecategorised(b, f, n, w)
    BY <2>1, <2>2, RecategorisedTells
  <2>4. v.categories = w.categories
    <3>1. \A i \in DOMAIN a.categories : v.categories[i] = w.categories[i]
      BY <2>2, <2>3, SMTT(40) DEF FieldsAlike, IsRecategorised
    <3>2. /\ v.categories = [i \in DOMAIN a.categories |-> v.categories[i]]
          /\ w.categories = [i \in DOMAIN a.categories |-> w.categories[i]]
      BY <2>2, <2>3 DEF FieldsAlike, IsRecategorised
    <3> QED BY <3>1, <3>2
  <2>5. FieldsEqual(v, w)
    BY <2>2, <2>3, <2>4 DEF FieldsEqual, FieldsAlike, IsRecategorised
  <2> QED BY <2>5 DEF v, w
<1>4. /\ DOMAIN x.constraints = DOMAIN d.constraints /\ DOMAIN y.constraints = DOMAIN e.constraints
      /\ DOMAIN d.constraints = 1..Len(d.constraints) /\ DOMAIN e.constraints = 1..Len(e.constraints)
      /\ DOMAIN x.constraints = 1..Len(x.constraints) /\ DOMAIN y.constraints = 1..Len(y.constraints)
      /\ Len(d.constraints) = Len(e.constraints)
      /\ Len(d.constraints) \in Nat /\ Len(x.constraints) \in Nat /\ Len(y.constraints) \in Nat
  BY <1>1, <1>2, DatasetTells DEF IsReplaced, Alike
<1>5. Len(x.constraints) = Len(y.constraints)
  <2> DEFINE k == Len(x.constraints)
             l == Len(y.constraints)
  <2>1. k \in Nat /\ l \in Nat /\ 1..k = 1..l
    BY <1>4
  <2> HIDE DEF k, l
  <2>2. k = l
    BY <2>1
  <2> QED BY <2>2 DEF k, l
<1>6. ASSUME NEW i \in DOMAIN x.constraints PROVE ConstraintsEqual(x.constraints[i], y.constraints[i])
  <2> DEFINE a == d.constraints[i]
             b == e.constraints[i]
             v == x.constraints[i]
             w == y.constraints[i]
  <2>1. Advice!IsConstraint(a) /\ Advice!IsConstraint(b) /\ ConstraintsAlike(a, m, b, n)
    BY <1>4, DatasetTells DEF Alike
  <2>2. v = Advice!Reconditioned(a, m) /\ w = Advice!Reconditioned(b, n)
    BY <1>1, <1>4 DEF IsReplaced
  <2> HIDE DEF a, b, v, w
  <2>3. /\ v.type = a.type /\ v.targets = a.targets /\ v.from = a.from /\ v.on = a.on /\ v.local = a.local
        /\ v.equals = IF a.on = None THEN a.equals ELSE Advice!Mapped(m, a.on, a.equals)
    BY <2>1, <2>2, ReconditionedTells
  <2>4. /\ w.type = b.type /\ w.targets = b.targets /\ w.from = b.from /\ w.on = b.on /\ w.local = b.local
        /\ w.equals = IF b.on = None THEN b.equals ELSE Advice!Mapped(n, b.on, b.equals)
    BY <2>1, <2>2, ReconditionedTells
  <2>5. ConstraintsEqual(v, w)
    BY <2>1, <2>3, <2>4 DEF ConstraintsEqual, ConstraintsAlike
  <2> QED BY <2>5 DEF v, w
<1>7. x = y
  BY <1>2, <1>3, <1>5, <1>6, DatasetsAgree
<1> QED BY <1>7 DEF x, y

\* What becomes of the parts of a specification on the way there and back.
FieldBack(y, x, p, map, f) ==
    /\ y.type = x.type /\ y.sensitive = x.sensitive /\ y.identifier = x.identifier
    /\ y.semantic = x.semantic /\ y.local = x.local /\ DOMAIN y.categories = DOMAIN x.categories
    /\ \A i \in DOMAIN x.categories : y.categories[i] = Among(p, map, f, x.categories[i])
ConstraintBack(k, j, p, map) ==
    /\ k.type = j.type /\ k.targets = j.targets /\ k.from = j.from /\ k.on = j.on /\ k.local = j.local
    /\ k.equals = IF j.on = None THEN j.equals ELSE Among(p, map, j.on, j.equals)
PartsBack(s2, s, p, map) ==
    /\ s2.names = s.names /\ s2.allowed = s.allowed /\ s2.key = s.key /\ s2.settings = s.settings
    /\ DOMAIN s2.fields = DOMAIN s.fields /\ Len(s2.constraints) = Len(s.constraints)
    /\ DOMAIN s2.constraints = DOMAIN s.constraints
    /\ \A f \in DOMAIN s.fields : FieldBack(s2.fields[f], s.fields[f], p, map, f)
    /\ \A i \in DOMAIN s.constraints : ConstraintBack(s2.constraints[i], s.constraints[i], p, map)

\* Apart from its values, a specification comes back as it was.
LEMMA PartsComeBack ==
    ASSUME NEW p, NEW s, Tellable(p, s), NEW map, Placings(map, p, s), NEW back, WayBack(back, map, p, s),
           NEW t, t = Advice!Replaced(s, map), NEW s2, s2 = Advice!Replaced(t, back)
    PROVE  PartsBack(s2, s, p, map)
<1>1. Advice!IsDataset(s) /\ DOMAIN s.fields = DOMAIN p.fields
  BY DEF Tellable
<1>2. IsReplaced(s, map, t)
  BY <1>1, ReplacedIs
<1>3. IsReplaced(t, back, s2)
  BY <1>2, ReplacedIs DEF IsReplaced
<1>4. \A f \in DOMAIN p.fields : \A v \in ValuesOf(p, s, f) :
        Advice!Mapped(back, f, Advice!Mapped(map, f, v)) = Among(p, map, f, v)
  BY DEF Placings, Maps, Advice!Mapped, WayBack
<1>5. ASSUME NEW f \in DOMAIN s.fields PROVE FieldBack(s2.fields[f], s.fields[f], p, map, f)
  <2> DEFINE x == s.fields[f]
             y == t.fields[f]
             z == s2.fields[f]
  <2>1. Advice!IsField(x) /\ Advice!IsField(y)
    BY <1>1, <1>2, DatasetTells DEF IsReplaced
  <2>2. y = Advice!Recategorised(x, f, map) /\ z = Advice!Recategorised(y, f, back)
    BY <1>2, <1>3 DEF IsReplaced
  <2>3. \A i \in DOMAIN x.categories : x.categories[i] \in ValuesOf(p, s, f)
    BY DEF ValuesOf, Advice!CategoriesIn, Advice!ToSet
  <2>4. f \in DOMAIN p.fields
    BY <1>1
  <2> HIDE DEF x, y, z
  <2>5. IsRecategorised(x, f, map, y) /\ IsRecategorised(y, f, back, z)
    BY <2>1, <2>2, RecategorisedTells
  <2>6. DOMAIN y.categories = DOMAIN x.categories /\ DOMAIN z.categories = DOMAIN x.categories
    BY <2>5 DEF IsRecategorised
  <2>7. \A i \in DOMAIN x.categories : z.categories[i] = Among(p, map, f, x.categories[i])
    <3> SUFFICES ASSUME NEW i \in DOMAIN x.categories PROVE z.categories[i] = Among(p, map, f, x.categories[i])
      OBVIOUS
    <3>1. z.categories[i] = Advice!Mapped(back, f, Advice!Mapped(map, f, x.categories[i]))
      BY <2>5, <2>6 DEF IsRecategorised
    <3> QED BY <1>4, <2>3, <2>4, <3>1
  <2>8. FieldBack(z, x, p, map, f)
    BY <2>5, <2>6, <2>7 DEF FieldBack, IsRecategorised
  <2> QED BY <2>8 DEF x, z
<1>6. DOMAIN t.constraints = DOMAIN s.constraints /\ DOMAIN s2.constraints = DOMAIN s.constraints
  BY <1>2, <1>3 DEF IsReplaced
<1>7. ASSUME NEW i \in DOMAIN s.constraints PROVE ConstraintBack(s2.constraints[i], s.constraints[i], p, map)
  <2> DEFINE x == s.constraints[i]
             y == t.constraints[i]
             z == s2.constraints[i]
  <2>1. Advice!IsConstraint(x) /\ Advice!IsConstraint(y)
    BY <1>1, <1>2, <1>6, DatasetTells DEF IsReplaced
  <2>2. y = Advice!Reconditioned(x, map) /\ z = Advice!Reconditioned(y, back)
    BY <1>2, <1>3, <1>6 DEF IsReplaced
  <2>3. x.on # None => x.on \in DOMAIN p.fields /\ x.equals \in ValuesOf(p, s, x.on)
    <3>1. x.on # None => x \in Advice!Conditions(s)
      BY <1>1, DatasetTells
    <3> QED BY <3>1 DEF Tellable
  <2> HIDE DEF x, y, z
  <2>4. /\ y.type = x.type /\ y.targets = x.targets /\ y.from = x.from /\ y.on = x.on /\ y.local = x.local
        /\ y.equals = IF x.on = None THEN x.equals ELSE Advice!Mapped(map, x.on, x.equals)
    BY <2>1, <2>2, ReconditionedTells
  <2>5. /\ z.type = y.type /\ z.targets = y.targets /\ z.from = y.from /\ z.on = y.on /\ z.local = y.local
        /\ z.equals = IF y.on = None THEN y.equals ELSE Advice!Mapped(back, y.on, y.equals)
    BY <2>1, <2>2, ReconditionedTells
  <2>6. ConstraintBack(z, x, p, map)
    BY <1>4, <2>3, <2>4, <2>5 DEF ConstraintBack
  <2> QED BY <2>6 DEF x, z
<1>8. Len(s2.constraints) = Len(s.constraints)
  <2>1. DOMAIN s2.constraints = 1..Len(s2.constraints) /\ Len(s2.constraints) \in Nat
    BY <1>3, DatasetTells DEF IsReplaced
  <2>2. DOMAIN s.constraints = 1..Len(s.constraints) /\ Len(s.constraints) \in Nat
    BY <1>1, DatasetTells
  <2> DEFINE k == Len(s2.constraints)
             l == Len(s.constraints)
  <2>3. k \in Nat /\ l \in Nat /\ 1..k = 1..l
    BY <1>6, <2>1, <2>2
  <2> HIDE DEF k, l
  <2>4. k = l
    BY <2>3
  <2> QED BY <2>4 DEF k, l
<1> QED BY <1>2, <1>3, <1>5, <1>6, <1>7, <1>8 DEF PartsBack, IsReplaced

\* The profile is told of as before, and so is the specification that came back.
LEMMA ProfileAlike ==
    ASSUME NEW p, NEW s, Tellable(p, s), IsPlain(p, s), NEW map, Placings(map, p, s),
           NEW again, AsBefore(again, map, p, s)
    PROVE  Alike(p, again, p, map) /\ Advice!Represented(p, again)
<1>1. Advice!IsDataset(p)
  BY DEF Tellable
<1>2. \A f \in DOMAIN p.fields : \A v \in Advice!CategoriesIn(p, f) :
        /\ v \in DOMAIN again[f] /\ Advice!Mapped(again, f, v) = map[f][v] /\ Advice!Mapped(map, f, v) = map[f][v]
  BY DEF Placings, Maps, AsBefore, Among, Advice!Mapped, ValuesOf
<1>3. ASSUME NEW f \in DOMAIN p.fields PROVE FieldsAlike(p.fields[f], f, again, p.fields[f], map)
  <2>1. \A i \in DOMAIN p.fields[f].categories : p.fields[f].categories[i] \in Advice!CategoriesIn(p, f)
    BY <1>1, DatasetTells
  <2> QED BY <1>2, <2>1 DEF FieldsAlike
<1>4. \A k \in Advice!Conditions(p) : k.on \in DOMAIN p.fields /\ k.equals \in Advice!CategoriesIn(p, k.on)
  BY DEF Tellable, IsPlain
<1>5. ASSUME NEW i \in DOMAIN p.constraints PROVE ConstraintsAlike(p.constraints[i], again, p.constraints[i], map)
  <2>1. p.constraints[i].on # None => p.constraints[i] \in Advice!Conditions(p)
    BY <1>1, DatasetTells
  <2> QED BY <1>2, <1>4, <2>1 DEF ConstraintsAlike
<1>6. Advice!Represented(p, again)
  BY <1>2, <1>4 DEF Advice!Represented, AsBefore
<1> QED BY <1>3, <1>5, <1>6 DEF Alike

\* A specification that came back is told of as it was before.
LEMMA SpecAlike ==
    ASSUME NEW p, NEW s, Tellable(p, s), NEW map, Placings(map, p, s), NEW again, AsBefore(again, map, p, s),
           NEW s2, Advice!IsDataset(s2), PartsBack(s2, s, p, map)
    PROVE  Alike(s2, again, s, map) /\ Advice!Represented(s2, again)
<1>1. Advice!IsDataset(s) /\ DOMAIN s.fields = DOMAIN p.fields
  BY DEF Tellable
<1>2. \A f \in DOMAIN p.fields : \A v \in ValuesOf(p, s, f) :
        /\ Among(p, map, f, v) \in DOMAIN again[f]
        /\ Advice!Mapped(again, f, Among(p, map, f, v)) = map[f][v] /\ Advice!Mapped(map, f, v) = map[f][v]
  BY DEF Placings, Maps, AsBefore, Advice!Mapped
<1>3. ASSUME NEW f \in DOMAIN s2.fields PROVE FieldsAlike(s2.fields[f], f, again, s.fields[f], map)
  <2>1. f \in DOMAIN p.fields /\ FieldBack(s2.fields[f], s.fields[f], p, map, f)
    BY <1>1 DEF PartsBack
  <2>2. \A i \in DOMAIN s.fields[f].categories : s.fields[f].categories[i] \in ValuesOf(p, s, f)
    BY DEF ValuesOf, Advice!CategoriesIn, Advice!ToSet
  <2> DEFINE x == s.fields[f]
             y == s2.fields[f]
  <2> HIDE DEF x, y
  <2>3. FieldBack(y, x, p, map, f) /\ \A i \in DOMAIN x.categories : x.categories[i] \in ValuesOf(p, s, f)
    BY <2>1, <2>2 DEF x, y
  <2>4. FieldsAlike(y, f, again, x, map)
    BY <1>2, <2>1, <2>3 DEF FieldsAlike, FieldBack
  <2> QED BY <2>4 DEF x, y
<1>4. ASSUME NEW i \in DOMAIN s.constraints, s.constraints[i].on # None
      PROVE  s.constraints[i].on \in DOMAIN p.fields /\ s.constraints[i].equals \in ValuesOf(p, s, s.constraints[i].on)
  <2>1. s.constraints[i] \in Advice!Conditions(s)
    BY <1>1, <1>4, DatasetTells
  <2> QED BY <2>1 DEF Tellable
<1>5. ASSUME NEW i \in DOMAIN s2.constraints PROVE ConstraintsAlike(s2.constraints[i], again, s.constraints[i], map)
  <2> DEFINE k == s2.constraints[i]
             j == s.constraints[i]
  <2>1. ConstraintBack(k, j, p, map)
    BY DEF PartsBack
  <2>2. j.on # None => j.on \in DOMAIN p.fields /\ j.equals \in ValuesOf(p, s, j.on)
    BY <1>4 DEF PartsBack
  <2> HIDE DEF k, j
  <2>3. ConstraintsAlike(k, again, j, map)
    BY <1>2, <2>1, <2>2 DEF ConstraintsAlike, ConstraintBack
  <2> QED BY <2>3 DEF k, j
<1>6. ASSUME NEW c \in Advice!Conditions(s2) PROVE c.on \in DOMAIN again /\ c.equals \in DOMAIN again[c.on]
  <2>1. PICK i \in DOMAIN s2.constraints : c = s2.constraints[i] /\ c.on # None
    BY DatasetTells
  <2> DEFINE j == s.constraints[i]
  <2>2. ConstraintBack(c, j, p, map)
    BY <2>1 DEF PartsBack
  <2>3. c.on = j.on
    BY <2>2 DEF ConstraintBack
  <2>4. j.on \in DOMAIN p.fields /\ j.equals \in ValuesOf(p, s, j.on)
    BY <1>4, <2>1, <2>3 DEF PartsBack
  <2> HIDE DEF j
  <2>5. c.equals = Among(p, map, j.on, j.equals)
    BY <2>1, <2>2, <2>3 DEF ConstraintBack
  <2> QED BY <1>2, <2>3, <2>4, <2>5 DEF AsBefore
<1>7. Advice!Represented(s2, again)
  BY <1>6 DEF Advice!Represented
<1> QED BY <1>3, <1>5, <1>7 DEF Alike, PartsBack

\* What came back fits the profile, because the specification did: a label of a
\* request looks like no secret.
LEMMA BackFits ==
    ASSUME NEW p, NEW s, Tellable(p, s), NEW map, Placings(map, p, s), Advice!FitsProfile(p, s),
           NEW s2, Advice!IsDataset(s2), PartsBack(s2, s, p, map)
    PROVE  Advice!FitsProfile(p, s2)
<1>1. Advice!IsDataset(s) /\ DOMAIN s.fields = DOMAIN p.fields /\ DOMAIN s2.fields = DOMAIN p.fields
  BY DEF Tellable, PartsBack
<1>2. ASSUME NEW f \in DOMAIN p.fields, NEW v \in ValuesOf(p, s, f), v \notin AdviceSecrets
      PROVE  Among(p, map, f, v) \notin AdviceSecrets
  <2>1. Placing(map[f], p, s, f)
    BY DEF Placings
  <2>2. CASE v \in Advice!CategoriesIn(p, f)
    BY <1>2, <2>2 DEF Among
  <2>3. CASE v \notin Advice!CategoriesIn(p, f) /\ Allowed(p, s, f)
    BY <1>2, <2>1, <2>3 DEF Among, Placing
  <2>4. CASE v \notin Advice!CategoriesIn(p, f) /\ ~Allowed(p, s, f)
    <3>1. PICK j \in Nat : map[f][v] = <<"a", f, j, 0>>
      BY <2>1, <2>4 DEF Placing
    <3>2. Len(<<"a", f, j, 0>>) = 4
      OBVIOUS
    <3>3. \A w \in AdviceSecrets : Len(w) # 4
      BY AdviceAssumption DEF Advice!SecretsAssumption
    <3>4. <<"a", f, j, 0>> \notin AdviceSecrets
      BY <3>2, <3>3
    <3>5. Among(p, map, f, v) = map[f][v]
      BY <2>4 DEF Among
    <3> QED BY <3>1, <3>4, <3>5
  <2> QED BY <2>2, <2>3, <2>4
<1>3. ASSUME NEW f \in DOMAIN s2.fields
      PROVE  /\ p.fields[f].sensitive \/ Advice!LooksSensitive(f, p.fields[f]) \/ Advice!LooksSensitive(f, s2.fields[f])
                => s2.fields[f].sensitive
             /\ p.fields[f].identifier => s2.fields[f].identifier
             /\ s2.fields[f].sensitive => s2.fields[f].categories = <<>>
             /\ Advice!ToSet(s2.fields[f].categories) \cap AdviceSecrets = {}
  <2> DEFINE x == s.fields[f]
             y == s2.fields[f]
  <2>1. FieldBack(y, x, p, map, f) /\ f \in DOMAIN p.fields
    BY <1>1 DEF PartsBack
  <2>2. /\ p.fields[f].sensitive \/ Advice!LooksSensitive(f, p.fields[f]) \/ Advice!LooksSensitive(f, x) => x.sensitive
        /\ p.fields[f].identifier => x.identifier
        /\ x.sensitive => x.categories = <<>>
        /\ Advice!ToSet(x.categories) \cap AdviceSecrets = {}
    BY <1>1 DEF Advice!FitsProfile
  <2>3. \A i \in DOMAIN x.categories : x.categories[i] \in ValuesOf(p, s, f) /\ x.categories[i] \in Advice!ToSet(x.categories)
    BY DEF ValuesOf, Advice!CategoriesIn, Advice!ToSet
  <2>4. y.categories \in Seq(Advice!ToSet(y.categories))
    BY DatasetTells DEF Advice!IsField
  <2> HIDE DEF x, y
  <2>5. y.sensitive = x.sensitive /\ y.identifier = x.identifier /\ Advice!LooksSensitive(f, y) = Advice!LooksSensitive(f, x)
    BY <2>1 DEF FieldBack, Advice!LooksSensitive
  <2>6. x.categories = <<>> => y.categories = <<>>
    <3> SUFFICES ASSUME x.categories = <<>> PROVE y.categories = <<>>
      OBVIOUS
    <3> DEFINE a == x.categories
               b == y.categories
               W == Advice!ToSet(b)
    <3>1. a = <<>> /\ DOMAIN b = DOMAIN a /\ b \in Seq(W)
      BY <2>1, <2>4 DEF FieldBack
    <3> HIDE DEF a, b, W
    <3>2. DOMAIN b = {} /\ DOMAIN b = 1..Len(b) /\ Len(b) \in Nat
      BY <3>1
    <3>3. Len(b) = 0
      <4> SUFFICES ASSUME Len(b) # 0 PROVE FALSE
        OBVIOUS
      <4>1. 1 \in 1..Len(b)
        BY <3>2
      <4> QED BY <3>2, <4>1
    <3>4. b = <<>>
      BY <3>1, <3>3
    <3> QED BY <3>4 DEF b
  <2>7. Advice!ToSet(y.categories) \cap AdviceSecrets = {}
    <3> SUFFICES ASSUME NEW l \in Advice!ToSet(y.categories) PROVE l \notin AdviceSecrets
      OBVIOUS
    <3>1. PICK i \in DOMAIN y.categories : l = y.categories[i]
      BY DEF Advice!ToSet
    <3>2. l = Among(p, map, f, x.categories[i]) /\ i \in DOMAIN x.categories
      BY <2>1, <3>1 DEF FieldBack
    <3>3. x.categories[i] \in ValuesOf(p, s, f) /\ x.categories[i] \notin AdviceSecrets
      BY <2>2, <2>3, <3>2
    <3> QED BY <1>2, <2>1, <3>2, <3>3
  <2>8. /\ p.fields[f].sensitive \/ Advice!LooksSensitive(f, p.fields[f]) \/ Advice!LooksSensitive(f, y) => y.sensitive
        /\ p.fields[f].identifier => y.identifier
        /\ y.sensitive => y.categories = <<>>
        /\ Advice!ToSet(y.categories) \cap AdviceSecrets = {}
    BY <2>2, <2>5, <2>6, <2>7
  <2> QED BY <2>8 DEF y
<1>4. s2.names = p.names
  BY DEF PartsBack, Advice!FitsProfile
<1> QED BY <1>3, <1>4, Zenon DEF Advice!FitsProfile

\* A request of plain values is the same when it is made again.
LEMMA RequestAgain ==
    ASSUME NEW p, Advice!IsDataset(p), NEW s, Advice!IsDataset(s), IsPlain(p, s),
           NEW q, q = Advice!Build(p, s, Advice!NothingKept(p)), q # None
    PROVE  Advice!Rebuild(p, q) = q
<1> DEFINE map == Advice!Sanitizing(p, s, Advice!NothingKept(p))
           back == BackOf(p, q)
           kept == Advice!KeptLabels(q)
           s2 == Advice!Replaced(q.spec, back)
           again == Advice!Sanitizing(p, s2, kept)
<1>1. Advice!FitsProfile(p, s) /\ Tellable(p, s)
  BY BuildTells
<1>2. q = [profile |-> Advice!Replaced(p, map), spec |-> Advice!Replaced(s, map)]
  <2> HIDE DEF map
  <2>1. q = IF Advice!FitsProfile(p, s) /\ Advice!Represented(p, map) /\ Advice!Represented(s, map)
            THEN [profile |-> Advice!Replaced(p, map), spec |-> Advice!Replaced(s, map)] ELSE None
    BY Zenon DEF Advice!Build, map
  <2> QED BY <2>1
<1>3. Placings(map, p, s)
  BY <1>1, RequestPlaces
<1>4. Advice!Rebuild(p, q) = Advice!Build(p, s2, kept)
  BY Zenon DEF Advice!Rebuild, BackOf
<1>5. Advice!Build(p, s2, kept) = IF Advice!FitsProfile(p, s2) /\ Advice!Represented(p, again) /\ Advice!Represented(s2, again)
            THEN [profile |-> Advice!Replaced(p, again), spec |-> Advice!Replaced(s2, again)] ELSE None
  BY Zenon DEF Advice!Build
<1> HIDE DEF map, back, kept, s2, again
<1>6. q.profile = Advice!Replaced(p, map) /\ q.spec = Advice!Replaced(s, map)
  BY <1>2
<1>7. WayBack(back, map, p, s)
  BY <1>1, <1>3, <1>6, PlacesReturn DEF back
<1>8. KeepsOthers(kept, map, p, s)
  BY <1>1, <1>3, <1>6, OthersStay DEF kept
<1>9. s2 = Advice!Replaced(q.spec, back)
  BY DEF s2
<1>10. SpecBack(s2, map, p, s) /\ PartsBack(s2, s, p, map)
  BY <1>1, <1>3, <1>6, <1>7, <1>9, SpecComesBack, PartsComeBack
<1>11. AsBefore(again, map, p, s)
  BY <1>1, <1>3, <1>8, <1>10, PlacesStay DEF again
<1>12. Advice!IsDataset(s2)
  BY <1>10 DEF SpecBack
<1>13. Alike(p, again, p, map) /\ Advice!Represented(p, again)
  BY <1>1, <1>3, <1>11, ProfileAlike
<1>14. Alike(s2, again, s, map) /\ Advice!Represented(s2, again)
  BY <1>1, <1>3, <1>10, <1>11, <1>12, SpecAlike
<1>15. Advice!FitsProfile(p, s2)
  BY <1>1, <1>3, <1>10, <1>12, BackFits
<1>16. Advice!Replaced(p, again) = Advice!Replaced(p, map) /\ Advice!Replaced(s2, again) = Advice!Replaced(s, map)
  BY <1>12, <1>13, <1>14, ReplacedAlike
<1> QED BY <1>2, <1>4, <1>5, <1>13, <1>14, <1>15, <1>16

\* So every call's request can be made again.
LEMMA RequestsAreVerified == AdviceInv => Advice!VerificationFits
<1> SUFFICES ASSUME AdviceInv, NEW c \in AdviceCalls, Advice!Advising(c), Advice!Plain(job[c])
             PROVE  Advice!Rebuild(job[c].profile, Advice!Asked(c)) = Advice!Asked(c)
  BY Zenon DEF Advice!VerificationFits
<1> DEFINE p == job[c].profile
           s == job[c].spec
           q == exchange[c].asked
<1>1. AsksOf(job[c], exchange[c]) /\ job[c].kind = "advise"
  BY CallAsks DEF Advice!Advising
<1>2. Tellable(p, s) /\ q # None /\ q = Advice!Build(p, s, Advice!NothingKept(p))
  BY <1>1 DEF AsksOf
<1>3. /\ \A v \in Advice!AllValues(p) \cup Advice!AllValues(s) : ~Advice!IsLabel(v, {"a"})
      /\ \A f \in DOMAIN p.fields : Advice!IsInjective(p.fields[f].categories)
      /\ \A k \in Advice!Conditions(p) : k.equals \in Advice!CategoriesIn(p, k.on)
  BY Zenon DEF Advice!Plain
<1>4. Advice!Asked(c) = q
  BY DEF Advice!Asked
<1> HIDE DEF p, s, q
<1>5. IsPlain(p, s)
  BY <1>3 DEF IsPlain, Advice!IsInjective
<1>6. Advice!Rebuild(p, q) = q
  BY <1>2, <1>5, RequestAgain DEF Tellable
<1> QED BY <1>4, <1>6 DEF p

\* ProviderAdvice.AdviceIsRestored, VerificationFits
\* Whatever a provider makes of what it is told, and however calls overlap: a
\* proposal that is accepted is what was asked for if the provider returned it as
\* it was told, and has in any case the local data, the settings and the marks of
\* fields that were never told, and no label; and a request is the same when it
\* is made again of the profile that it was made of.
THEOREM AcceptedAdviceIsRestored == SynthesisSpec => []AdviceIsRestored
<1>1. AdviceHolds => AdviceIsRestored
  BY AcceptedIsRestored, RequestsAreVerified DEF AdviceHolds, AdviceIsRestored
<1> QED BY <1>1, AdviceInvariant, PTL

=============================================================================
